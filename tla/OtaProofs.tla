------------------------------ MODULE OtaProofs ------------------------------
(***************************************************************************)
(* Proofs about Ota for every number of images, pieces, checkpoints and    *)
(* events: what a session resumes with is what its client had accepted, a  *)
(* staged image is the declared one, and there is always an image to boot. *)
(***************************************************************************)
EXTENDS Ota, TLAPS

-----------------------------------------------------------------------------
(* Types. *)

Pieces == Images \cup {"base", "junk"}
Marks == {"NONE", "VALID", "NEW", "PENDING", "ABORTED", "INVALID"}
Ids == Images \cup {"none"}

Sess == [state : {"IDLE", "RECEIVING", "STAGED", "COMMITTED"}, id : Ids,
         received : 0..Sectors, journaled : 0..Sectors, gen : Nat]
Works == [at : {"idle", "erase0", "erase1", "begin", "persist", "range", "verify",
                "off"},
          then : {"none", "create", "stage", "expire", "restore", "whole",
                  "shifted"},
          left : 0..Sectors, data : Images \cup {"junk"}]

FlashTypeOK ==
  /\ slot \in [0..1 -> [1..Sectors -> Pieces]]
  /\ select \in 0..1
  /\ mark \in [0..1 -> Marks]
RamTypeOK == run \in 0..1 /\ ses \in Sess /\ work \in Works
AcceptedTypeOK == accepted \in [id : Ids, data : [1..Sectors -> SUBSET Images]]
TypeOK == FlashTypeOK /\ RamTypeOK /\ AcceptedTypeOK

-----------------------------------------------------------------------------
(* The inductive invariant. *)

On == work.at # "off"
Creating == work.at = "begin"
            \/ (work.at \in {"erase0", "erase1"} /\ work.then = "create")
Settled(s) == mark[s] \in {"NONE", "VALID"}

\* Only a session writes the slot, and only over a confirmed running image.
Sessions ==
  /\ work.at \in {"persist", "range", "verify"} => Active
  /\ ses.state # "IDLE" \/ Creating => On /\ image = "CONFIRMED"
  /\ work.at = "range" => /\ work.then = "whole" /\ work.data \in Images
                          /\ ses.received + work.left <= Sectors

\* The running image is whole; where it is on trial the other one is.
RunningSlot ==
  On => /\ Whole(run) /\ mark[run] # "NEW"
        /\ Settled(run) \/ select = Target \/ Whole(Target)
        /\ image = "CONFIRMED" => Settled(run)

\* Only the selected image is yet to be tried, and then the other one is whole.
NewImage ==
  /\ mark[1 - select] # "NEW"
  /\ mark[select] = "NEW" => Whole(1 - select)

\* A record of the journal is of the session the client created last, and its
\* prefix is one the client had accepted.
OfLastSession(r) ==
  r.gen > 0 => /\ r.id = accepted.id /\ r.received \in 0..Sectors
               /\ \A i \in 1..r.received : r.prefix[i] \in accepted.data[i]
JournalIsLast ==
  \A k \in 0..1 : journal[k].gen \in Nat /\ OfLastSession(journal[k])
Records ==
  /\ DOMAIN journal = 0..1 /\ JournalIsLast
  /\ work.at \in {"erase1", "begin"} => journal[0].gen = 0
  /\ work.at = "begin" => journal[1].gen = 0

IInv == /\ TypeOK /\ Sessions /\ RunningSlot /\ NewImage /\ SomethingBoots
        /\ Records /\ ResumeIsExact /\ StagedIsDeclared

-----------------------------------------------------------------------------
(* The initial state. *)

\* A device installed over USB satisfies the invariant.
LEMMA InitIsSafe == Init => IInv
  <1> SUFFICES ASSUME Init PROVE IInv
    OBVIOUS
  <1> USE OtaAssumption DEF Init
  <1>1. TypeOK
    BY DEF TypeOK, FlashTypeOK, RamTypeOK, AcceptedTypeOK, Pieces, Marks, Ids,
           Sess, Works, NoSession, Idle, NothingAccepted, Blank
  <1>2. Whole(0)
    BY DEF Whole
  <1>3. SomethingBoots
    BY <1>2 DEF SomethingBoots, BootSlot, Tried
  <1>4. RunningSlot /\ NewImage
    BY <1>2 DEF RunningSlot, NewImage, Settled
  <1>5. Sessions /\ Records /\ ResumeIsExact /\ StagedIsDeclared
    BY DEF Sessions, Creating, Idle, NoSession, Active, Records, JournalIsLast, OfLastSession,
           ResumeIsExact, StagedIsDeclared
  <1> QED
    BY <1>1, <1>3, <1>4, <1>5 DEF IInv

-----------------------------------------------------------------------------
(* Types. *)

\* The empty session, and where an operation may start.
LEMMA Constants ==
  /\ NoSession \in Sess
  /\ Idle \in Works /\ At("begin") \in Works /\ At("persist") \in Works
  /\ At("verify") \in Works /\ At("off") \in Works
  /\ \A then \in {"create", "stage", "expire", "restore"} : Erase(then) \in Works
  <1>1. 0 \in 0..Sectors
    BY OtaAssumption
  <1>2. NoSession \in Sess
    BY <1>1 DEF NoSession, Ids, Sess
  <1>3. \A step \in {"idle", "erase0", "begin", "persist", "verify", "off"} :
          [at |-> step, then |-> "none", left |-> 0, data |-> "junk"] \in Works
    BY <1>1 DEF Works
  <1>4. \A step \in {"begin", "persist", "verify", "off"} : At(step) \in Works
    BY <1>3 DEF At, Idle
  <1>5. \A then \in {"create", "stage", "expire", "restore"} : Erase(then) \in Works
    BY <1>1 DEF Erase, Idle, Works
  <1> QED
    BY <1>2, <1>3, <1>4, <1>5 DEF Idle

\* Where they are.
LEMMA Places ==
  /\ Idle.at = "idle"
  /\ \A step : At(step).at = step
  /\ \A then : Erase(then).at = "erase0" /\ Erase(then).then = then
  BY DEF Idle, At, Erase

\* What Failed leaves.
LEMMA FailedType == RamTypeOK /\ Failed => ses' \in Sess /\ work' \in Works
  BY Constants DEF Failed, RamTypeOK, NoSession, Sess

\* The newest of some records is one of them.
LEMMA NewestIsOne ==
  ASSUME NEW keys \in SUBSET (0..1), keys # {},
         \A k \in 0..1 : journal[k].gen \in Nat
  PROVE  Newest(keys) \in keys
  <1>1. \E k \in keys : \A o \in keys : journal[k].gen >= journal[o].gen
    <2>1. \A o \in keys : o = 0 \/ o = 1
      OBVIOUS
    <2>2. journal[0].gen \in Nat /\ journal[1].gen \in Nat
      OBVIOUS
    <2> DEFINE best == IF 0 \in keys /\ (1 \in keys => journal[0].gen >= journal[1].gen)
                       THEN 0 ELSE 1
    <2>3. best \in keys
      BY <2>1
    <2>4. ASSUME NEW o \in keys PROVE journal[best].gen >= journal[o].gen
      BY <2>1, <2>2, <2>4
    <2> QED
      BY <2>3, <2>4
  <1> QED
    BY <1>1 DEF Newest

\* A restored session is a session, and goes on where a record says and the slot
\* agrees.
LEMMA RestoredSession ==
  ASSUME Records, NEW s, NEW keys \in SUBSET {k \in 0..1 : journal[k].gen > 0}
  PROVE  \/ Restored(s, keys) = NoSession
         \/ \E k \in keys :
              LET r == journal[k] IN
              /\ r.received < Sectors /\ PrefixMatches(s, r)
              /\ Restored(s, keys) =
                   [state |-> "RECEIVING", id |-> r.id, received |-> r.received,
                    journaled |-> r.received, gen |-> r.gen]
  <1>1. CASE keys = {}
    BY <1>1 DEF Restored
  <1>2. CASE keys # {}
    BY <1>2, NewestIsOne DEF Restored, Records, JournalIsLast
  <1> QED
    BY <1>1, <1>2

\* It has the type of a session.
LEMMA RestoredType ==
  ASSUME Records, AcceptedTypeOK, NEW s,
         NEW keys \in SUBSET {k \in 0..1 : journal[k].gen > 0}
  PROVE  Restored(s, keys) \in Sess
  <1>1. ASSUME NEW k \in keys, NEW r, r = journal[k]
        PROVE  [state |-> "RECEIVING", id |-> r.id, received |-> r.received,
                journaled |-> r.received, gen |-> r.gen] \in Sess
    <2>1. r.id \in Ids /\ r.received \in 0..Sectors /\ r.gen \in Nat
      BY <1>1 DEF Records, JournalIsLast, OfLastSession, AcceptedTypeOK
    <2> QED
      BY <2>1 DEF Sess
  <1> QED
    BY <1>1, RestoredSession, Constants

\* What a step makes of a session and of the worker.
LEMMA Updates ==
  ASSUME RamTypeOK
  PROVE  /\ [ses EXCEPT !.gen = ses.gen + 1, !.journaled = ses.received] \in Sess
         /\ [ses EXCEPT !.state = "STAGED", !.journaled = 0] \in Sess
         /\ ses.received < Sectors => [ses EXCEPT !.received = ses.received + 1] \in Sess
         /\ work.left > 0 => [work EXCEPT !.left = work.left - 1] \in Works
         /\ [work EXCEPT !.at = "erase1"] \in Works
  <1> USE OtaAssumption DEF RamTypeOK
  <1>1. /\ ses.gen + 1 \in Nat /\ 0 \in 0..Sectors
        /\ ses.received < Sectors => ses.received + 1 \in 0..Sectors
    BY DEF Sess
  <1>2. work.left > 0 => work.left - 1 \in 0..Sectors
    BY DEF Works
  <1>3. [ses EXCEPT !.gen = ses.gen + 1, !.journaled = ses.received] \in Sess
    BY <1>1 DEF Sess
  <1>4. [ses EXCEPT !.state = "STAGED", !.journaled = 0] \in Sess
    BY <1>1 DEF Sess
  <1>5. ses.received < Sectors => [ses EXCEPT !.received = ses.received + 1] \in Sess
    BY <1>1 DEF Sess
  <1>6. work.left > 0 => [work EXCEPT !.left = work.left - 1] \in Works
    BY <1>2 DEF Works
  <1>7. [work EXCEPT !.at = "erase1"] \in Works
    BY DEF Works
  <1> QED
    BY <1>3, <1>4, <1>5, <1>6, <1>7

\* Every step of a session keeps the types of the RAM.
LEMMA RamTypeStep == IInv /\ [Next]_vars => RamTypeOK'
<1> SUFFICES ASSUME IInv, [Next]_vars PROVE RamTypeOK'
  OBVIOUS
<1> USE OtaAssumption, Constants, FailedType
      DEF IInv, TypeOK, FlashTypeOK, RamTypeOK, flash
<1>1. ASSUME NEW id \in Images, CreateSession(id) PROVE RamTypeOK'
  BY <1>1 DEF CreateSession, Sess, Ids
<1>2. ASSUME NEW id \in Images, NEW d \in Images, NEW o \in 0..Sectors,
             NEW n \in 1..Sectors, Patch(id, o, n, d)
      PROVE  RamTypeOK'
  BY <1>2 DEF Patch, Works
<1>3. CASE Discard \/ SessionExpires \/ RangeFails \/ PersistFails
  BY <1>3 DEF Discard, SessionExpires, RangeFails, PersistFails
<1>4. CASE Commit
  BY <1>4 DEF Commit, Sess
<1>5. CASE EraseKey
  <2>1. [work EXCEPT !.at = "erase1"] \in Works
    BY Updates
  <2> QED
    BY <1>5, <2>1 DEF EraseKey
<1>6. CASE EraseFails
  BY <1>6 DEF EraseFails, NoSession, Sess
<1>7. CASE BeginSession
  BY <1>7 DEF BeginSession, Sess
<1>8. CASE Persist
  <2>1. [ses EXCEPT !.gen = ses.gen + 1, !.journaled = ses.received] \in Sess
    BY Updates
  <2> QED
    BY <1>8, <2>1 DEF Persist
<1>9. CASE WriteSector
  <2>1. ses.received < Sectors /\ work.left > 0
    <3>1. ses.received + work.left <= Sectors
      BY <1>9 DEF WriteSector, Sessions
    <3>2. ses.received \in Nat /\ work.left \in Nat
      BY DEF Sess, Works
    <3> QED
      BY <1>9, <3>1, <3>2 DEF WriteSector
  <2> QED
    <3>1. [ses EXCEPT !.received = ses.received + 1] \in Sess
      BY <2>1, Updates
    <3>2. [work EXCEPT !.left = work.left - 1] \in Works
      BY <2>1, Updates
    <3> QED
      BY <1>9, <3>1, <3>2 DEF WriteSector
<1>10. CASE RangeEnds
  BY <1>10 DEF RangeEnds
<1>11. CASE Stage
  <2>1. [ses EXCEPT !.state = "STAGED", !.journaled = 0] \in Sess
    BY Updates
  <2> QED
    BY <1>11, <2>1 DEF Stage
<1>12. CASE EraseStale
  BY <1>12 DEF EraseStale
<1>13. CASE RereadState \/ ConfirmImage \/ DeadlinePasses
  BY <1>13 DEF RereadState, ConfirmImage, DeadlinePasses
<1>14. CASE Restart \/ PowerCut
  BY <1>14 DEF Restart, PowerCut, PowerOff
<1>15. CASE Boot
  <2>1. BootSlot \in 0..1 /\ run' = BootSlot
    BY <1>15 DEF Boot, BootSlot
  <2>2. PICK keys \in SUBSET {k \in 0..1 : journal[k].gen > 0} :
          /\ ses' = Restored(1 - run', keys)
          /\ work' \in {Erase("restore"), Idle}
    <3>1. PICK keys \in SUBSET {k \in 0..1 : journal[k].gen > 0} :
            LET used == IF image' = "CONFIRMED" THEN keys ELSE {}
            IN /\ ses' = Restored(1 - run', used)
               /\ work' = IF used # {} /\ ses'.state = "IDLE"
                          THEN Erase("restore") ELSE Idle
      BY <1>15 DEF Boot
    <3> QED
      BY <3>1
  <2>3. Restored(1 - run', keys) \in Sess
    BY <2>2, RestoredType
  <2> QED
    BY <2>1, <2>2, <2>3
<1>16. CASE MachineMoves
  BY <1>16 DEF MachineMoves, ram
<1>17. CASE UNCHANGED vars
  BY <1>17 DEF vars
<1> QED
  BY <1>1, <1>2, <1>3, <1>4, <1>5, <1>6, <1>7, <1>8, <1>9, <1>10, <1>11, <1>12,
     <1>13, <1>14, <1>15, <1>16, <1>17
     DEF Next, Client, Worker, Manager

\* And of the flash and of the history.
LEMMA TypeStep == IInv /\ [Next]_vars => TypeOK'
<1> SUFFICES ASSUME IInv, [Next]_vars PROVE FlashTypeOK' /\ AcceptedTypeOK'
  BY RamTypeStep DEF TypeOK
<1> USE OtaAssumption
      DEF IInv, TypeOK, FlashTypeOK, RamTypeOK, AcceptedTypeOK, flash, Marks
<1>1. ASSUME NEW id \in Images, CreateSession(id)
      PROVE  FlashTypeOK' /\ AcceptedTypeOK'
  BY <1>1 DEF CreateSession
<1>2. ASSUME NEW id \in Images, NEW d \in Images, NEW o \in 0..Sectors,
             NEW n \in 1..Sectors, Patch(id, o, n, d)
      PROVE  FlashTypeOK' /\ AcceptedTypeOK'
  BY <1>2 DEF Patch
<1>3. CASE Discard \/ SessionExpires \/ RangeFails \/ PersistFails
  BY <1>3 DEF Discard, SessionExpires, RangeFails, PersistFails
<1>4. CASE Commit
  BY <1>4 DEF Commit, Target
<1>5. CASE EraseKey \/ EraseFails \/ EraseStale
  BY <1>5 DEF EraseKey, EraseFails, EraseStale
<1>6. CASE BeginSession
  BY <1>6 DEF BeginSession, NothingAccepted, Sess
<1>7. CASE Persist \/ RangeEnds \/ Stage
  BY <1>7 DEF Persist, RangeEnds, Stage
<1>8. CASE WriteSector
  <2>1. ses.received + 1 \in 1..Sectors /\ work.data \in Images
    BY <1>8 DEF WriteSector, Sessions, Sess, Works
  <2>2. Piece \in Pieces
    BY <2>1 DEF Piece, Pieces
  <2>3. FlashTypeOK'
    BY <1>8, <2>1, <2>2 DEF WriteSector, Target
  <2>4. AcceptedTypeOK'
    BY <1>8, <2>1 DEF WriteSector
  <2> QED
    BY <2>3, <2>4
<1>9. CASE RereadState \/ ConfirmImage \/ DeadlinePasses
  BY <1>9 DEF RereadState, ConfirmImage, DeadlinePasses, Confirmed
<1>10. CASE Restart
  BY <1>10 DEF Restart
<1>11. CASE PowerCut
  <2>1. CASE slot' = slot
    BY <1>11, <2>1 DEF PowerCut
  <2>2. CASE /\ ses.received < Sectors
             /\ slot' = [slot EXCEPT ![Target][ses.received + 1] = "junk"]
    <3>1. ses.received + 1 \in 1..Sectors /\ "junk" \in Pieces
      BY <2>2 DEF Sess, Pieces
    <3> QED
      BY <1>11, <2>2, <3>1 DEF PowerCut, Target
  <2> QED
    BY <1>11, <2>1, <2>2 DEF PowerCut
<1>12. CASE Boot
  BY <1>12 DEF Boot, Tried
<1>13. CASE MachineMoves \/ UNCHANGED vars
  BY <1>13 DEF MachineMoves, vars
<1> QED
  BY <1>1, <1>2, <1>3, <1>4, <1>5, <1>6, <1>7, <1>8, <1>9, <1>10, <1>11, <1>12,
     <1>13 DEF Next, Client, Worker, Manager

-----------------------------------------------------------------------------
(* Sessions. *)

\* The journal and the slot are written for a session that is receiving.
LEMMA SessionsStep == IInv /\ [Next]_vars => Sessions'
<1> SUFFICES ASSUME IInv, [Next]_vars PROVE Sessions'
  OBVIOUS
<1> USE OtaAssumption
      DEF IInv, TypeOK, RamTypeOK, Sessions, Active, Creating, On, Free, flash, Idle,
          At, Erase
<1>1. ASSUME NEW id \in Images, CreateSession(id) PROVE Sessions'
  BY <1>1 DEF CreateSession, MayCreate
<1>2. ASSUME NEW id \in Images, NEW d \in Images, NEW o \in 0..Sectors,
             NEW n \in 1..Sectors, Patch(id, o, n, d)
      PROVE  Sessions'
  <2>1. ses.received \in 0..Sectors
    BY DEF Sess
  <2>2. n \in 1..(Sectors - ses.received) /\ o = ses.received
    BY <1>2 DEF Patch, OffsetFits
  <2>3. ses.received + n <= Sectors
    BY <2>1, <2>2
  <2> QED
    BY <1>2, <2>2, <2>3 DEF Patch
<1>3. CASE Discard \/ SessionExpires \/ RangeFails \/ PersistFails
  <2>1. Failed
    BY <1>3 DEF Discard, SessionExpires, RangeFails, PersistFails
  <2>2. ses'.state = "IDLE" /\ work'.at = "idle"
    BY <2>1 DEF Failed, NoSession
  <2> QED
    BY <2>2
<1>4. CASE Commit
  BY <1>4 DEF Commit, Failed, NoSession, Sess
<1>5. CASE EraseKey
  <2>1. UNCHANGED <<ses, image>>
    BY <1>5 DEF EraseKey
  <2>2. CASE work.at = "erase0"
    <3>1. work'.at = "erase1" /\ work'.then = work.then
      BY <1>5, <2>2 DEF EraseKey, Works
    <3> QED
      BY <2>1, <2>2, <3>1
  <2>3. CASE work.at = "erase1"
    <3>1. work' = IF work.then = "create" THEN At("begin") ELSE Idle
      BY <1>5, <2>3 DEF EraseKey
    <3> QED
      BY <2>1, <2>3, <3>1
  <2> QED
    BY <1>5, <2>2, <2>3 DEF EraseKey
<1>6. CASE EraseFails
  BY <1>6 DEF EraseFails, NoSession
<1>7. CASE BeginSession
  BY <1>7 DEF BeginSession
<1>8. CASE Persist
  BY <1>8 DEF Persist, Sess
<1>9. CASE WriteSector
  <2>1. /\ ses.received + work.left <= Sectors
        /\ ses.received \in Nat /\ work.left \in Nat
    BY <1>9 DEF WriteSector, Sess, Works
  <2>2. /\ ses' = [ses EXCEPT !.received = ses.received + 1]
        /\ work' = [work EXCEPT !.left = work.left - 1]
        /\ image' = image /\ work.at = "range"
    BY <1>9 DEF WriteSector
  <2>3. /\ ses'.state = ses.state /\ ses'.received = ses.received + 1
        /\ work'.at = "range" /\ work'.left = work.left - 1
        /\ work'.then = work.then /\ work'.data = work.data
    BY <2>2 DEF Sess, Works
  <2>4. ses'.received + work'.left = ses.received + work.left
    BY <2>1, <2>3
  <2> QED
    BY <2>1, <2>2, <2>3, <2>4
<1>10. CASE RangeEnds
  BY <1>10 DEF RangeEnds
<1>11. CASE Stage
  <2>1. work.at = "verify" /\ image' = image
    BY <1>11 DEF Stage
  <2>2. CASE Failed
    BY <2>2 DEF Failed, NoSession
  <2>3. CASE work' = Erase("stage")
    <3>1. work'.at = "erase0" /\ work'.then = "stage"
      BY <2>3
    <3> QED
      BY <2>1, <3>1
  <2> QED
    BY <1>11, <2>2, <2>3 DEF Stage
<1>12. CASE EraseStale
  BY <1>12 DEF EraseStale
<1>13. CASE RereadState \/ ConfirmImage \/ DeadlinePasses
  BY <1>13 DEF RereadState, ConfirmImage, DeadlinePasses, Confirmed
<1>14. CASE Restart \/ PowerCut
  BY <1>14 DEF Restart, PowerCut, PowerOff, NoSession
<1>15. CASE Boot
  <2>1. PICK used \in SUBSET {k \in 0..1 : journal[k].gen > 0} :
          /\ used # {} => image' = "CONFIRMED"
          /\ ses' = Restored(1 - run', used)
          /\ work' \in {Erase("restore"), Idle}
    BY <1>15 DEF Boot
  <2>2. used = {} => ses'.state = "IDLE"
    BY <2>1 DEF Restored, NoSession
  <2>3. work'.at \in {"erase0", "idle"} /\ work'.then # "create"
    <3>1. CASE work' = Erase("restore")
      BY <3>1
    <3>2. CASE work' = Idle
      BY <3>2
    <3> QED
      BY <2>1, <3>1, <3>2
  <2> QED
    BY <2>1, <2>2, <2>3
<1>16. CASE MachineMoves \/ UNCHANGED vars
  BY <1>16 DEF MachineMoves, ram, vars
<1> QED
  BY <1>1, <1>2, <1>3, <1>4, <1>5, <1>6, <1>7, <1>8, <1>9, <1>10, <1>11, <1>12,
     <1>13, <1>14, <1>15, <1>16
     DEF Next, Client, Worker, Manager

-----------------------------------------------------------------------------
(* The slots. *)

\* While the device runs there is an image to boot: the running one.
LEMMA RunningBoots == TypeOK /\ On /\ RunningSlot => SomethingBoots
  <1> SUFFICES ASSUME TypeOK, On, RunningSlot PROVE Whole(BootSlot)
    BY DEF SomethingBoots
  <1>1. BootSlot \in {select, 1 - select}
    BY DEF BootSlot
  <1>2. CASE select = Target
    BY <1>1, <1>2 DEF BootSlot, RunningSlot, Target, TypeOK, FlashTypeOK, RamTypeOK
  <1>3. CASE Whole(Target)
    BY <1>1, <1>3 DEF RunningSlot, Target, TypeOK, FlashTypeOK, RamTypeOK
  <1>4. CASE Settled(run) /\ select = run
    BY <1>4 DEF BootSlot, Tried, RunningSlot, Settled, TypeOK, FlashTypeOK
  <1> QED
    BY <1>2, <1>3, <1>4 DEF RunningSlot, Target, TypeOK, FlashTypeOK, RamTypeOK

\* The slots, but for what a restart changes.
Slots == RunningSlot /\ NewImage /\ SomethingBoots

\* The bootloader's choice stays an image when the device goes off.
LEMMA OffKeepsSlots ==
  ASSUME IInv, On, PowerOff, UNCHANGED <<select, mark>>,
         DOMAIN slot' = 0..1, slot'[run] = slot[run],
         slot' = slot \/ image = "CONFIRMED"
  PROVE  Slots'
  <1> USE DEF IInv, TypeOK, FlashTypeOK, RamTypeOK
  <1>1. ~On'
    BY DEF PowerOff, At, Idle, On
  <1>2. PICK r \in 0..1 : r = run
    OBVIOUS
  <1>3. Whole(r) /\ mark[r] # "NEW"
    BY <1>2 DEF RunningSlot
  <1>4. Whole(r)'
    BY <1>2, <1>3 DEF Whole
  <1>5. NewImage'
    BY <1>3, <1>4 DEF NewImage
  <1>6. CASE slot' = slot
    <2>1. BootSlot' = BootSlot
      BY <1>6 DEF BootSlot, Tried, Whole
    <2>2. Whole(BootSlot)'
      BY <1>6, <2>1 DEF SomethingBoots, Whole
    <2> QED
      BY <1>1, <1>5, <2>2 DEF Slots, RunningSlot, SomethingBoots
  <1>7. CASE image = "CONFIRMED"
    <2>1. mark[r] \in {"NONE", "VALID"}
      BY <1>2, <1>7 DEF RunningSlot, Settled
    <2>2. CASE select = r
      <3>1. BootSlot' = r
        BY <1>4, <2>1, <2>2 DEF BootSlot, Tried
      <3> QED
        BY <1>1, <1>4, <1>5, <3>1 DEF Slots, RunningSlot, SomethingBoots
    <2>3. CASE select = 1 - r
      <3>1. 1 - select = r
        BY <2>3
      <3>2. BootSlot' = r \/ (BootSlot' = select /\ Whole(select)')
        BY <3>1 DEF BootSlot
      <3>3. Whole(BootSlot)'
        BY <1>4, <3>2
      <3> QED
        BY <1>1, <1>5, <3>3 DEF Slots, RunningSlot, SomethingBoots
    <2> QED
      BY <2>2, <2>3
  <1> QED
    BY <1>6, <1>7

\* The device boots into a whole image; one on trial has a whole alternative.
LEMMA BootFindsSlots == ASSUME IInv, Boot PROVE Slots'
  <1> USE DEF IInv, TypeOK, FlashTypeOK, RamTypeOK
  <1>1. PICK r \in 0..1 : r = BootSlot
    BY DEF BootSlot
  <1>2. PICK b \in 0..1 : b = select
    OBVIOUS
  <1>3. /\ slot' = slot /\ select' = b /\ run' = r /\ mark' = Tried
        /\ image' \in {ImageOf(mark'[run']), "UNREAD"}
    BY <1>1, <1>2 DEF Boot
  <1>4. /\ mark'[1 - b] = mark[1 - b]
        /\ mark'[b] # "NEW" /\ mark[1 - b] # "NEW"
        /\ mark'[b] = "PENDING" => mark[b] = "NEW"
    BY <1>2, <1>3 DEF Tried, NewImage
  <1>5. Whole(r)'
    BY <1>1, <1>3 DEF SomethingBoots, Whole
  <1>6. mark'[r] # "NEW"
    BY <1>4
  <1>7. Settled(r)' \/ b = 1 - r \/ Whole(1 - r)'
    <2>1. CASE r = b /\ mark'[b] \notin {"NONE", "VALID"}
      <3>1. CASE mark'[b] = "PENDING"
        BY <1>2, <1>3, <1>4, <2>1, <3>1 DEF NewImage, Whole
      <3>2. CASE mark'[b] \in {"ABORTED", "INVALID"}
        <4>1. BootSlot = 1 - b
          BY <1>2, <1>3, <3>2 DEF BootSlot
        <4> QED
          BY <1>1, <2>1, <4>1
      <3>3. mark'[b] \in Marks
        BY TypeStep DEF Next
      <3> QED
        BY <1>4, <2>1, <3>1, <3>2, <3>3 DEF Marks
    <2>2. CASE r = b /\ mark'[b] \in {"NONE", "VALID"}
      BY <2>2 DEF Settled
    <2>3. CASE r # b
      BY <2>3
    <2> QED
      BY <2>1, <2>2, <2>3
  <1>8. image' = "CONFIRMED" => Settled(r)'
    BY <1>3, <1>4, <1>6, TypeStep DEF ImageOf, Settled, Next, Marks
  <1>9. RunningSlot'
    BY <1>3, <1>5, <1>6, <1>7, <1>8 DEF RunningSlot, Target
  <1>10. NewImage'
    BY <1>3, <1>4 DEF NewImage
  <1>11. SomethingBoots'
    <2>1. TypeOK'
      BY TypeStep DEF Next
    <2>2. On'
      BY DEF Boot, On, Erase, Idle
    <2>3. TypeOK' /\ On' /\ RunningSlot' => SomethingBoots'
      BY RunningBoots, PTL
    <2> QED
      BY <1>9, <2>1, <2>2, <2>3
  <1> QED
    BY <1>9, <1>10, <1>11 DEF Slots

\* A step of a device that stays on keeps the slots, if it keeps the running one.
LEMMA RunningKeepsSlots ==
  ASSUME IInv, [Next]_vars, On', RunningSlot', NewImage' PROVE Slots'
  <1>1. TypeOK'
    BY TypeStep
  <1>2. TypeOK' /\ On' /\ RunningSlot' => SomethingBoots'
    BY RunningBoots, PTL
  <1> QED
    BY <1>1, <1>2 DEF Slots

\* So does one that leaves the flash and the running image alone.
LEMMA FrameKeepsSlots ==
  ASSUME IInv, On, On', UNCHANGED <<slot, select, mark, run, image>> PROVE Slots'
  BY DEF IInv, Slots, RunningSlot, NewImage, SomethingBoots, Whole, Settled, Target,
         BootSlot, Tried

\* A verdict on the running image leaves no other one to be tried.
LEMMA MarkKeepsNewImage ==
  ASSUME IInv, NEW v \in Marks \ {"NEW"}, mark' = [mark EXCEPT ![run] = v],
         UNCHANGED <<slot, select>>
  PROVE  NewImage'
  <1>1. \A t \in 0..1 : mark'[t] = "NEW" => mark[t] = "NEW"
    BY DEF IInv, TypeOK, FlashTypeOK
  <1>2. select \in 0..1 /\ 1 - select \in 0..1
    BY DEF IInv, TypeOK, FlashTypeOK
  <1>3. Whole(1 - select) => Whole(1 - select)'
    BY DEF Whole
  <1> QED
    BY <1>1, <1>2, <1>3 DEF IInv, NewImage

\* Every step leaves an image to boot.
LEMMA SlotsStep == IInv /\ [Next]_vars => Slots'
<1> SUFFICES ASSUME IInv, [Next]_vars PROVE Slots'
  OBVIOUS
<1> USE DEF IInv, flash
<1>1. CASE \/ \E id \in Images : CreateSession(id)
           \/ \E id, d \in Images, o \in 0..Sectors, n \in 1..Sectors :
                Patch(id, o, n, d)
           \/ Discard \/ SessionExpires \/ RangeFails \/ PersistFails \/ EraseKey
           \/ EraseFails \/ EraseStale
  <2>1. UNCHANGED <<slot, select, mark, run, image>>
    BY <1>1 DEF CreateSession, Patch, Discard, SessionExpires, RangeFails,
                PersistFails, EraseKey, EraseFails, EraseStale
  <2>2. On
    BY <1>1 DEF CreateSession, Patch, Discard, SessionExpires, RangeFails,
                PersistFails, EraseKey, EraseFails, EraseStale, Free, On
  <2>3. On'
    <3> USE DEF On, Erase, At, Idle
    <3>1. ASSUME NEW id \in Images, CreateSession(id) PROVE On'
      BY <3>1 DEF CreateSession
    <3>2. ASSUME NEW id \in Images, NEW d \in Images, NEW o \in 0..Sectors,
                 NEW n \in 1..Sectors, Patch(id, o, n, d)
          PROVE  On'
      BY <3>2 DEF Patch
    <3>3. CASE Discard \/ SessionExpires \/ RangeFails \/ PersistFails
      BY <3>3 DEF Discard, SessionExpires, RangeFails, PersistFails, Failed
    <3>4. CASE EraseKey
      <4>1. work' \in {[work EXCEPT !.at = "erase1"], At("begin"), Idle}
        BY <3>4 DEF EraseKey
      <4> QED
        BY <4>1 DEF TypeOK, RamTypeOK, Works
    <3>5. CASE EraseFails
      BY <3>5 DEF EraseFails
    <3>6. CASE EraseStale
      BY <3>6 DEF EraseStale
    <3> QED
      BY <1>1, <3>1, <3>2, <3>3, <3>4, <3>5, <3>6
  <2> QED
    BY <2>1, <2>2, <2>3, FrameKeepsSlots
<1>2. CASE BeginSession \/ Persist \/ RangeEnds \/ Stage \/ MachineMoves
  <2>1. UNCHANGED <<slot, select, mark, run, image>>
    BY <1>2 DEF BeginSession, Persist, RangeEnds, Stage, MachineMoves, ram
  <2>2. On
    BY <1>2 DEF BeginSession, Persist, RangeEnds, Stage, MachineMoves, On
  <2>3. work' \in {At("persist"), At("verify"), Idle, Erase("stage"), work}
    BY <1>2 DEF BeginSession, Persist, RangeEnds, Stage, MachineMoves, ram, Failed
  <2>4. On'
    BY <2>2, <2>3, Places DEF On
  <2> QED
    BY <2>1, <2>2, <2>4, FrameKeepsSlots
<1>3. CASE WriteSector
  <2>1. /\ work.at = "range" /\ UNCHANGED <<select, mark, run, image>>
        /\ slot' = [slot EXCEPT ![Target][ses.received + 1] = Piece]
    BY <1>3 DEF WriteSector
  <2>2. On /\ On' /\ image = "CONFIRMED"
    BY <1>3 DEF WriteSector, On, Sessions, Active, TypeOK, RamTypeOK, Works
  <2>3. Whole(run) /\ Settled(run) /\ mark[run] # "NEW"
    BY <2>2 DEF RunningSlot
  <2>4. Target # run /\ run \in 0..1 /\ select \in 0..1 /\ DOMAIN slot = 0..1
    BY DEF Target, TypeOK, RamTypeOK, FlashTypeOK
  <2>5. slot'[run] = slot[run]
    BY <2>1, <2>4
  <2>6. Whole(run)' /\ Settled(run)'
    BY <2>1, <2>3, <2>5 DEF Whole, Settled
  <2>7. RunningSlot'
    BY <2>1, <2>3, <2>6 DEF RunningSlot
  <2>8. NewImage'
    <3>1. mark[select] = "NEW" => 1 - select = run
      BY <2>3, <2>4
    <3> QED
      BY <2>1, <2>6, <3>1 DEF NewImage
  <2> QED
    BY <2>2, <2>7, <2>8, RunningKeepsSlots
<1>4. CASE Commit
  <2>1. On /\ On' /\ image = "CONFIRMED" /\ UNCHANGED <<slot, run, image>>
    BY <1>4 DEF Commit, On, Free, Sessions, Failed, Idle
  <2>2. CASE UNCHANGED <<select, mark>>
    BY <2>1, <2>2, FrameKeepsSlots
  <2>3. CASE select' = Target /\ mark' = [mark EXCEPT ![Target] = "NEW"]
    <3>1. Whole(run) /\ Settled(run) /\ mark[run] # "NEW"
      BY <2>1 DEF RunningSlot
    <3>2. Target # run /\ run \in 0..1 /\ 1 - Target = run
      BY DEF Target, TypeOK, RamTypeOK
    <3>3. mark'[run] = mark[run]
      BY <2>3, <3>2 DEF TypeOK, FlashTypeOK
    <3>4. RunningSlot'
      BY <2>1, <3>1, <3>3 DEF RunningSlot, Whole, Settled
    <3>5. NewImage'
      BY <2>1, <2>3, <3>1, <3>2, <3>3 DEF NewImage, Whole
    <3> QED
      BY <2>1, <3>4, <3>5, RunningKeepsSlots
  <2> QED
    BY <1>4, <2>2, <2>3 DEF Commit
<1>5. CASE RereadState
  <2>1. On /\ On' /\ UNCHANGED <<slot, select, mark, run>> /\ image' = ImageOf(mark[run])
    BY <1>5 DEF RereadState, On, Free
  <2>2. mark[run] \in Marks /\ mark[run] # "NEW"
    BY <2>1 DEF RunningSlot, TypeOK, FlashTypeOK, RamTypeOK
  <2>3. image' = "CONFIRMED" => Settled(run)
    BY <2>1, <2>2 DEF ImageOf, Settled, Marks
  <2>4. RunningSlot' /\ NewImage'
    BY <2>1, <2>3 DEF RunningSlot, NewImage, Whole, Settled, Target
  <2> QED
    BY <2>1, <2>4, RunningKeepsSlots
<1>6. CASE (ConfirmImage \/ DeadlinePasses) /\ Confirmed
  <2>1. /\ On /\ On' /\ UNCHANGED <<slot, select, run>>
        /\ mark' = [mark EXCEPT ![run] = "VALID"] /\ "VALID" \in Marks \ {"NEW"}
    BY <1>6 DEF ConfirmImage, DeadlinePasses, Confirmed, On, Free, Marks
  <2>2. mark'[run] = "VALID" /\ Whole(run)'
    BY <2>1 DEF RunningSlot, TypeOK, FlashTypeOK, RamTypeOK, Whole
  <2>3. RunningSlot'
    BY <2>1, <2>2 DEF RunningSlot, Settled
  <2>4. NewImage'
    BY <2>1, MarkKeepsNewImage
  <2> QED
    BY <2>1, <2>3, <2>4, RunningKeepsSlots
<1>7. CASE DeadlinePasses /\ ~Confirmed
  <2>1. /\ On /\ On' /\ UNCHANGED <<slot, select, run>> /\ image' = "REJECTED"
        /\ mark' = [mark EXCEPT ![run] = "INVALID"] /\ Whole(Target)
        /\ "INVALID" \in Marks \ {"NEW"}
    BY <1>7 DEF DeadlinePasses, On, Free, RollbackPossible, Target, Marks
  <2>2. mark'[run] = "INVALID" /\ Whole(run)' /\ Whole(Target)'
    BY <2>1 DEF RunningSlot, TypeOK, FlashTypeOK, RamTypeOK, Whole, Target
  <2>3. RunningSlot'
    BY <2>1, <2>2 DEF RunningSlot
  <2>4. NewImage'
    BY <2>1, MarkKeepsNewImage
  <2> QED
    BY <2>1, <2>3, <2>4, RunningKeepsSlots
<1>8. CASE Restart
  BY <1>8, OffKeepsSlots DEF Restart, On, Free, TypeOK, FlashTypeOK
<1>9. CASE PowerCut
  <2>1. On /\ PowerOff /\ UNCHANGED <<select, mark>>
    BY <1>9 DEF PowerCut, On
  <2>2. CASE slot' = slot
    BY <2>1, <2>2, OffKeepsSlots DEF TypeOK, FlashTypeOK
  <2>3. CASE /\ work.at = "range"
             /\ slot' = [slot EXCEPT ![Target][ses.received + 1] = "junk"]
    <3>1. image = "CONFIRMED"
      BY <2>3 DEF Sessions, Active
    <3>2. DOMAIN slot' = 0..1 /\ slot'[run] = slot[run]
      BY <2>3 DEF TypeOK, FlashTypeOK, RamTypeOK, Target
    <3> QED
      BY <2>1, <3>1, <3>2, OffKeepsSlots
  <2> QED
    BY <1>9, <2>2, <2>3 DEF PowerCut
<1>10. CASE Boot
  BY <1>10, BootFindsSlots
<1>11. CASE UNCHANGED vars
  BY <1>11 DEF vars, Slots, RunningSlot, NewImage, SomethingBoots, Whole, Settled,
               Target, BootSlot, Tried, On
<1> QED
  BY <1>1, <1>2, <1>3, <1>4, <1>5, <1>6, <1>7, <1>8, <1>9, <1>10, <1>11
     DEF Next, Client, Worker, Manager, ConfirmImage

-----------------------------------------------------------------------------
(* The journal, and what a session resumes with. *)

\* Every step keeps the journal to the last session.
LEMMA RecordsStep == IInv /\ [Next]_vars => Records'
<1> SUFFICES ASSUME IInv, [Next]_vars PROVE Records'
  OBVIOUS
<1> USE DEF IInv, Records
<1>1. CASE /\ UNCHANGED <<journal, accepted>>
           /\ work'.at \notin {"erase1", "begin"} \/ work' = work
  BY <1>1 DEF JournalIsLast, OfLastSession
<1>2. CASE EraseKey
  <2>1. accepted' = accepted
    BY <1>2 DEF EraseKey
  <2>2. CASE work.at = "erase0"
    <3>1. journal' = [journal EXCEPT ![0] = [gen |-> 0]] /\ work'.at = "erase1"
      BY <1>2, <2>2 DEF EraseKey, TypeOK, RamTypeOK, Works
    <3>2. JournalIsLast'
      BY <2>1, <3>1 DEF JournalIsLast, OfLastSession
    <3> QED
      BY <3>1, <3>2
  <2>3. CASE work.at = "erase1"
    <3>1. /\ journal' = [journal EXCEPT ![1] = [gen |-> 0]] /\ journal[0].gen = 0
          /\ work'.at \in {"begin", "idle"}
      BY <1>2, <2>3, Places DEF EraseKey
    <3>2. JournalIsLast'
      BY <2>1, <3>1 DEF JournalIsLast, OfLastSession
    <3> QED
      BY <3>1, <3>2
  <2> QED
    BY <1>2, <2>2, <2>3 DEF EraseKey
<1>3. CASE BeginSession
  <2>1. /\ journal' = journal /\ work'.at = "persist"
        /\ journal[0].gen = 0 /\ journal[1].gen = 0
    BY <1>3, Places DEF BeginSession, flash
  <2> QED
    BY <2>1 DEF JournalIsLast, OfLastSession
<1>4. CASE Persist
  <2>1. Active /\ ses.id = accepted.id /\ ses.received \in 0..Sectors /\ ses.gen \in Nat
    BY <1>4 DEF Persist, Sessions, ResumeIsExact, TypeOK, RamTypeOK, Sess
  <2>2. PICK g \in Nat : g = ses.gen + 1
    BY <2>1
  <2>3. PICK r : r = [gen |-> g, id |-> ses.id, received |-> ses.received,
                      prefix |-> Prefix(Target, ses.received)]
    OBVIOUS
  <2>4. /\ journal' = [journal EXCEPT ![g % 2] = r] /\ work'.at = "idle"
        /\ accepted' = accepted
    BY <1>4, <2>2, <2>3, Places DEF Persist
  <2>5. OfLastSession(r)'
    <3>1. \A i \in 1..ses.received : r.prefix[i] = slot[Target][i]
      BY <2>3 DEF Prefix
    <3>2. \A i \in 1..ses.received : slot[Target][i] \in accepted.data[i]
      BY <2>1 DEF ResumeIsExact
    <3> QED
      BY <2>1, <2>3, <2>4, <3>1, <3>2 DEF OfLastSession
  <2>6. JournalIsLast'
    <3>1. ASSUME NEW j \in 0..1
          PROVE  journal'[j].gen \in Nat /\ OfLastSession(journal[j])'
      <4>1. PICK q : q = journal[j]
        OBVIOUS
      <4>2. OfLastSession(q)'
        BY <2>4, <4>1 DEF JournalIsLast, OfLastSession
      <4>3. CASE journal'[j] = r
        BY <2>2, <2>3, <2>5, <4>3
      <4>4. CASE journal'[j] = q
        BY <4>1, <4>2, <4>4 DEF JournalIsLast
      <4> QED
        BY <2>4, <4>1, <4>3, <4>4
    <3> QED
      BY <3>1 DEF JournalIsLast
  <2> QED
    BY <2>4, <2>6
<1>5. CASE WriteSector
  <2>1. /\ journal' = journal /\ work'.at = "range" /\ accepted'.id = accepted.id
        /\ accepted'.data = [accepted.data EXCEPT ![ses.received + 1] =
                                 @ \cup {work.data}]
    BY <1>5 DEF WriteSector, TypeOK, RamTypeOK, AcceptedTypeOK, Works
  <2>2. \A i \in 1..Sectors : accepted.data[i] \subseteq accepted'.data[i]
    BY <2>1 DEF TypeOK, AcceptedTypeOK
  <2> QED
    BY <2>1, <2>2, OtaAssumption DEF JournalIsLast, OfLastSession
<1>6. CASE \/ \E id \in Images : CreateSession(id)
           \/ \E id, d \in Images, o \in 0..Sectors, n \in 1..Sectors :
                Patch(id, o, n, d)
           \/ Discard \/ SessionExpires \/ EraseStale \/ RereadState \/ ConfirmImage
           \/ DeadlinePasses \/ Restart
  BY <1>1, <1>6, Places
     DEF CreateSession, Patch, Discard, SessionExpires, EraseStale, RereadState,
         ConfirmImage, DeadlinePasses, Restart, PowerOff, Confirmed, Failed, flash
<1>7. CASE Commit \/ EraseFails \/ RangeFails \/ PersistFails \/ RangeEnds \/ Stage
  BY <1>1, <1>7, Places
     DEF Commit, EraseFails, RangeFails, PersistFails, RangeEnds, Stage, Failed, flash
<1>8. CASE Boot \/ PowerCut \/ MachineMoves \/ UNCHANGED vars
  BY <1>1, <1>8, Places DEF Boot, PowerCut, PowerOff, MachineMoves, flash, ram, vars
<1> QED
  BY <1>2, <1>3, <1>4, <1>5, <1>6, <1>7, <1>8 DEF Next, Client, Worker, Manager

\* What a session says it has received is what its client had accepted.
Exact == ResumeIsExact /\ StagedIsDeclared

\* A step that leaves the slots, the session and the history alone keeps it.
LEMMA FrameKeepsExact ==
  ASSUME Exact, UNCHANGED <<slot, run, accepted>>,
         ses' = ses \/ ses'.state = "IDLE"
  PROVE  Exact'
  BY DEF Exact, ResumeIsExact, StagedIsDeclared, Active, Target

\* Every step keeps it.
LEMMA ExactStep == IInv /\ [Next]_vars => Exact'
<1> SUFFICES ASSUME IInv, [Next]_vars PROVE Exact'
  OBVIOUS
<1>1. Exact
  BY DEF IInv, Exact
<1> USE DEF flash
<1>2. CASE \/ \E id \in Images : CreateSession(id)
           \/ \E id, d \in Images, o \in 0..Sectors, n \in 1..Sectors :
                Patch(id, o, n, d)
           \/ Discard \/ SessionExpires \/ EraseStale \/ RereadState \/ ConfirmImage
           \/ DeadlinePasses \/ EraseKey \/ EraseFails \/ RangeFails \/ PersistFails
           \/ RangeEnds \/ MachineMoves \/ UNCHANGED vars
  <2>1. UNCHANGED <<slot, run, accepted>>
    BY <1>2 DEF CreateSession, Patch, Discard, SessionExpires, EraseStale, RereadState,
                ConfirmImage, DeadlinePasses, EraseKey, EraseFails, RangeFails,
                PersistFails, RangeEnds, MachineMoves, vars, ram, Confirmed
  <2>2. ses' = ses \/ ses'.state = "IDLE"
    <3>1. ASSUME NEW id \in Images, CreateSession(id) PROVE ses'.state = "IDLE"
      BY <3>1 DEF CreateSession, IInv, TypeOK, RamTypeOK, Sess
    <3>2. [NoSession EXCEPT !.gen = ses.gen].state = "IDLE"
      BY DEF NoSession
    <3> QED
      BY <1>2, <3>1, <3>2
         DEF Patch, Discard, SessionExpires, EraseStale, RereadState, ConfirmImage,
             DeadlinePasses, EraseKey, EraseFails, RangeFails, PersistFails, RangeEnds,
             MachineMoves, vars, ram, Failed
  <2> QED
    BY <1>1, <2>1, <2>2, FrameKeepsExact
<1>3. CASE BeginSession
  BY <1>3 DEF BeginSession, Exact, ResumeIsExact, StagedIsDeclared, Active,
              NothingAccepted, Target
<1>4. CASE Persist
  <2>1. /\ UNCHANGED <<slot, run, accepted>> /\ ses'.state = ses.state
        /\ ses'.id = ses.id /\ ses'.received = ses.received
    BY <1>4 DEF Persist, IInv, TypeOK, RamTypeOK, Sess
  <2> QED
    BY <1>1, <2>1 DEF Exact, ResumeIsExact, StagedIsDeclared, Active, Target
<1>5. CASE WriteSector
  <2>1. PICK n \in 1..Sectors : n = ses.received + 1
    <3>1. /\ ses.received + work.left <= Sectors /\ work.left > 0
          /\ ses.received \in Nat /\ work.left \in Nat
      BY <1>5 DEF WriteSector, IInv, Sessions, TypeOK, RamTypeOK, Sess, Works
    <3> QED
      BY <3>1, OtaAssumption
  <2>2. Active /\ work.then = "whole" /\ Piece = work.data
    BY <1>5 DEF WriteSector, IInv, Sessions, Piece
  <2>3. /\ slot' = [slot EXCEPT ![Target][n] = work.data]
        /\ accepted' = [accepted EXCEPT !.data[n] = @ \cup {work.data}]
        /\ ses' = [ses EXCEPT !.received = n] /\ run' = run
    BY <1>5, <2>1, <2>2 DEF WriteSector
  <2>4. /\ ses'.state = "RECEIVING" /\ ses'.id = ses.id /\ ses'.received = n
        /\ accepted'.id = accepted.id
    BY <2>2, <2>3 DEF Active, IInv, TypeOK, RamTypeOK, AcceptedTypeOK, Sess
  <2>5. Target \in 0..1
    BY DEF IInv, TypeOK, RamTypeOK, Target
  <2>6. \A i \in 1..Sectors :
          slot'[Target][i] = IF i = n THEN work.data ELSE slot[Target][i]
    BY <2>3, <2>5 DEF IInv, TypeOK, FlashTypeOK
  <2>7. \A i \in 1..Sectors : accepted'.data[i] =
          IF i = n THEN accepted.data[i] \cup {work.data} ELSE accepted.data[i]
    BY <2>3 DEF IInv, TypeOK, AcceptedTypeOK
  <2>8. \A i \in 1..(n - 1) : slot[Target][i] \in accepted.data[i]
    BY <1>1, <2>1, <2>2, OtaAssumption
       DEF Exact, ResumeIsExact, IInv, TypeOK, RamTypeOK, Sess
  <2>9. \A i \in 1..n : slot'[Target][i] \in accepted'.data[i]
    <3>1. ASSUME NEW i \in 1..n PROVE i \in 1..Sectors /\ (i # n => i \in 1..(n - 1))
      BY <2>1, OtaAssumption
    <3> QED
      BY <2>6, <2>7, <2>8, <3>1
  <2> QED
    BY <1>1, <2>2, <2>3, <2>4, <2>9
       DEF Exact, ResumeIsExact, StagedIsDeclared, Active, Target
<1>6. CASE Stage
  <2>1. UNCHANGED <<slot, run, accepted>>
    BY <1>6 DEF Stage
  <2>2. CASE Failed
    BY <1>1, <2>1, <2>2, FrameKeepsExact DEF Failed, NoSession
  <2>3. CASE HashMatches /\ ses' = [ses EXCEPT !.state = "STAGED", !.journaled = 0]
    <3>1. ses'.state = "STAGED" /\ ses'.id = ses.id
      BY <2>3 DEF IInv, TypeOK, RamTypeOK, Sess
    <3> QED
      BY <1>1, <2>1, <2>3, <3>1
         DEF Exact, ResumeIsExact, StagedIsDeclared, Active, Target, HashMatches
  <2> QED
    BY <1>6, <2>2, <2>3 DEF Stage
<1>7. CASE Commit
  <2>1. UNCHANGED <<slot, run, accepted>> /\ ses.state = "STAGED"
    BY <1>7 DEF Commit
  <2>2. CASE Failed
    BY <1>1, <2>1, <2>2, FrameKeepsExact DEF Failed, NoSession
  <2>3. CASE ses' = [ses EXCEPT !.state = "COMMITTED"]
    <3>1. ses'.state = "COMMITTED" /\ ses'.id = ses.id
      BY <2>3 DEF IInv, TypeOK, RamTypeOK, Sess
    <3> QED
      BY <1>1, <2>1, <3>1
         DEF Exact, ResumeIsExact, StagedIsDeclared, Active, Target
  <2> QED
    BY <1>7, <2>2, <2>3 DEF Commit
<1>8. CASE Restart \/ PowerCut
  BY <1>8 DEF Restart, PowerCut, PowerOff, NoSession, Exact, ResumeIsExact,
              StagedIsDeclared, Active
<1>9. CASE Boot
  <2>1. PICK used \in SUBSET {k \in 0..1 : journal[k].gen > 0} :
          ses' = Restored(1 - run', used)
    BY <1>9 DEF Boot
  <2>2. slot' = slot /\ accepted' = accepted
    BY <1>9 DEF Boot
  <2>3. CASE ses' = NoSession
    BY <2>3 DEF NoSession, Exact, ResumeIsExact, StagedIsDeclared, Active
  <2>4. ASSUME NEW k \in used, NEW r, r = journal[k], NEW t, t = 1 - run',
               r.received < Sectors, PrefixMatches(t, r),
               ses' = [state |-> "RECEIVING", id |-> r.id, received |-> r.received,
                       journaled |-> r.received, gen |-> r.gen]
        PROVE  Exact'
    <3>1. /\ r.id = accepted.id
          /\ \A i \in 1..r.received : r.prefix[i] \in accepted.data[i]
      BY <2>4 DEF IInv, Records, JournalIsLast, OfLastSession
    <3>2. \A i \in 1..r.received : slot[t][i] = r.prefix[i]
      BY <2>4 DEF PrefixMatches, Prefix
    <3> QED
      BY <2>2, <2>4, <3>1, <3>2
         DEF Exact, ResumeIsExact, StagedIsDeclared, Active, Target
  <2> QED
    BY <2>1, <2>3, <2>4, RestoredSession DEF IInv
<1> QED
  BY <1>2, <1>3, <1>4, <1>5, <1>6, <1>7, <1>8, <1>9 DEF Next, Client, Worker, Manager

-----------------------------------------------------------------------------
(* The theorems. *)

\* The invariant is inductive.
THEOREM Inductive == Spec => []IInv
<1>1. Init => IInv
  BY InitIsSafe
<1>2. IInv /\ [Next]_vars => IInv'
  BY TypeStep, SessionsStep, SlotsStep, RecordsStep, ExactStep DEF IInv, Slots, Exact
<1> QED
  BY <1>1, <1>2, PTL DEF Spec

\* A session resumes with what its client had accepted, after any sequence of lost
\* answers, aborted uploads, torn writes and restarts (restoreSessionJournal).
THEOREM ResumesExactly == Spec => []ResumeIsExact
<1>1. IInv => ResumeIsExact
  BY DEF IInv
<1> QED
  BY Inductive, <1>1, PTL

\* A staged or committed image is the whole image that was declared (writeRange).
THEOREM StagedAsDeclared == Spec => []StagedIsDeclared
<1>1. IInv => StagedIsDeclared
  BY DEF IInv
<1> QED
  BY Inductive, <1>1, PTL

\* A loss of power at any moment finds an image to boot (createSession,
\* rejectRunningImageLocked).
THEOREM AlwaysBoots == Spec => []SomethingBoots
<1>1. IInv => SomethingBoots
  BY DEF IInv
<1> QED
  BY Inductive, <1>1, PTL
=============================================================================
