-------------------------- MODULE SettingsStoreProofs --------------------------
(***************************************************************************)
(* That a restart loads the record that was put into NVS last, for any       *)
(* number of edits, networks, revisions and attempts.                        *)
(*                                                                           *)
(* LastPutLoads is not inductive: whether a save wins depends on the slot    *)
(* that its parity leaves alone, and on the revision that RAM knows.  A      *)
(* factory reset writes both slots and tells RAM later, or never, so RAM's   *)
(* revision may be behind flash; NextSaveSafe says what that can cost.       *)
(* Numbers adds how far a reset has come, and that it runs under a lease,    *)
(* which keeps every writer out but a worker that was admitted before.       *)
(***************************************************************************)
EXTENDS SettingsStore, TLAPS

\* The slot the next save leaves alone is older, or holds factory settings.
Other == slots[1 - ((revision + 1) % 2)]
NextSaveSafe == Other.rev <= revision \/ Other.blob = Factory

Numbers ==
    /\ Up => NextSaveSafe
    /\ wipe.step = "second" =>
         /\ wipe.base + 2 <= MaxRevision /\ revision <= wipe.base
         /\ slots[0].rev <= wipe.base /\ slots[1].rev <= wipe.base + 1
    /\ wipe.step = "noting" =>
         /\ revision <= wipe.base
         /\ slots[0].rev <= wipe.base /\ slots[1].rev <= wipe.base
         /\ Up /\ worker = "admitted" => revision < wipe.base
    /\ Up /\ wipe.step # "none" => lease.state = "forwarded" /\ network.state = "idle"

IInv == TypeOK /\ Numbers /\ LastPutLoads

-----------------------------------------------------------------------------
(* The slots. *)

\* loadPersistedSettings yields one of the two slots.
LEMMA LoadedType ==
    ASSUME slots \in [{0, 1} -> Slots]
    PROVE  /\ LoadedSlot \in Slots /\ LoadedSlot.rev \in 0..MaxRevision
           /\ Loaded \in Blobs /\ Loaded.net \in Nets /\ Loaded.cfg \in Cfgs
  BY DEF LoadedSlot, Loaded, Slots, Blobs

\* The factory record is a record like every other.
LEMMA FactoryType ==
    /\ FactoryNet \in Nets /\ Factory \in Blobs /\ 0 \in Cfgs
    /\ Factory.net = FactoryNet /\ Factory.cfg = 0
  BY SettingsAssumption DEF FactoryNet, Factory, Nets, Blobs, Cfgs

\* A put changes one slot; it is loaded when it is newer than the other slot, and
\* otherwise the other slot may be.
LEMMA PutLoads ==
    ASSUME slots \in [{0, 1} -> Slots], NEW s \in {0, 1}, NEW rev \in 0..MaxRevision,
           NEW blob \in Blobs, PutIn(s, rev, blob)
    PROVE  /\ slots' \in [{0, 1} -> Slots]
           /\ slots'[s].rev = rev /\ slots'[s].blob = blob
           /\ slots'[1 - s] = slots[1 - s]
           /\ Loaded' \in {blob, slots[1 - s].blob}
           /\ slots[1 - s].rev < rev => Loaded' = blob
  <1> DEFINE put == [rev |-> rev, blob |-> blob]
  <1>1. put \in Slots /\ put.rev = rev /\ put.blob = blob
    BY DEF Slots
  <1>2. slots' = [slots EXCEPT ![s] = put]
    BY DEF PutIn
  <1> HIDE DEF put
  <1>3. slots' \in [{0, 1} -> Slots] /\ slots'[s] = put /\ slots'[1 - s] = slots[1 - s]
    BY <1>1, <1>2
  <1>4. slots[1 - s].rev \in 0..MaxRevision
    BY DEF Slots
  <1>5. CASE s = 0
    <2>1. slots'[0] = put /\ slots'[1] = slots[1 - s]
      BY <1>3, <1>5
    <2>2. LoadedSlot' \in {put, slots[1 - s]}
      BY <2>1 DEF LoadedSlot
    <2>3. slots[1 - s].rev < rev => LoadedSlot' = put
      BY <1>1, <1>4, <2>1, SettingsAssumption DEF LoadedSlot
    <2> QED BY <1>1, <1>3, <2>2, <2>3 DEF Loaded
  <1>6. CASE s = 1
    <2>1. slots'[1] = put /\ slots'[0] = slots[1 - s]
      BY <1>3, <1>6
    <2>2. LoadedSlot' \in {put, slots[1 - s]}
      BY <2>1 DEF LoadedSlot
    <2>3. slots[1 - s].rev < rev => LoadedSlot' = put
      BY <1>1, <1>4, <2>1, SettingsAssumption DEF LoadedSlot
    <2> QED BY <1>1, <1>3, <2>2, <2>3 DEF Loaded
  <1> QED BY <1>5, <1>6

\* The loaded revision is the greater one.
LEMMA LoadedIsNewest ==
    ASSUME slots \in [{0, 1} -> Slots]
    PROVE  slots[0].rev <= LoadedSlot.rev /\ slots[1].rev <= LoadedSlot.rev
  <1>1. slots[0].rev \in 0..MaxRevision /\ slots[1].rev \in 0..MaxRevision
    BY DEF Slots
  <1> QED BY <1>1, SettingsAssumption DEF LoadedSlot

\* The slots take turns.
LEMMA Parity ==
    ASSUME NEW n \in Nat
    PROVE  n % 2 \in {0, 1} /\ (n + 1) % 2 = 1 - (n % 2) /\ 1 - (1 - (n % 2)) = n % 2
  OBVIOUS

\* The slot that the save after a revision leaves alone
LEMMA OtherIndex ==
    ASSUME NEW rev \in 0..MaxRevision
    PROVE  1 - ((rev + 1) % 2) \in {0, 1}
  BY SettingsAssumption

\* savePersistedSettings: a restart loads the record saved, or, when RAM's revision was
\* behind flash, factory settings; and the next save is as safe.
LEMMA SavedLoads ==
    ASSUME slots \in [{0, 1} -> Slots], revision \in 0..MaxRevision, NextSaveSafe,
           NEW blob \in Blobs, Saved(blob)
    PROVE  /\ slots' \in [{0, 1} -> Slots] /\ revision' \in 0..MaxRevision
           /\ last' \in [blob : Blobs, behind : BOOLEAN]
           /\ LastPutLoads' /\ NextSaveSafe' /\ revision' = revision + 1
           /\ \A i \in {0, 1} : slots'[i].rev \in {revision', slots[i].rev}
  <1> DEFINE rev == revision + 1
  <1> DEFINE s == rev % 2
  <1> DEFINE behind == revision < LoadedSlot.rev
  <1>1. /\ rev \in 0..MaxRevision /\ rev \in Nat /\ PutIn(s, rev, blob) /\ revision' = rev
        /\ last' = [blob |-> blob, behind |-> behind]
    BY SettingsAssumption DEF Saved, Put
  <1>2. s \in {0, 1} /\ (rev + 1) % 2 = 1 - s /\ 1 - (1 - s) = s
    BY <1>1, Parity
  <1>3. slots[1 - s].rev <= revision \/ slots[1 - s].blob = Factory
    BY DEF NextSaveSafe, Other
  <1>4. slots[1 - s].rev \in 0..MaxRevision /\ LoadedSlot.rev \in 0..MaxRevision
        /\ slots[1 - s].rev <= LoadedSlot.rev
    BY <1>2, LoadedType, LoadedIsNewest DEF Slots
  <1>5. slots[1 - s].rev < rev \/ (behind /\ slots[1 - s].blob = Factory)
    BY <1>3, <1>4, SettingsAssumption
  <1>6. revision' = revision + 1 /\ rev <= revision'
    BY <1>1
  <1>b. behind \in BOOLEAN
    OBVIOUS
  <1> HIDE DEF rev, s, behind
  <1>7. /\ slots' \in [{0, 1} -> Slots] /\ slots'[s].rev = rev
        /\ slots'[1 - s] = slots[1 - s] /\ Loaded' \in {blob, slots[1 - s].blob}
        /\ slots[1 - s].rev < rev => Loaded' = blob
    BY <1>1, <1>2, PutLoads
  <1>8. last' \in [blob : Blobs, behind : BOOLEAN] /\ last'.blob = blob
        /\ last'.behind = behind
    BY <1>1, <1>b
  <1>9. LastPutLoads'
    BY <1>5, <1>7, <1>8 DEF LastPutLoads
  <1>10. NextSaveSafe'
    <2>1. Other' = slots'[s]
      BY <1>1, <1>2 DEF Other
    <2> QED BY <2>1, <1>1, <1>6, <1>7 DEF NextSaveSafe
  <1>11. \A i \in {0, 1} : slots'[i].rev \in {revision', slots[i].rev}
    <2>1. CASE s = 0
      BY <1>1, <1>7, <2>1
    <2>2. CASE s = 1
      BY <1>1, <1>7, <2>2
    <2> QED BY <1>2, <2>1, <2>2
  <1> QED BY <1>1, <1>6, <1>7, <1>8, <1>9, <1>10, <1>11

-----------------------------------------------------------------------------
(* The initial state. *)

\* The first boot satisfies the inductive invariant.
LEMMA InitInv == Init => IInv
  <1> SUFFICES ASSUME Init PROVE IInv
    OBVIOUS
  <1> USE SettingsAssumption
  <1>1. slots \in [{0, 1} -> Slots] /\ slots[0].rev = 0 /\ slots[1].rev = 1
        /\ slots[1].blob = Factory
    BY FactoryType DEF Init, Slots
  <1>2. LoadedSlot = slots[1]
    BY <1>1 DEF LoadedSlot
  <1>3. lease \in [state : {"none", "held", "forwarded", "done"},
                   command : Commands \union {"RESTART"}, attempts : 0..MaxAttempts]
    BY DEF Init, NoLease
  <1>4. network \in [state : {"idle", "command", "probation"}, blob : Blobs]
    BY FactoryType DEF Init, NoSave
  <1>5. wipe \in [step : {"none", "first", "second", "noting", "written", "failed"},
                  base : 0..MaxRevision, first : BOOLEAN]
    BY DEF Init, NoWipe
  <1>6. /\ revision \in 0..MaxRevision /\ live \in Cfgs /\ edits \in Cfgs
        /\ request \in Blobs /\ settings \in Nets
    BY FactoryType DEF Init
  <1>12. last \in [blob : Blobs, behind : BOOLEAN] /\ last.blob = Factory
    BY FactoryType DEF Init, Put
  <1>7. /\ pending \in BOOLEAN /\ intent \in BOOLEAN /\ restarting \in BOOLEAN
        /\ erased \in BOOLEAN
    BY DEF Init
  <1>8. /\ worker \in {"idle", "queued", "admitted", "saved", "failed"}
        /\ boot \in {"up", "recovering", "abandoning"}
    BY DEF Init
  <1>9. TypeOK
    BY <1>1, <1>3, <1>4, <1>5, <1>6, <1>7, <1>8, <1>12 DEF TypeOK
  <1>10. Numbers
    <2>1. (revision + 1) % 2 = 0
      BY DEF Init
    <2>2. NextSaveSafe
      BY <1>1, <2>1 DEF NextSaveSafe, Other
    <2> QED BY <2>2 DEF Init, Numbers, NoWipe
  <1>11. LastPutLoads
    BY <1>1, <1>2, <1>12 DEF LastPutLoads, Loaded
  <1> QED BY <1>9, <1>10, <1>11 DEF IInv

-----------------------------------------------------------------------------
(* Steps that leave the slots and the reset alone. *)

\* They may not admit the worker, nor end the lease, while a reset is running.
LEMMA Frame ==
    ASSUME IInv, UNCHANGED <<slots, revision, wipe, boot, last>>,
           worker' = "admitted" => worker = "admitted" \/ lease.state = "none",
           Up /\ wipe.step # "none" => lease'.state = "forwarded" /\ network'.state = "idle"
    PROVE  Numbers' /\ LastPutLoads'
  <1>1. Numbers /\ LastPutLoads
    BY DEF IInv
  <1>2. Up' = Up /\ NextSaveSafe' = NextSaveSafe
    BY DEF Up, NextSaveSafe, Other
  <1>3. LastPutLoads'
    BY <1>1 DEF LastPutLoads, Loaded, LoadedSlot
  <1>4. wipe.step = "noting" /\ Up /\ worker' = "admitted" => revision < wipe.base
    BY <1>1 DEF Numbers
  <1>5. Numbers'
    BY <1>1, <1>2, <1>4 DEF Numbers
  <1> QED BY <1>3, <1>5

\* The control task's and the worker's steps that put nothing.
LEMMA ControlSteps ==
    ASSUME IInv, Edit \/ Dispatch \/ TakeResult \/ Admit \/ WorkerFails
    PROVE  IInv'
  <1>0. Up /\ wipe.step # "none" => lease.state = "forwarded" /\ network.state = "idle"
    BY DEF IInv, Numbers
  <1>1. TypeOK
    BY DEF IInv
  <1>2. CASE Edit
    <2>1. edits' \in Cfgs /\ live' \in Cfgs
      BY <1>1, <1>2, SettingsAssumption DEF TypeOK, Edit, Cfgs
    <2>2. pending' \in BOOLEAN /\ erased' \in BOOLEAN
      BY <1>2 DEF Edit
    <2>3. TypeOK'
      BY <1>1, <1>2, <2>1, <2>2 DEF TypeOK, Edit
    <2> QED BY <2>3, <1>2, <1>0, Frame DEF IInv, Edit
  <1>3. CASE Dispatch
    <2>1. request' \in Blobs
      BY <1>1, <1>3 DEF TypeOK, Dispatch, Blobs
    <2>2. pending' \in BOOLEAN /\ worker' = "queued"
      BY <1>3 DEF Dispatch
    <2>3. UNCHANGED <<slots, revision, live, lease, settings, network, wipe, intent,
                      restarting, boot, edits, last, erased>>
      BY <1>3 DEF Dispatch
    <2>4. TypeOK'
      BY <1>1, <2>1, <2>2, <2>3 DEF TypeOK
    <2> QED BY <2>4, <1>3, <1>0, Frame DEF IInv, Dispatch
  <1>4. CASE TakeResult
    <2>1. pending' \in BOOLEAN
      BY <1>4 DEF TakeResult, PendingAfter
    <2>2. TypeOK'
      BY <1>1, <1>4, <2>1 DEF TypeOK, TakeResult
    <2> QED BY <2>2, <1>4, <1>0, Frame DEF IInv, TakeResult
  <1>5. CASE Admit
    <2>1. TypeOK'
      BY <1>1, <1>5 DEF TypeOK, Admit
    <2> QED BY <2>1, <1>5, <1>0, Frame DEF IInv, Admit
  <1>6. CASE WorkerFails
    <2>1. TypeOK'
      BY <1>1, <1>6 DEF TypeOK, WorkerFails
    <2> QED BY <2>1, <1>6, <1>0, Frame DEF IInv, WorkerFails
  <1> QED BY <1>2, <1>3, <1>4, <1>5, <1>6

Leases == [state : {"none", "held", "forwarded", "done"},
           command : Commands \union {"RESTART"}, attempts : 0..MaxAttempts]

Wipes == [step : {"none", "first", "second", "noting", "written", "failed"},
          base : 0..MaxRevision, first : BOOLEAN]

\* A reset between two of its steps
LEMMA WipeStart ==
    ASSUME NEW s \in {"none", "first", "second", "noting", "written", "failed"}
    PROVE  [NoWipe EXCEPT !.step = s] \in Wipes /\ [NoWipe EXCEPT !.step = s].step = s
  <1>1. NoWipe \in Wipes
    BY SettingsAssumption DEF NoWipe, Wipes
  <1> QED BY <1>1 DEF Wipes

\* A reset whose revision is to be noted
LEMMA NotingType ==
    ASSUME NEW rev \in 0..MaxRevision
    PROVE  /\ [NoWipe EXCEPT !.step = "noting", !.base = rev] \in Wipes
           /\ [NoWipe EXCEPT !.step = "noting", !.base = rev].step = "noting"
           /\ [NoWipe EXCEPT !.step = "noting", !.base = rev].base = rev
  <1>1. NoWipe \in Wipes
    BY SettingsAssumption DEF NoWipe, Wipes
  <1> QED BY <1>1 DEF Wipes

\* The lease's own life.
LEMMA LeaseSteps ==
    ASSUME IInv, BeginLease \/ CancelLease \/ Forward \/ CompleteLease \/ RefuseCommand
    PROVE  IInv'
  <1>1. TypeOK /\ lease \in Leases
    BY DEF IInv, TypeOK, Leases
  <1>2. lease' \in Leases
    <2>1. CASE BeginLease
      <3>1. PICK c \in Commands : lease' = [state |-> "held", command |-> c, attempts |-> 0]
        BY <2>1 DEF BeginLease
      <3> QED BY <3>1, SettingsAssumption DEF Leases
    <2>2. CASE CancelLease \/ CompleteLease
      BY <2>2, SettingsAssumption DEF CancelLease, CompleteLease, NoLease, Leases
    <2>3. CASE Forward
      BY <2>3, <1>1 DEF Forward, Leases
    <2>4. CASE RefuseCommand
      BY <2>4, <1>1 DEF RefuseCommand, Leases
    <2> QED BY <2>1, <2>2, <2>3, <2>4
  <1>3. UNCHANGED <<slots, revision, live, pending, request, worker, settings,
                    network, wipe, intent, restarting, boot, edits, last, erased>>
    BY DEF BeginLease, CancelLease, Forward, CompleteLease, RefuseCommand
  <1>4. TypeOK'
    BY <1>1, <1>2, <1>3 DEF TypeOK, Leases
  <1>5. ~(Up /\ wipe.step # "none")
    <2>1. lease.state # "forwarded" \/ wipe.step = "none"
      BY DEF BeginLease, CancelLease, Forward, CompleteLease, RefuseCommand
    <2> QED BY <2>1 DEF IInv, Numbers
  <1> QED BY <1>3, <1>4, <1>5, Frame DEF IInv

\* A command that fails is tried again or ends its lease.
LEMMA NextAttemptType ==
    ASSUME lease \in Leases, NextAttempt
    PROVE  lease' \in Leases
  BY DEF Leases, NextAttempt

\* The records the network task composes.
LEMMA NewNetworksType ==
    ASSUME settings \in Nets, NEW net \in NewNetworks(settings), net.id <= MaxNetworks
    PROVE  net \in Nets
  BY SettingsAssumption DEF NewNetworks, Nets

\* The network task's steps that put nothing.
LEMMA NetworkSteps ==
    ASSUME IInv, ProcessCommand \/ ProcessReset \/ CommandFails \/ Probation
                 \/ ProbationFails
    PROVE  IInv'
  <1> DEFINE Networks == [state : {"idle", "command", "probation"}, blob : Blobs]
  <1>1. TypeOK /\ lease \in Leases /\ network \in Networks /\ wipe \in Wipes
    BY DEF IInv, TypeOK, Leases, Wipes
  <1>2. NoSave \in Networks /\ live \in Cfgs /\ settings \in Nets
    BY <1>1, FactoryType DEF NoSave, TypeOK
  <1>3. lease.attempts \in 0..MaxAttempts
    BY <1>1 DEF Leases
  <1>0. wipe.step = "none" \/ ~Up
    BY DEF IInv, Numbers, ProcessCommand, ProcessReset, CommandFails, Probation,
           ProbationFails
  <1>4. CASE ProcessCommand
    <2>1. lease' \in Leases
      <3>1. lease.attempts + 1 \in 0..MaxAttempts
        BY <1>3, <1>4, SettingsAssumption DEF ProcessCommand, MayRetry
      <3> QED BY <1>1, <1>4, <3>1 DEF ProcessCommand, Leases
    <2>2. network' \in Networks
      <3>1. PICK net \in IF lease.command = "RESTART" THEN {settings}
                         ELSE NewNetworks(settings) :
               /\ net.id <= MaxNetworks
               /\ network' = [state |-> "command", blob |-> [net |-> net, cfg |-> live]]
        BY <1>4 DEF ProcessCommand
      <3>2. net \in Nets
        BY <1>2, <3>1, NewNetworksType
      <3> QED BY <1>2, <3>1, <3>2 DEF Blobs
    <2>3. TypeOK'
      BY <1>1, <1>4, <2>1, <2>2 DEF TypeOK, ProcessCommand, Leases
    <2> QED BY <2>3, <1>4, <1>0, Frame DEF IInv, ProcessCommand
  <1>5. CASE ProcessReset
    <2>1. lease' \in Leases
      <3>1. lease.attempts + 1 \in 0..MaxAttempts
        BY <1>3, <1>5, SettingsAssumption DEF ProcessReset, MayRetry
      <3> QED BY <1>1, <1>5, <3>1 DEF ProcessReset, Leases
    <2>2. wipe' \in Wipes /\ wipe'.step \in {"first", "failed"}
      <3>1. \/ wipe' = [NoWipe EXCEPT !.step = "first"]
            \/ wipe' = [NoWipe EXCEPT !.step = "failed"]
        BY <1>5 DEF ProcessReset
      <3> QED BY <3>1, WipeStart
    <2>5. intent' \in BOOLEAN
      BY <1>1, <1>5 DEF TypeOK, ProcessReset
    <2>3. TypeOK'
      BY <1>1, <1>5, <2>1, <2>2, <2>5 DEF TypeOK, ProcessReset, Leases, Wipes
    <2>4. Numbers' /\ LastPutLoads'
      <3>1. /\ lease.state = "forwarded" /\ network.state = "idle"
            /\ UNCHANGED <<slots, revision, boot, last, network>>
            /\ lease' = [lease EXCEPT !.attempts = @ + 1]
        BY <1>5 DEF ProcessReset
      <3>2. lease'.state = "forwarded" /\ network'.state = "idle"
        BY <1>1, <3>1 DEF Leases
      <3>3. Up' = Up /\ NextSaveSafe' = NextSaveSafe /\ LastPutLoads'
        BY <3>1 DEF IInv, Up, NextSaveSafe, Other, LastPutLoads, Loaded, LoadedSlot
      <3> QED BY <2>2, <3>2, <3>3 DEF IInv, Numbers
    <2> QED BY <2>3, <2>4 DEF IInv
  <1>6. CASE CommandFails
    <2>1. lease' \in Leases /\ restarting' \in BOOLEAN
      <3>1. CASE lease.command = "RESTART"
        BY <1>1, <1>6, <3>1 DEF CommandFails, Leases
      <3>2. CASE lease.command # "RESTART"
        BY <1>1, <1>6, <3>2, NextAttemptType DEF CommandFails
      <3> QED BY <3>1, <3>2
    <2>2. network' \in Networks
      BY <1>2, <1>6 DEF CommandFails
    <2>3. TypeOK'
      BY <1>1, <1>6, <2>1, <2>2 DEF TypeOK, CommandFails, Leases
    <2> QED BY <2>3, <1>6, <1>0, Frame DEF IInv, CommandFails
  <1>7. CASE Probation
    <2>1. network' \in Networks
      <3>1. PICK id \in {settings.id, settings.lkg} :
               network' = [state |-> "probation",
                   blob |-> [net |-> [id |-> id, sta |-> "CONFIRMED", lkg |-> id],
                             cfg |-> live]]
        BY <1>7 DEF Probation
      <3>2. [id |-> id, sta |-> "CONFIRMED", lkg |-> id] \in Nets
        BY <1>2 DEF Nets
      <3> QED BY <1>2, <3>1, <3>2 DEF Blobs
    <2>2. TypeOK'
      BY <1>1, <1>7, <2>1 DEF TypeOK, Probation
    <2> QED BY <2>2, <1>7, <1>0, Frame DEF IInv, Probation
  <1>8. CASE ProbationFails
    <2>1. network' \in Networks
      BY <1>2, <1>8 DEF ProbationFails
    <2>2. TypeOK'
      BY <1>1, <1>8, <2>1 DEF TypeOK, ProbationFails
    <2> QED BY <2>2, <1>8, <1>0, Frame DEF IInv, ProbationFails
  <1> QED BY <1>4, <1>5, <1>6, <1>7, <1>8

-----------------------------------------------------------------------------
(* The saves. *)

\* The worker, an admin command and the end of a probation save the whole record.
LEMMA SaveSteps ==
    ASSUME IInv, WorkerSaves \/ CommandSaves \/ ProbationSaves
    PROVE  IInv'
  <1>1. TypeOK /\ lease \in Leases
    BY DEF IInv, TypeOK, Leases
  <1>2. request \in Blobs /\ network.blob \in Blobs /\ network.blob.net \in Nets
    BY <1>1 DEF TypeOK, Blobs
  <1>3. PICK blob \in {request, network.blob} : Saved(blob)
    BY DEF WorkerSaves, CommandSaves, ProbationSaves
  <1>4. Up /\ wipe.step # "second" /\ UNCHANGED <<wipe, boot, intent, live, pending, edits>>
    BY DEF WorkerSaves, CommandSaves, ProbationSaves, Unlocked
  <1>5. NextSaveSafe
    BY <1>4 DEF IInv, Numbers
  <1>6. /\ slots' \in [{0, 1} -> Slots] /\ revision' \in 0..MaxRevision
        /\ last' \in [blob : Blobs, behind : BOOLEAN]
        /\ LastPutLoads' /\ NextSaveSafe' /\ revision' = revision + 1
        /\ \A i \in {0, 1} : slots'[i].rev \in {revision', slots[i].rev}
    BY <1>1, <1>2, <1>3, <1>5, SavedLoads DEF TypeOK
  <1>7. Numbers'
    <2>1. CASE wipe.step = "none"
      BY <1>4, <1>6, <2>1 DEF Numbers
    <2>2. CASE wipe.step # "none"
      <3>1. WorkerSaves /\ lease.state = "forwarded" /\ network.state = "idle"
        BY <1>4, <2>2 DEF IInv, Numbers, CommandSaves, ProbationSaves
      <3>2. worker = "admitted" /\ worker' = "saved" /\ UNCHANGED <<lease, network>>
        BY <3>1 DEF WorkerSaves
      <3>3. CASE wipe.step # "noting"
        BY <1>4, <1>6, <3>1, <3>2, <3>3 DEF Numbers
      <3>4. CASE wipe.step = "noting"
        <4>1. /\ revision < wipe.base
              /\ slots[0].rev <= wipe.base /\ slots[1].rev <= wipe.base
          BY <1>4, <3>2, <3>4 DEF IInv, Numbers
        <4>2. revision \in 0..MaxRevision /\ wipe.base \in 0..MaxRevision
          BY <1>1 DEF TypeOK
        <4>3. /\ revision' <= wipe.base
              /\ slots'[0].rev <= wipe.base /\ slots'[1].rev <= wipe.base
          BY <1>6, <4>1, <4>2, SettingsAssumption
        <4> QED BY <1>4, <1>6, <3>1, <3>2, <3>4, <4>3 DEF Numbers
      <3> QED BY <3>3, <3>4
    <2> QED BY <2>1, <2>2
  <1>8. NoSave \in [state : {"idle", "command", "probation"}, blob : Blobs]
    BY FactoryType DEF NoSave
  <1>9. TypeOK'
    <2>1. CASE WorkerSaves
      BY <1>1, <1>2, <1>6, <2>1 DEF TypeOK, WorkerSaves
    <2>2. CASE CommandSaves
      <3>1. lease' \in Leases
        BY <1>1, <2>2 DEF CommandSaves, Leases
      <3>2. restarting' \in BOOLEAN /\ erased' \in BOOLEAN
        BY <2>2 DEF CommandSaves
      <3> QED BY <1>1, <1>2, <1>6, <1>8, <2>2, <3>1, <3>2
             DEF TypeOK, CommandSaves, Leases
    <2>3. CASE ProbationSaves
      <3>1. erased' \in BOOLEAN
        BY <2>3 DEF ProbationSaves
      <3> QED BY <1>1, <1>2, <1>6, <1>8, <2>3, <3>1 DEF TypeOK, ProbationSaves
    <2> QED BY <2>1, <2>2, <2>3
  <1> QED BY <1>6, <1>7, <1>9 DEF IInv

-----------------------------------------------------------------------------
(* The two puts of a factory reset. *)

\* Records of the factory settings that are put
LEMMA FactoryPut ==
    /\ Put(Factory, FALSE) \in [blob : Blobs, behind : BOOLEAN]
    /\ Put(Factory, FALSE).blob = Factory
  BY FactoryType DEF Put

\* The first put of a reset is newer than both slots and goes to slot A.
LEMMA WipeFirstStep ==
    ASSUME IInv, WipeFirst
    PROVE  IInv'
  <1> DEFINE base == Base
  <1>1. TypeOK /\ wipe \in Wipes /\ wipe.step = "first" /\ base + 2 <= MaxRevision
    BY DEF IInv, TypeOK, Wipes, WipeFirst
  <1>2. /\ LoadedSlot.rev \in 0..MaxRevision /\ revision \in 0..MaxRevision
        /\ slots[0].rev \in 0..MaxRevision /\ slots[1].rev \in 0..MaxRevision
        /\ slots[0].rev <= LoadedSlot.rev /\ slots[1].rev <= LoadedSlot.rev
    BY <1>1, LoadedType, LoadedIsNewest DEF TypeOK, Slots
  <1>3. /\ base \in 0..MaxRevision /\ revision <= base
        /\ slots[0].rev <= base /\ slots[1].rev <= base
    BY <1>2, SettingsAssumption DEF Base
  <1>4. UNCHANGED <<revision, ramVars, intent, boot, edits, erased>>
    BY DEF WipeFirst
  <1>5. \/ /\ wipe' = [step |-> "second", base |-> base, first |-> TRUE]
           /\ PutIn(1, base + 1, Factory) /\ last' = Put(Factory, FALSE)
        \/ /\ \/ wipe' = [step |-> "second", base |-> base, first |-> FALSE]
              \/ wipe' = [NoWipe EXCEPT !.step = "failed"]
           /\ UNCHANGED <<slots, last>>
    BY DEF WipeFirst
  <1>6. Up' = Up /\ UNCHANGED <<lease, network, worker>>
    BY <1>4 DEF Up, ramVars
  <1>7. Up => NextSaveSafe /\ lease'.state = "forwarded" /\ network'.state = "idle"
    BY <1>1, <1>6 DEF IInv, Numbers
  <1> HIDE DEF base
  <1>8. /\ wipe' \in Wipes /\ wipe'.step \in {"second", "failed"}
        /\ wipe'.step = "second" => wipe'.base = base
    <2>1. CASE wipe' = [step |-> "second", base |-> base, first |-> TRUE]
      <3>1. TRUE \in BOOLEAN
        OBVIOUS
      <3> QED BY <1>3, <2>1, <3>1 DEF Wipes
    <2>2. CASE wipe' = [step |-> "second", base |-> base, first |-> FALSE]
      <3>1. FALSE \in BOOLEAN
        OBVIOUS
      <3> QED BY <1>3, <2>2, <3>1 DEF Wipes
    <2>3. CASE wipe' = [NoWipe EXCEPT !.step = "failed"]
      BY <2>3, WipeStart
    <2> QED BY <1>5, <2>1, <2>2, <2>3
  <1>9. /\ slots' \in [{0, 1} -> Slots] /\ last' \in [blob : Blobs, behind : BOOLEAN]
        /\ LastPutLoads' /\ (NextSaveSafe => NextSaveSafe')
        /\ slots'[0].rev <= base /\ slots'[1].rev <= base + 1
    <2>1. CASE PutIn(1, base + 1, Factory) /\ last' = Put(Factory, FALSE)
      <3>1. base + 1 \in 0..MaxRevision /\ slots[1 - 1].rev < base + 1
        BY <1>1, <1>2, <1>3, SettingsAssumption
      <3>2. /\ slots' \in [{0, 1} -> Slots] /\ slots'[1].rev = base + 1
            /\ slots'[1].blob = Factory /\ slots'[1 - 1] = slots[1 - 1] /\ Loaded' = Factory
        BY <1>1, <2>1, <3>1, FactoryType, PutLoads DEF TypeOK
      <3>3. slots'[0] = slots[0] /\ base + 1 <= base + 1
        BY <1>3, <3>2
      <3>4. NextSaveSafe => NextSaveSafe'
        <4>1. revision' = revision /\ 1 - ((revision + 1) % 2) \in {0, 1}
          BY <1>2, <1>4, Parity
        <4> QED BY <3>2, <3>3, <4>1 DEF NextSaveSafe, Other
      <3> QED BY <1>3, <2>1, <3>2, <3>3, <3>4, FactoryPut DEF LastPutLoads
    <2>2. CASE UNCHANGED <<slots, last>>
      <3>1. slots'[1].rev <= base + 1
        BY <1>2, <1>3, <2>2, SettingsAssumption
      <3>2. LastPutLoads' /\ (NextSaveSafe => NextSaveSafe')
        BY <1>4, <2>2 DEF IInv, LastPutLoads, Loaded, LoadedSlot, NextSaveSafe, Other
      <3> QED BY <1>1, <1>3, <2>2, <3>1, <3>2 DEF TypeOK
    <2> QED BY <1>5, <2>1, <2>2
  <1>10. TypeOK'
    BY <1>1, <1>4, <1>8, <1>9 DEF TypeOK, Wipes, ramVars
  <1>11. revision' <= base
    BY <1>3, <1>4
  <1>12. Numbers'
    BY <1>1, <1>6, <1>7, <1>8, <1>9, <1>11 DEF Numbers
  <1> QED BY <1>9, <1>10, <1>12 DEF IInv

\* The second put is newer still and goes to slot B; one of the two is enough.
LEMMA WipeSecondStep ==
    ASSUME IInv, WipeSecond
    PROVE  IInv'
  <1> DEFINE base == wipe.base
  <1>1. TypeOK /\ wipe \in Wipes /\ wipe.step = "second"
    BY DEF IInv, TypeOK, Wipes, WipeSecond
  <1>2. /\ base \in 0..MaxRevision /\ base + 2 <= MaxRevision /\ revision <= base
        /\ slots[0].rev <= base /\ slots[1].rev <= base + 1
    BY <1>1 DEF IInv, Numbers, Wipes
  <1>3. /\ slots[0].rev \in 0..MaxRevision /\ slots[1].rev \in 0..MaxRevision
        /\ revision \in 0..MaxRevision
    BY <1>1 DEF TypeOK, Slots
  <1>4. UNCHANGED <<revision, ramVars, intent, boot, edits, erased>>
    BY DEF WipeSecond
  <1>5. \/ /\ PutIn(0, base + 2, Factory) /\ last' = Put(Factory, FALSE)
           /\ wipe' = [NoWipe EXCEPT !.step = "noting", !.base = base + 2]
        \/ /\ UNCHANGED <<slots, last>>
           /\ \/ wipe' = [NoWipe EXCEPT !.step = "noting", !.base = base + 1]
              \/ wipe' = [NoWipe EXCEPT !.step = "failed"]
    BY DEF WipeSecond
  <1>6. Up' = Up /\ UNCHANGED <<lease, network, worker>>
    BY <1>4 DEF Up, ramVars
  <1>7. Up => NextSaveSafe /\ lease'.state = "forwarded" /\ network'.state = "idle"
    BY <1>1, <1>6 DEF IInv, Numbers
  <1> HIDE DEF base
  <1>8. ASSUME PutIn(0, base + 2, Factory), last' = Put(Factory, FALSE),
               wipe' = [NoWipe EXCEPT !.step = "noting", !.base = base + 2]
        PROVE  IInv'
    <2>1. base + 2 \in 0..MaxRevision /\ slots[1 - 0].rev < base + 2
      BY <1>2, <1>3, SettingsAssumption
    <2>2. /\ slots' \in [{0, 1} -> Slots] /\ slots'[0].rev = base + 2
          /\ slots'[0].blob = Factory /\ slots'[1 - 0] = slots[1 - 0] /\ Loaded' = Factory
      BY <1>1, <1>8, <2>1, FactoryType, PutLoads DEF TypeOK
    <2>3. wipe' \in Wipes /\ wipe'.step = "noting" /\ wipe'.base = base + 2
      BY <1>8, <2>1, NotingType
    <2>4. slots'[1] = slots[1]
      BY <2>2
    <2>5. /\ slots'[0].rev <= base + 2 /\ slots'[1].rev <= base + 2
          /\ revision' <= base + 2 /\ revision' < base + 2
      BY <1>2, <1>3, <1>4, <2>2, <2>4, SettingsAssumption
    <2>9. last' \in [blob : Blobs, behind : BOOLEAN] /\ last'.blob = Factory
      BY <1>8, FactoryPut
    <2>10. TypeOK'
      BY <1>1, <1>4, <2>2, <2>3, <2>9 DEF TypeOK, Wipes, ramVars
    <2>6. TypeOK' /\ LastPutLoads'
      BY <2>2, <2>9, <2>10 DEF LastPutLoads
    <2>7. NextSaveSafe => NextSaveSafe'
      <3>1. revision' = revision /\ 1 - ((revision + 1) % 2) \in {0, 1}
        BY <1>3, <1>4, Parity
      <3> QED BY <2>2, <2>4, <3>1 DEF NextSaveSafe, Other
    <2>8. Numbers'
      BY <1>6, <1>7, <2>3, <2>5, <2>7 DEF Numbers
    <2> QED BY <2>6, <2>8 DEF IInv
  <1>9. ASSUME UNCHANGED <<slots, last>>,
               \/ wipe' = [NoWipe EXCEPT !.step = "noting", !.base = base + 1]
               \/ wipe' = [NoWipe EXCEPT !.step = "failed"]
        PROVE  IInv'
    <2>1. base + 1 \in 0..MaxRevision
      BY <1>2, SettingsAssumption
    <2>2. /\ wipe' \in Wipes /\ wipe'.step \in {"noting", "failed"}
          /\ wipe'.step = "noting" => wipe'.base = base + 1
      <3>1. CASE wipe' = [NoWipe EXCEPT !.step = "noting", !.base = base + 1]
        BY <2>1, <3>1, NotingType
      <3>2. CASE wipe' = [NoWipe EXCEPT !.step = "failed"]
        BY <3>2, WipeStart
      <3> QED BY <1>9, <3>1, <3>2
    <2>3. /\ slots'[0].rev <= base + 1 /\ slots'[1].rev <= base + 1
          /\ revision' <= base + 1 /\ revision' < base + 1
      BY <1>2, <1>3, <1>4, <1>9, SettingsAssumption
    <2>4. TypeOK'
      BY <1>1, <1>4, <1>9, <2>2 DEF TypeOK, Wipes, ramVars
    <2>5. LastPutLoads' /\ (NextSaveSafe => NextSaveSafe')
      BY <1>4, <1>9 DEF IInv, LastPutLoads, Loaded, LoadedSlot, NextSaveSafe, Other
    <2>6. Numbers'
      BY <1>6, <1>7, <2>2, <2>3, <2>5 DEF Numbers
    <2> QED BY <2>4, <2>5, <2>6 DEF IInv
  <1> QED BY <1>5, <1>8, <1>9

\* RAM learns the revision of the reset, or does not.
LEMMA NoteStep ==
    ASSUME IInv, NoteRevision
    PROVE  IInv'
  <1>1. TypeOK /\ wipe \in Wipes /\ wipe.step = "noting"
    BY DEF IInv, TypeOK, Wipes, NoteRevision
  <1>2. UNCHANGED <<slots, ramVars, intent, boot, edits, last, erased>>
        /\ revision' \in {wipe.base, revision}
    BY DEF NoteRevision
  <1>3. wipe' \in Wipes /\ wipe'.step = "written"
    BY WipeStart DEF NoteRevision
  <1>4. revision' \in 0..MaxRevision
    BY <1>1, <1>2 DEF TypeOK, Wipes
  <1>5. TypeOK'
    BY <1>1, <1>2, <1>3, <1>4 DEF TypeOK, Wipes, ramVars
  <1>6. LastPutLoads'
    BY <1>2 DEF IInv, LastPutLoads, Loaded, LoadedSlot
  <1>7. Up => NextSaveSafe'
    <2>1. CASE revision' = wipe.base
      <3>1. 1 - ((revision' + 1) % 2) \in {0, 1}
        BY <1>4, OtherIndex
      <3>2. slots'[0].rev <= revision' /\ slots'[1].rev <= revision'
        BY <1>1, <1>2, <2>1 DEF IInv, Numbers
      <3> QED BY <3>1, <3>2 DEF NextSaveSafe, Other
    <2>2. CASE revision' = revision
      BY <1>2, <2>2 DEF IInv, Numbers, NextSaveSafe, Other
    <2> QED BY <1>2, <2>1, <2>2
  <1>8. Up' = Up /\ (Up => lease'.state = "forwarded" /\ network'.state = "idle")
    BY <1>1, <1>2 DEF IInv, Numbers, Up, ramVars
  <1>9. Numbers'
    BY <1>3, <1>7, <1>8 DEF Numbers
  <1> QED BY <1>5, <1>6, <1>9 DEF IInv

-----------------------------------------------------------------------------
(* The end of a reset, and restarts. *)

\* A reset that has ended, well or not
LEMMA ResetEnds ==
    ASSUME IInv, ResetSucceeds \/ ResetFails
    PROVE  IInv'
  <1>1. TypeOK /\ lease \in Leases
    BY DEF IInv, TypeOK, Leases
  <1>2. wipe' = NoWipe /\ wipe' \in Wipes /\ wipe'.step = "none"
    <2>1. wipe' = NoWipe
      BY DEF ResetSucceeds, ResetFails
    <2> QED BY <2>1, SettingsAssumption DEF NoWipe, Wipes
  <1>3. UNCHANGED <<slots, revision, live, pending, request, worker, network, boot,
                    edits, last>>
    BY DEF ResetSucceeds, ResetFails
  <1>4. lease' \in Leases
    <2>1. CASE ResetSucceeds
      BY <1>1, <2>1 DEF ResetSucceeds, Leases
    <2>2. CASE ResetFails
      BY <1>1, <2>2, NextAttemptType DEF ResetFails
    <2> QED BY <2>1, <2>2
  <1>5. settings' \in Nets
    BY <1>1, FactoryType DEF TypeOK, ResetSucceeds, ResetFails
  <1>6. intent' \in BOOLEAN /\ restarting' \in BOOLEAN /\ erased' \in BOOLEAN
    <2>1. CASE ResetSucceeds
      BY <1>1, <2>1 DEF TypeOK, ResetSucceeds
    <2>2. CASE ResetFails
      BY <1>1, <2>2 DEF TypeOK, ResetFails
    <2> QED BY <2>1, <2>2
  <1>7. TypeOK'
    BY <1>1, <1>2, <1>3, <1>4, <1>5, <1>6 DEF TypeOK, Leases, Wipes
  <1>8. Up' = Up /\ NextSaveSafe' = NextSaveSafe /\ LastPutLoads'
    BY <1>3 DEF IInv, Up, NextSaveSafe, Other, LastPutLoads, Loaded, LoadedSlot
  <1>9. Numbers'
    BY <1>2, <1>8 DEF IInv, Numbers
  <1> QED BY <1>7, <1>8, <1>9 DEF IInv

\* setup() takes the revision of the record it loads.
LEMMA ComesUpInv ==
    ASSUME IInv, ComesUp, wipe' = NoWipe, UNCHANGED <<slots, edits, last>>,
           intent' \in BOOLEAN, erased' \in BOOLEAN
    PROVE  IInv'
  <1>1. TypeOK /\ LastPutLoads
    BY DEF IInv
  <1>2. wipe' \in Wipes /\ wipe'.step = "none"
    BY SettingsAssumption DEF NoWipe, Wipes
  <1>3. lease' \in Leases
    BY SettingsAssumption DEF ComesUp, NoLease, Leases
  <1>4. network' \in [state : {"idle", "command", "probation"}, blob : Blobs]
    BY FactoryType DEF ComesUp, NoSave
  <1>5. /\ revision' \in 0..MaxRevision /\ live' \in Cfgs /\ settings' \in Nets
        /\ request' \in Blobs
    BY <1>1, LoadedType, FactoryType DEF TypeOK, ComesUp
  <1>6. pending' \in BOOLEAN /\ restarting' \in BOOLEAN
    BY DEF ComesUp
  <1>7. TypeOK'
    BY <1>1, <1>2, <1>3, <1>4, <1>5, <1>6 DEF TypeOK, ComesUp, Leases, Wipes
  <1>8. LoadedSlot' = LoadedSlot /\ LastPutLoads'
    BY <1>1 DEF LoadedSlot, Loaded, LastPutLoads
  <1>9. NextSaveSafe'
    <2>1. slots[0].rev <= LoadedSlot.rev /\ slots[1].rev <= LoadedSlot.rev
      BY <1>1, LoadedIsNewest DEF TypeOK
    <2>2. revision' = LoadedSlot.rev /\ slots' = slots
      BY DEF ComesUp
    <2>3. 1 - ((revision' + 1) % 2) \in {0, 1}
      BY <1>5, OtherIndex
    <2> QED BY <2>1, <2>2, <2>3 DEF NextSaveSafe, Other
  <1>10. Numbers'
    BY <1>2, <1>9 DEF Numbers
  <1> QED BY <1>7, <1>8, <1>10 DEF IInv

\* A restart, with or without a reset to resume.
LEMMA RestartStep ==
    ASSUME IInv, Restart
    PROVE  IInv'
  <1>1. TypeOK /\ LastPutLoads
    BY DEF IInv
  <1>2. CASE ~intent
    <2>1. intent' \in BOOLEAN /\ erased' \in BOOLEAN
      BY <1>1 DEF TypeOK, Restart
    <2> QED BY <1>2, <2>1, ComesUpInv DEF Restart
  <1>3. CASE intent
    <2>1. wipe' \in Wipes /\ wipe'.step \in {"first", "failed"}
      <3>1. \/ wipe' = [NoWipe EXCEPT !.step = "first"]
            \/ wipe' = [NoWipe EXCEPT !.step = "failed"]
        BY <1>3 DEF Restart
      <3> QED BY <3>1, WipeStart
    <2>2. boot' = "recovering" /\ revision' = 0
          /\ UNCHANGED <<slots, ramVars, intent, edits, last, erased>>
      BY <1>3 DEF Restart
    <2>3. TypeOK'
      BY <1>1, <2>1, <2>2, SettingsAssumption DEF TypeOK, Wipes, ramVars
    <2>4. LastPutLoads'
      BY <1>1, <2>2 DEF LoadedSlot, Loaded, LastPutLoads
    <2>5. Numbers'
      BY <2>1, <2>2 DEF Numbers, Up
    <2> QED BY <2>3, <2>4, <2>5 DEF IInv
  <1> QED BY <1>2, <1>3

\* completeBootRecovery
LEMMA BootSteps ==
    ASSUME IInv, BootAbandons \/ BootCompletes
    PROVE  IInv'
  <1>1. TypeOK /\ LastPutLoads
    BY DEF IInv
  <1>2. CASE BootAbandons
    <2>1. wipe' \in Wipes /\ wipe'.step = "first"
      BY <1>2, WipeStart DEF BootAbandons
    <2>2. boot' = "abandoning"
          /\ UNCHANGED <<slots, revision, ramVars, intent, edits, last, erased>>
      BY <1>2 DEF BootAbandons
    <2>3. TypeOK'
      BY <1>1, <2>1, <2>2 DEF TypeOK, Wipes, ramVars
    <2>4. LastPutLoads'
      BY <1>1, <2>2 DEF LoadedSlot, Loaded, LastPutLoads
    <2>5. Numbers'
      BY <2>1, <2>2 DEF Numbers, Up
    <2> QED BY <2>3, <2>4, <2>5 DEF IInv
  <1>3. CASE BootCompletes
    <2>1. intent' \in BOOLEAN /\ erased' \in BOOLEAN
      BY <1>3 DEF BootCompletes
    <2> QED BY <1>3, <2>1, ComesUpInv DEF BootCompletes
  <1> QED BY <1>2, <1>3

-----------------------------------------------------------------------------
(* The theorems. *)

\* The invariant is inductive.
LEMMA InvStep == IInv /\ [Next]_vars => IInv'
  <1> SUFFICES ASSUME IInv, [Next]_vars PROVE IInv'
    OBVIOUS
  <1>1. CASE UNCHANGED vars
    BY <1>1 DEF IInv, TypeOK, Numbers, NextSaveSafe, Other, LastPutLoads, Loaded, LoadedSlot,
               Up, vars, ramVars
  <1>2. CASE Next
    BY <1>2, ControlSteps, LeaseSteps, NetworkSteps, SaveSteps, WipeFirstStep,
       WipeSecondStep, NoteStep, ResetEnds, RestartStep, BootSteps DEF Next
  <1> QED BY <1>1, <1>2

\* The inductive invariant holds in every reachable state.
THEOREM SettingsInvariant == Spec => []IInv
  BY InitInv, InvStep, PTL DEF Spec

\* The slots, the mailbox, the lease and the reset keep their types.
THEOREM SettingsTypeCorrect == Spec => []TypeOK
  <1>1. IInv => TypeOK
    BY DEF IInv
  <1> QED BY <1>1, SettingsInvariant, PTL

\* Whichever writer saved last, whatever failed and wherever the power was lost,
\* also between the two puts of a factory reset: a restart loads the record that
\* savePersistedSettings or resetPersistedSettingsToFactory put last.
THEOREM LastPutIsLoaded == Spec => []LastPutLoads
  <1>1. IInv => LastPutLoads
    BY DEF IInv
  <1> QED BY <1>1, SettingsInvariant, PTL

\* Whoever saves next, its record becomes the one a restart loads, or loses to factory
\* settings that a reset wrote and RAM was not told of: to nothing else, ever.
THEOREM NextSaveIsSafe == Spec => [](Up => NextSaveSafe)
  <1>1. IInv => (Up => NextSaveSafe)
    BY DEF IInv, Numbers
  <1> QED BY <1>1, SettingsInvariant, PTL

===============================================================================
