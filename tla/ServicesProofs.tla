---------------------------- MODULE ServicesProofs ----------------------------
(* Theorems about the services around the shot, for every value of their constants. *)
(* A section proves one of them from an inductive invariant of its own:             *)
(*                                                                                 *)
(*   - the login of the Web UI: what is not marked for saving is saved;             *)
(*   - the webhook: an event goes to the receiver it was posted for, and a state is   *)
(*     given up only while a newer one waits;                                       *)
(*   - Wi-Fi: only a configuration that was joined is confirmed;                    *)
(*   - the momentary machine: the code's own stop presses only a group that was     *)
(*     seen to run, and its contact is closed for a reason;                         *)
(*   - the idle tare: its slot has an owner, no shot finds it writing, and the      *)
(*     reference of the cup is the one of the scale.                                *)
(*                                                                                 *)
(* Where a state is one large record, an invariant types the fields it speaks of    *)
(* and no others, and the operators on the record are related to it by a step       *)
(* relation that composes (Marks, Follows, Cuts, ComesFrom ...).                    *)
EXTENDS WebAccess, Webhook, WifiSetup, Momentary, IdleTare, SequenceTheorems,
        FiniteSetTheorems, TLAPS

-----------------------------------------------------------------------------
(* The login of the Web UI. *)

Sessions == [tok : Nat, used : Nat]
AccessRecords == [enabled : BOOLEAN, ha : Nat, remembered : [1..Slots -> Sessions]]
Logins == [stored : AccessRecords, tab : [tok : Nat, live : BOOLEAN, lapsed : BOOLEAN],
           pairing : [state : {"none", "pending", "approved", "denied", "expired"}, id : Nat],
           dirty : BOOLEAN, issued : Nat]
Writers == [pc : {"idle", "write", "failed"}, image : AccessRecords, flash : AccessRecords,
            factory : BOOLEAN, restarts : Nat, failures : Nat]

WebAccessTypeOK ==
  /\ login \in Logins /\ writer \in Writers /\ browsers \in [Devices -> Nat]
  /\ assistant \in [asked : Nat, shown : Nat, pairs : Nat] /\ day \in Nat

\* What the operators on the login may do: a record that changes is marked.
Marks(l, n) == n \in Logins /\ (n.dirty \/ (n.stored = l.stored /\ n.dirty = l.dirty))

\* recordChanged marks the login for the next save.
LEMMA RecordedMarks ==
  ASSUME NEW l \in Logins, NEW r \in AccessRecords
  PROVE  Recorded(l, r) \in Logins /\ Recorded(l, r).dirty = TRUE
         /\ Recorded(l, r).issued = l.issued /\ Recorded(l, r).pairing = l.pairing
  BY DEF Recorded, Logins

\* What the handlers write into the record is a record.
LEMMA RecordTypes ==
  ASSUME NEW r \in AccessRecords, NEW s, NEW e \in Sessions, NEW n \in Nat, NEW b \in BOOLEAN
  PROVE  /\ [r EXCEPT !.remembered[s] = e] \in AccessRecords
         /\ [r EXCEPT !.ha = n] \in AccessRecords
         /\ [r EXCEPT !.enabled = b] \in AccessRecords
  <1>1. [r EXCEPT !.remembered[s] = e] \in AccessRecords
    <2>1. [r.remembered EXCEPT ![s] = e] \in [1..Slots -> Sessions]
      BY DEF AccessRecords
    <2> QED
      BY <2>1 DEF AccessRecords
  <1>2. [r EXCEPT !.ha = n] \in AccessRecords
    BY DEF AccessRecords
  <1>3. [r EXCEPT !.enabled = b] \in AccessRecords
    BY DEF AccessRecords
  <1> QED
    BY <1>1, <1>2, <1>3

\* A session that is issued is marked for saving when it is remembered.
LEMMA IssueMarks ==
  ASSUME NEW l \in Logins, NEW tok \in Nat, NEW remember, day \in Nat
  PROVE  Marks(l, Issue(l, tok, remember)) /\ Issue(l, tok, remember).pairing = l.pairing
  <1> DEFINE n == [l EXCEPT !.issued = tok]
  <1>1. n \in Logins /\ n.stored = l.stored /\ n.dirty = l.dirty /\ n.pairing = l.pairing
        /\ n.stored \in AccessRecords
    BY DEF Logins
  <1> HIDE DEF n
  <1>2. CASE remember
    <2>1. [tok |-> tok, used |-> day] \in Sessions
      BY DEF Sessions
    <2> DEFINE r == [n.stored EXCEPT !.remembered[Target(n.stored)] = [tok |-> tok, used |-> day]]
    <2>2. r \in AccessRecords
      BY <1>1, <2>1, RecordTypes, 0 \in Nat
    <2>3. Issue(l, tok, remember) = Recorded(n, r)
      BY <1>2 DEF Issue, IssueRemembered, n
    <2> HIDE DEF r
    <2>4. Recorded(n, r) \in Logins /\ Recorded(n, r).dirty = TRUE /\ Recorded(n, r).pairing = n.pairing
      BY <1>1, <2>2, RecordedMarks
    <2> QED
      BY <1>1, <2>3, <2>4 DEF Marks
  <1>3. CASE ~remember
    <2>1. Issue(l, tok, remember) = [n EXCEPT !.tab = [tok |-> tok, live |-> TRUE, lapsed |-> FALSE]]
      BY <1>3 DEF Issue, n
    <2>2. Issue(l, tok, remember) \in Logins
      <3>1. [tok |-> tok, live |-> TRUE, lapsed |-> FALSE] \in [tok : Nat, live : BOOLEAN, lapsed : BOOLEAN]
        OBVIOUS
      <3> QED
        BY <1>1, <2>1, <3>1 DEF Logins
    <2>3. /\ Issue(l, tok, remember).stored = n.stored /\ Issue(l, tok, remember).dirty = n.dirty
          /\ Issue(l, tok, remember).pairing = n.pairing
      BY <1>1, <2>1 DEF Logins
    <2> QED
      BY <1>1, <2>2, <2>3 DEF Marks
  <1> QED
    BY <1>2, <1>3

\* Signing one browser or all of them out is marked for saving.
LEMMA RevokeMarks ==
  ASSUME NEW l \in Logins, NEW out
  PROVE  Marks(l, Revoke(l, out)) /\ Revoke(l, out).pairing = l.pairing
         /\ Revoke(l, out).issued = l.issued
  <1> DEFINE gone == {s \in 1..Slots : l.stored.remembered[s].tok \in out}
             kept == [s \in 1..Slots |-> IF s \in gone THEN Empty ELSE l.stored.remembered[s]]
             r == [l.stored EXCEPT !.remembered = kept]
             t == IF l.tab.live /\ l.tab.tok \in out THEN NoTab ELSE l.tab
             n == Revoke(l, out)
  <1>1. kept \in [1..Slots -> Sessions] /\ (gone = {} => kept = l.stored.remembered)
    BY DEF Logins, AccessRecords, Empty, Sessions
  <1>2. r \in AccessRecords /\ (gone = {} => r = l.stored)
    BY <1>1 DEF Logins, AccessRecords
  <1>3. t \in [tok : Nat, live : BOOLEAN, lapsed : BOOLEAN]
    BY DEF NoTab, Logins
  <1>4. n = [l EXCEPT !.tab = t, !.stored = r, !.dirty = @ \/ gone # {}]
    BY DEF Revoke, Logins
  <1>5. (l.dirty \/ gone # {}) \in BOOLEAN
    BY DEF Logins
  <1> HIDE DEF gone, kept, r, t, n
  <1>6. /\ n.stored = r /\ n.dirty = (l.dirty \/ gone # {}) /\ n.pairing = l.pairing
        /\ n.issued = l.issued
    BY <1>4 DEF Logins
  <1>7. n \in Logins
    BY <1>2, <1>3, <1>4, <1>5 DEF Logins
  <1>8. gone = {} => n.dirty = l.dirty
    BY <1>6 DEF Logins
  <1> QED
    BY <1>2, <1>6, <1>7, <1>8 DEF Marks, n

\* Switching the login off is marked for saving.
LEMMA SwitchOffMarks ==
  ASSUME NEW l \in Logins
  PROVE  Marks(l, SwitchOff(l)) /\ SwitchOff(l).pairing = NoPairing
  <1> DEFINE a == RevokeOthers(l, 0)
             b == ForgetAssistant(a)
             f == [b EXCEPT !.pairing = NoPairing]
  <1>1. Marks(l, a)
    BY RevokeMarks DEF RevokeOthers
  <1>2. a \in Logins /\ a.stored \in AccessRecords
    BY <1>1 DEF Marks, Logins
  <1> HIDE DEF a
  <1>3. [a.stored EXCEPT !.ha = 0] \in AccessRecords
    BY <1>2, RecordTypes, [tok |-> 0, used |-> 0] \in Sessions, TRUE \in BOOLEAN DEF Sessions
  <1>4. Marks(a, b)
    BY <1>2, <1>3, RecordedMarks DEF ForgetAssistant, Marks
  <1>5. b \in Logins /\ (b.dirty \/ (b.stored = l.stored /\ b.dirty = l.dirty))
    BY <1>1, <1>4 DEF Marks
  <1> HIDE DEF b
  <1>6. f \in Logins /\ f.stored = b.stored /\ f.dirty = b.dirty /\ f.pairing = NoPairing
        /\ f.stored \in AccessRecords
    BY <1>5 DEF Logins, NoPairing
  <1>7. [f.stored EXCEPT !.enabled = FALSE] \in AccessRecords
    BY <1>6, RecordTypes, [tok |-> 0, used |-> 0] \in Sessions DEF Sessions
  <1>8. SwitchOff(l) = IF f.stored.enabled THEN Recorded(f, [f.stored EXCEPT !.enabled = FALSE]) ELSE f
    BY DEF SwitchOff, a, b
  <1> HIDE DEF f
  <1>9. CASE f.stored.enabled
    <2> DEFINE g == [f.stored EXCEPT !.enabled = FALSE]
    <2>1. g \in AccessRecords
      BY <1>7
    <2> HIDE DEF g
    <2>2. Recorded(f, g) \in Logins /\ Recorded(f, g).dirty = TRUE /\ Recorded(f, g).pairing = f.pairing
      BY <1>6, <2>1, RecordedMarks
    <2>3. SwitchOff(l) = Recorded(f, g)
      BY <1>8, <1>9 DEF g
    <2> QED
      BY <1>6, <2>2, <2>3 DEF Marks
  <1>10. CASE ~f.stored.enabled
    BY <1>5, <1>6, <1>8, <1>10 DEF Marks
  <1> QED
    BY <1>9, <1>10

\* What a step of the handlers, the timers and the network task does to the login,
\* while the writer's task and the record in flash stay as they are.
LEMMA AccessStep ==
  ASSUME WebAccessTypeOK, UnmarkedIsSaved, Marks(login, login'), writer' = writer
  PROVE  UnmarkedIsSaved'
  BY DEF WebAccessTypeOK, UnmarkedIsSaved, Marks, Writers, Logins

\* A factory reset of the writer's task keeps its type.
LEMMA TypesOfWriters ==
  ASSUME NEW n \in Writers
  PROVE  [n EXCEPT !.factory = FALSE] \in Writers /\ [n EXCEPT !.factory = TRUE] \in Writers
  BY DEF Writers

\* Each step keeps the types and saves or marks what it changes.
LEMMA WebAccessInductive ==
  ASSUME WebAccessTypeOK, UnmarkedIsSaved, [WebAccessNext]_webAccessVars
  PROVE  WebAccessTypeOK' /\ UnmarkedIsSaved'
  <1> DEFINE Assistants == [asked : Nat, shown : Nat, pairs : Nat]
             Handler == Marks(login, login') /\ writer' = writer /\ browsers' \in [Devices -> Nat]
                        /\ assistant' \in Assistants /\ day' = day
  <1>0. /\ login \in Logins /\ writer \in Writers /\ browsers \in [Devices -> Nat]
        /\ assistant \in Assistants /\ day \in Nat /\ NewToken(login) \in Nat
        /\ login.stored \in AccessRecords /\ login.issued \in Nat
        /\ \A d \in Devices : browsers[d] \in Nat
    BY DEF WebAccessTypeOK, NewToken, Logins
  <1>1. login \in Logins => Marks(login, login)
    BY DEF Marks
  <1>2. ASSUME NEW d \in Devices, NEW what, Begins(what, d) PROVE Handler
    BY <1>0, <1>1, <1>2 DEF Begins
  <1>3. ASSUME Begins("exchange", "none") PROVE Handler
    BY <1>0, <1>1, <1>3 DEF Begins
  <1>4. ASSUME NEW d \in Devices, NEW r \in BOOLEAN, SignIn(d, r) PROVE Handler
    <2>1. Marks(login, login')
      BY <1>0, <1>4, IssueMarks DEF SignIn
    <2> QED
      BY <1>0, <1>4, <2>1 DEF SignIn
  <1>5. ASSUME NEW d \in Devices, TurnOn(d) PROVE Handler
    <2> DEFINE l == Recorded(login, [login.stored EXCEPT !.enabled = TRUE])
    <2>1. l \in Logins /\ l.dirty = TRUE
      BY <1>0, RecordTypes, RecordedMarks, [tok |-> 0, used |-> 0] \in Sessions DEF Sessions
    <2>2. login' = Issue(l, NewToken(login), TRUE)
      BY <1>5 DEF TurnOn
    <2> HIDE DEF l
    <2>3. Marks(l, login')
      BY <1>0, <2>1, <2>2, IssueMarks
    <2>4. Marks(login, login')
      BY <2>1, <2>3 DEF Marks
    <2> QED
      BY <1>0, <1>5, <2>4 DEF TurnOn
  <1>6. ASSUME TurnOff PROVE Handler
    BY <1>0, <1>6, SwitchOffMarks DEF TurnOff
  <1>7. ASSUME NEW d \in Devices, Visit(d) PROVE Handler
    <2>1. Marks(login, [login EXCEPT !.tab = NoTab])
      <3>1. NoTab \in [tok : Nat, live : BOOLEAN, lapsed : BOOLEAN]
        BY DEF NoTab
      <3> QED
        BY <1>0, <3>1 DEF Marks, Logins
    <2>2. \A s : Marks(login, Recorded(login, [login.stored EXCEPT !.remembered[s] = Empty]))
      BY <1>0, RecordTypes, RecordedMarks, Empty \in Sessions, 0 \in Nat DEF Marks, Empty, Sessions
    <2>3. \A s : Marks(login, Recorded(login, [login.stored EXCEPT !.remembered[s].used = day]))
      <3> TAKE s
      <3> DEFINE e == [login.stored.remembered[s] EXCEPT !.used = day]
      <3>1. [login.stored EXCEPT !.remembered[s].used = day] \in AccessRecords
        BY <1>0 DEF AccessRecords, Sessions
      <3> QED
        BY <1>0, <3>1, RecordedMarks DEF Marks
    <2>4. Marks(login, login')
      BY <1>0, <1>1, <1>7, <2>1, <2>2, <2>3 DEF Visit
    <2>5. browsers' \in [Devices -> Nat]
      BY <1>0, <1>7 DEF Visit
    <2> QED
      BY <1>0, <1>7, <2>4, <2>5 DEF Visit
  <1>8. ASSUME NEW d \in Devices, SignOut(d) PROVE Handler
    BY <1>0, <1>8, RevokeMarks DEF SignOut, RevokeOnly
  <1>9. ASSUME NEW d \in Devices, SignOutOthers(d) PROVE Handler
    BY <1>0, <1>9, RevokeMarks DEF SignOutOthers, RevokeOthers
  <1>10. ASSUME NEW tok, SignOutOne(tok) PROVE Handler
    BY <1>0, <1>10, RevokeMarks DEF SignOutOne, RevokeOnly
  <1>11. ASSUME NEW d \in Devices, AskChange(d) PROVE Handler
    BY <1>0, <1>1, <1>11 DEF AskChange
  <1>12. ASSUME Exchange PROVE Handler
    <2> DEFINE r == [login.stored EXCEPT !.ha = NewToken(login)]
    <2>1. r \in AccessRecords
      BY <1>0, RecordTypes, [tok |-> 0, used |-> 0] \in Sessions, TRUE \in BOOLEAN DEF Sessions
    <2>2. login' = [Recorded(login, r) EXCEPT !.issued = NewToken(login)]
      BY <1>12 DEF Exchange, SetAssistant
    <2> HIDE DEF r
    <2>3. Recorded(login, r) \in Logins /\ Recorded(login, r).dirty = TRUE
      BY <1>0, <2>1, RecordedMarks
    <2>4. Marks(login, login')
      BY <1>0, <2>2, <2>3 DEF Marks, Logins
    <2> QED
      BY <1>0, <1>12, <2>4 DEF Exchange
  <1>13. ASSUME ForgetHomeAssistant PROVE Handler
    <2>1. [login.stored EXCEPT !.ha = 0] \in AccessRecords
      BY <1>0, RecordTypes, [tok |-> 0, used |-> 0] \in Sessions, TRUE \in BOOLEAN DEF Sessions
    <2>2. Marks(login, ForgetAssistant(login))
      BY <1>0, <2>1, RecordedMarks DEF ForgetAssistant, Marks
    <2> QED
      BY <1>0, <1>13, <2>2 DEF ForgetHomeAssistant
  <1>14. ASSUME StartPairing \/ PairingTimesOut \/ ShowPrompt \/ AskStatus \/ TabLapses PROVE Handler
    <2>1. CASE StartPairing
      <3>1. Marks(login, login')
        BY <1>0, <2>1 DEF StartPairing, Marks, Logins
      <3>2. assistant' \in Assistants
        <4>1. assistant.pairs + 1 \in Nat
          BY <1>0
        <4>2. assistant' = [assistant EXCEPT !.pairs = assistant.pairs + 1, !.asked = assistant.pairs + 1]
          BY <1>0, <2>1 DEF StartPairing
        <4> QED
          BY <1>0, <4>1, <4>2
      <3> QED
        BY <1>0, <2>1, <3>1, <3>2 DEF StartPairing
    <2>2. CASE PairingTimesOut
      <3>1. Marks(login, login')
        BY <1>0, <2>2 DEF PairingTimesOut, NoPairing, Marks, Logins
      <3> QED
        BY <1>0, <2>2, <3>1 DEF PairingTimesOut
    <2>3. CASE ShowPrompt
      BY <1>0, <1>1, <2>3 DEF ShowPrompt, Logins
    <2>4. CASE AskStatus
      <3>1. Marks(login, login')
        BY <1>0, <2>4 DEF AskStatus, NoPairing, Marks, Logins
      <3> QED
        BY <1>0, <2>4, <3>1 DEF AskStatus
    <2>5. CASE TabLapses
      <3>1. Marks(login, login')
        BY <1>0, <2>5 DEF TabLapses, Marks, Logins
      <3> QED
        BY <1>0, <2>5, <3>1 DEF TabLapses
    <2> QED
      BY <1>14, <2>1, <2>2, <2>3, <2>4, <2>5
  <1>15. ASSUME NEW a \in BOOLEAN, Answers(a) PROVE Handler
    <2> DEFINE r == [login.stored EXCEPT !.ha = NewToken(login)]
               p == [state |-> "approved", id |-> login.pairing.id]
    <2>1. r \in AccessRecords
      BY <1>0, RecordTypes, [tok |-> 0, used |-> 0] \in Sessions, TRUE \in BOOLEAN DEF Sessions
    <2>2. Recorded(login, r) \in Logins /\ Recorded(login, r).dirty = TRUE
      BY <1>0, <2>1, RecordedMarks
    <2>3. p \in [state : {"none", "pending", "approved", "denied", "expired"}, id : Nat]
      BY <1>0 DEF Logins
    <2>4. \/ login' = login \/ login' = [login EXCEPT !.pairing.state = "denied"]
          \/ login' = [Recorded(login, r) EXCEPT !.issued = NewToken(login), !.pairing = p]
      BY <1>15 DEF Answers, SetAssistant
    <2> HIDE DEF r, p
    <2>5. Marks(login, [login EXCEPT !.pairing.state = "denied"])
      BY <1>0 DEF Marks, Logins
    <2>6. Marks(login, [Recorded(login, r) EXCEPT !.issued = NewToken(login), !.pairing = p])
      BY <1>0, <2>2, <2>3 DEF Marks, Logins
    <2>7. Marks(login, login')
      BY <1>0, <1>1, <2>4, <2>5, <2>6
    <2> QED
      BY <1>0, <1>15, <2>7 DEF Answers
  <1>16. ASSUME ChangeOverUsb PROVE Handler
    BY <1>0, <1>1, <1>16 DEF ChangeOverUsb
  <1>17. ASSUME RevokeForChange PROVE Handler
    BY <1>0, <1>17, RevokeMarks DEF RevokeForChange, RevokeOthers
  <1>18. ASSUME SignAllOut PROVE Handler
    BY <1>0, <1>18, SwitchOffMarks DEF SignAllOut
  <1>19. Handler => WebAccessTypeOK' /\ UnmarkedIsSaved'
    BY <1>0, AccessStep DEF WebAccessTypeOK, Marks
  <1>20. CASE TakeKeep \/ ResetPassword
    <2>1. /\ writer.pc = "idle" /\ UNCHANGED <<login, browsers, assistant, day>>
          /\ writer' \in {[writer EXCEPT !.factory = FALSE], [writer EXCEPT !.factory = TRUE]}
      BY <1>20 DEF TakeKeep, ResetPassword, NetworkIdle
    <2>2. writer' \in Writers
      BY <1>0, <2>1, TypesOfWriters
    <2>3. writer'.pc = writer.pc /\ writer'.image = writer.image /\ writer'.flash = writer.flash
      BY <1>0, <2>1 DEF Writers
    <2> QED
      BY <2>1, <2>2, <2>3 DEF WebAccessTypeOK, UnmarkedIsSaved
  <1>21. CASE CopyRecord
    <2>1. /\ writer' = [writer EXCEPT !.pc = "write", !.image = login.stored]
          /\ login' = [login EXCEPT !.dirty = FALSE] /\ UNCHANGED <<browsers, assistant, day>>
      BY <1>21 DEF CopyRecord
    <2>2. writer' \in Writers /\ login' \in Logins
      BY <1>0, <2>1 DEF Writers, Logins
    <2>3. writer'.pc = "write" /\ writer'.image = login.stored /\ login'.stored = login.stored
      BY <1>0, <2>1 DEF Writers, Logins
    <2> QED
      BY <2>1, <2>2, <2>3 DEF WebAccessTypeOK, UnmarkedIsSaved
  <1>22. CASE WriteRecord
    <2>1. NoRecord \in AccessRecords
      BY DEF NoRecord, AccessRecords, Empty, Sessions
    <2>2. /\ writer' = [writer EXCEPT !.pc = "idle", !.flash = writer.image, !.image = NoRecord]
          /\ writer.pc = "write" /\ UNCHANGED <<login, browsers, assistant, day>>
      BY <1>22 DEF WriteRecord
    <2>3. writer' \in Writers /\ writer'.pc = "idle" /\ writer'.flash = writer.image
      BY <1>0, <2>1, <2>2 DEF Writers
    <2> QED
      BY <2>2, <2>3 DEF WebAccessTypeOK, UnmarkedIsSaved
  <1>23. CASE WriteFails
    <2>1. NoRecord \in AccessRecords
      BY DEF NoRecord, AccessRecords, Empty, Sessions
    <2>2. /\ writer' = [writer EXCEPT !.pc = "failed", !.image = NoRecord, !.failures = @ + 1]
          /\ UNCHANGED <<login, browsers, assistant, day>>
      BY <1>23 DEF WriteFails
    <2>3. writer' \in Writers /\ writer'.pc = "failed"
      <3>1. writer.failures + 1 \in Nat
        BY <1>0 DEF Writers
      <3> QED
        BY <1>0, <2>1, <2>2, <3>1 DEF Writers
    <2> QED
      BY <2>2, <2>3 DEF WebAccessTypeOK, UnmarkedIsSaved
  <1>24. CASE MarkAgain
    <2>1. /\ writer' = [writer EXCEPT !.pc = "idle"] /\ login' = [login EXCEPT !.dirty = TRUE]
          /\ UNCHANGED <<browsers, assistant, day>>
      BY <1>24 DEF MarkAgain, Marked
    <2>2. writer' \in Writers /\ login' \in Logins /\ login'.dirty
      BY <1>0, <2>1 DEF Writers, Logins
    <2> QED
      BY <2>1, <2>2 DEF WebAccessTypeOK, UnmarkedIsSaved
  <1>25. CASE LoadsRecord
    <2> DEFINE l == [login EXCEPT !.stored = writer.flash, !.tab = NoTab, !.pairing = NoPairing,
                                  !.dirty = FALSE]
    <2>1. NoRecord \in AccessRecords
      BY DEF NoRecord, AccessRecords, Empty, Sessions
    <2>2. writer' = [writer EXCEPT !.pc = "idle", !.image = NoRecord, !.restarts = @ + 1]
      BY <1>25 DEF LoadsRecord
    <2>3. writer' \in Writers /\ writer'.pc = "idle" /\ writer'.flash = writer.flash
      <3>1. writer.restarts + 1 \in Nat
        BY <1>0 DEF Writers
      <3> QED
        BY <1>0, <2>1, <2>2, <3>1 DEF Writers
    <2>4. l \in Logins /\ l.stored = writer.flash
      BY <1>0 DEF Logins, Writers, NoTab, NoPairing
    <2>5. login' = IF writer.factory THEN SwitchOff(l) ELSE l
      BY <1>25 DEF LoadsRecord
    <2> HIDE DEF l
    <2>6. Marks(l, login')
      BY <2>4, <2>5, SwitchOffMarks DEF Marks
    <2>7. browsers' = browsers /\ day' = 0 /\ assistant' \in Assistants
      BY <1>0, <1>25 DEF LoadsRecord
    <2> QED
      BY <1>0, <2>3, <2>4, <2>6, <2>7 DEF WebAccessTypeOK, UnmarkedIsSaved, Marks
  <1>26. CASE NextDay
    <2>1. day' \in Nat /\ UNCHANGED <<login, writer, browsers, assistant>>
      BY <1>0, <1>26, WebAccessAssumption DEF NextDay
    <2> QED
      BY <2>1 DEF WebAccessTypeOK, UnmarkedIsSaved
  <1>27. CASE UNCHANGED webAccessVars
    BY <1>27 DEF webAccessVars, WebAccessTypeOK, UnmarkedIsSaved
  <1> HIDE DEF Handler
  <1> QED
    BY <1>2, <1>3, <1>4, <1>5, <1>6, <1>7, <1>8, <1>9, <1>10, <1>11, <1>12, <1>13, <1>14, <1>15,
       <1>16, <1>17, <1>18, <1>19, <1>20, <1>21, <1>22, <1>23, <1>24, <1>25, <1>26, <1>27
    DEF WebAccessNext

\* The login record that is not marked dirty is the one in flash or in the hands of
\* the writer's task (WebAccess::serviceSave and the commit's answer), for every
\* number of remembered sessions.
THEOREM NoSessionIsForgotten == WebAccessSpec => []UnmarkedIsSaved
  <1>1. WebAccessInit => WebAccessTypeOK /\ UnmarkedIsSaved
    <2>1. NoRecord \in AccessRecords
      BY DEF NoRecord, AccessRecords, Empty, Sessions
    <2> QED
      BY <2>1 DEF WebAccessInit, WebAccessTypeOK, UnmarkedIsSaved, Logins, Writers, NoTab, NoPairing
  <1> QED
    BY <1>1, WebAccessInductive, PTL DEF WebAccessSpec

-----------------------------------------------------------------------------
(* The webhook dispatcher. *)

HookUrls == {config.url : config \in HookConfigs} \cup {NoUrl}

HookItems == [id : Nat, kind : HookKinds \cup {"none"}, gen : Nat, url : HookUrls]

\* The fields of the records; the values matter only where they are named below.
HookFields == {"config", "gen", "lock", "queue", "state", "stopAfterDrain", "newer", "cleanup",
               "noMemory", "posts"}
PostFields == {"pc", "have", "item", "failures", "due", "url", "client", "fenced", "sent",
               "answer", "reached"}
IsHook(h) == h = [f \in HookFields |-> h[f]]
IsPost(p) == p = [f \in PostFields |-> p[f]]
CallTypeOK ==
  calls \in [Callers -> [at : {"idle", "start", "allocate", "started", "read", "lock", "send", "count"},
                         item : HookItems, enabled : BOOLEAN]]

\* An event that carries the present generation carries the present address.
Fits(x) == x.gen <= hook.gen /\ (x.gen = hook.gen => x.url = hook.config.url)

HookOK ==
  /\ IsHook(hook) /\ hook.config \in HookConfigs /\ hook.gen \in Nat \ {0} /\ hook.posts \in Nat
  /\ hook.queue \in Seq(HookItems) /\ \A n \in 1 .. Len(hook.queue) : Fits(hook.queue[n])
CallsOK == CallTypeOK /\ \A c \in Callers : Fits(calls[c].item)

\* The worker's request goes to the address of its event.
Aimed(p) ==
  /\ IsPost(p) /\ p.item \in HookItems
  /\ p.pc \in {"resolve", "perform", "judge"} => p.url = p.item.url
  /\ p.pc = "perform" => p.client = p.url
  /\ \A r \in p.reached : r[1] = r[2]
PostOK == Aimed(post) /\ Fits(post.item)

WebhookInv == HookOK /\ CallsOK /\ PostOK

\* The empty item carries no receiver, so it fits every configuration.
LEMMA NoItemFits == HookOK => NoItem \in HookItems /\ Fits(NoItem)
  <1>1. NoItem \in HookItems
    BY DEF NoItem, HookUrls, HookItems
  <1>2. NoItem.gen = 0
    BY DEF NoItem
  <1> QED
    BY <1>1, <1>2 DEF HookOK, Fits

\* What happens to the shared state beside its configuration.
SameConfig == /\ IsHook(hook)' /\ hook'.config = hook.config /\ hook'.gen = hook.gen
              /\ hook'.posts = hook.posts

\* Whether an item fits depends on the configuration and its generation only.
LEMMA FitsFrame ==
  ASSUME SameConfig
  PROVE  \A x : Fits(x) <=> Fits(x)'
  BY DEF SameConfig, Fits

\* A step that keeps the configuration and keeps or clears the queue keeps the
\* dispatcher's part of the invariant.
LEMMA HookFrame ==
  ASSUME HookOK, SameConfig, hook'.queue \in {hook.queue, <<>>}
  PROVE  HookOK'
  <1>1. \A x : Fits(x) <=> Fits(x)'
    BY FitsFrame
  <1>2. CASE hook'.queue = hook.queue
    BY <1>1, <1>2 DEF HookOK, SameConfig
  <1>3. CASE hook'.queue = <<>>
    BY <1>3 DEF HookOK, SameConfig
  <1> QED
    BY <1>2, <1>3

\* A caller that only moves on keeps what the callers carry in order.
LEMMA CallsFrame ==
  ASSUME HookOK, CallsOK, SameConfig \/ hook' = hook, NEW c \in Callers,
         UNCHANGED calls \/ Idle(c)
         \/ \E step \in {"idle", "start", "allocate", "started", "read", "lock", "send", "count"} : Goes(c, step)
  PROVE  CallsOK'
  <1>1. CallTypeOK'
    <2>1. NoCall \in [at : {"idle", "start", "allocate", "started", "read", "lock", "send", "count"},
                      item : HookItems, enabled : BOOLEAN]
      BY NoItemFits DEF NoCall
    <2> QED
      BY <2>1 DEF CallsOK, CallTypeOK, Idle, Goes
  <1>2. \A d \in Callers : calls'[d].item \in {calls[d].item, NoItem}
    BY DEF CallsOK, CallTypeOK, Idle, Goes, NoCall
  <1>3. \A x : Fits(x) => Fits(x)'
    BY FitsFrame DEF Fits
  <1> QED
    BY <1>1, <1>2, <1>3, NoItemFits DEF CallsOK

\* A step of a caller of post().
LEMMA CallersKeep ==
  ASSUME WebhookInv, NEW c \in Callers, Caller(c)
  PROVE  WebhookInv'
  <1> USE DEF WebhookInv
  <1>1. CASE StartTakes(c)
    <2>1. SameConfig /\ hook'.queue = hook.queue /\ post' = post
      BY <1>1 DEF StartTakes, SameConfig, IsHook, HookFields, HookOK
    <2>2. Goes(c, "allocate") \/ Goes(c, "started")
      BY <1>1 DEF StartTakes
    <2> QED
      BY <2>1, <2>2, HookFrame, CallsFrame, FitsFrame DEF PostOK
  <1>2. CASE WorkerRuns(c)
    <2>1. SameConfig /\ hook'.queue = <<>>
      BY <1>2 DEF WorkerRuns, SameConfig, IsHook, HookFields, HookOK
    <2>2. Idle(c) \/ Goes(c, "read")
      BY <1>2 DEF WorkerRuns, AfterStart
    <2>3. post' = [post EXCEPT !.pc = "top"]
      BY <1>2 DEF WorkerRuns
    <2>4. Aimed(post') /\ post'.item = post.item
      BY <2>3 DEF PostOK, Aimed, IsPost, PostFields
    <2> QED
      BY <2>1, <2>2, <2>4, HookFrame, CallsFrame, FitsFrame DEF PostOK
  <1>3. CASE WorkerRefused(c) \/ StartGives(c)
    <2>1. SameConfig /\ hook'.queue = hook.queue /\ post' = post
      BY <1>3 DEF WorkerRefused, StartGives, SameConfig, IsHook, HookFields, HookOK
    <2>2. Idle(c) \/ Goes(c, "read")
      BY <1>3 DEF WorkerRefused, StartGives, AfterStart
    <2> QED
      BY <2>1, <2>2, HookFrame, CallsFrame, FitsFrame DEF PostOK
  <1>4. CASE ReadsConfig(c)
    <2> DEFINE now == [calls[c] EXCEPT !.at = "lock", !.enabled = hook.config.enabled,
                                       !.item.gen = hook.gen, !.item.url = hook.config.url]
    <2>1. hook' = hook /\ post' = post /\ calls' \in {[calls EXCEPT ![c] = now], [calls EXCEPT ![c] = NoCall]}
      BY <1>4 DEF ReadsConfig
    <2>2. /\ hook.config.enabled \in BOOLEAN /\ hook.config.url \in HookUrls
          /\ hook.gen \in Nat
      BY WebhookAssumption DEF HookOK, HookUrls
    <2>3. calls[c] \in [at : {"idle", "start", "allocate", "started", "read", "lock", "send", "count"},
                        item : HookItems, enabled : BOOLEAN]
      BY DEF CallsOK, CallTypeOK
    <2>4. now \in [at : {"idle", "start", "allocate", "started", "read", "lock", "send", "count"},
                   item : HookItems, enabled : BOOLEAN]
      BY <2>2, <2>3 DEF HookItems
    <2>5. now.item.gen = hook.gen /\ now.item.url = hook.config.url
      BY <2>3 DEF HookItems
    <2> HIDE DEF now
    <2>6. CASE calls' = [calls EXCEPT ![c] = now]
      <3>1. CallTypeOK'
        BY <2>4, <2>6 DEF CallsOK, CallTypeOK
      <3>2. \A d \in Callers : calls'[d].item = calls[d].item \/ calls'[d].item = now.item
        BY <2>6 DEF CallsOK, CallTypeOK
      <3>3. Fits(now.item)
        BY <2>2, <2>5 DEF Fits
      <3>4. CallsOK'
        BY <2>1, <3>1, <3>2, <3>3 DEF CallsOK, Fits
      <3> QED
        BY <2>1, <3>4 DEF HookOK, PostOK, Fits
    <2>7. CASE calls' = [calls EXCEPT ![c] = NoCall]
      BY <2>1, <2>7, CallsFrame DEF Idle, HookOK, PostOK, Fits
    <2> QED
      BY <2>1, <2>6, <2>7
  <1>5. CASE TriesLock(c)
    <2>1. SameConfig /\ hook'.queue = hook.queue /\ post' = post
      BY <1>5 DEF TriesLock, SameConfig, IsHook, HookFields, HookOK
    <2> QED
      BY <1>5, <2>1, HookFrame, CallsFrame, FitsFrame DEF PostOK, TriesLock
  <1>6. CASE LockIsTaken(c)
    BY <1>6, CallsFrame DEF LockIsTaken, HookOK, PostOK, Fits
  <1>7. CASE SendsToQueue(c)
    <2>1. SameConfig /\ hook'.queue = Append(hook.queue, calls[c].item) /\ post' = post
      BY <1>7 DEF SendsToQueue, SameConfig, IsHook, HookFields, HookOK
    <2>2. calls[c].item \in HookItems /\ Fits(calls[c].item)
      BY DEF CallsOK, CallTypeOK
    <2>3. hook'.queue \in Seq(HookItems) /\ \A n \in 1 .. Len(hook'.queue) : Fits(hook'.queue[n])
      BY <2>1, <2>2 DEF HookOK
    <2>4. HookOK'
      BY <2>1, <2>3, FitsFrame DEF HookOK, SameConfig
    <2> QED
      BY <1>7, <2>1, <2>4, CallsFrame, FitsFrame DEF PostOK, SendsToQueue
  <1>8. CASE QueueRefuses(c)
    <2>1. SameConfig /\ hook'.queue = hook.queue /\ post' = post
      BY <1>8 DEF QueueRefuses, SameConfig, IsHook, HookFields, HookOK
    <2> QED
      BY <1>8, <2>1, HookFrame, CallsFrame, FitsFrame DEF PostOK, QueueRefuses
  <1>9. CASE Counts(c)
    <2>1. SameConfig /\ hook'.queue = hook.queue /\ post' = post
      BY <1>9 DEF Counts, SameConfig, IsHook, HookFields, HookOK
    <2> QED
      BY <1>9, <2>1, HookFrame, CallsFrame, FitsFrame DEF PostOK, Counts
  <1> QED
    BY <1>1, <1>2, <1>3, <1>4, <1>5, <1>6, <1>7, <1>8, <1>9 DEF Caller

\* The check of post(): the event takes the URL and the generation of the moment.
LEMMA PostsKeeps ==
  ASSUME WebhookInv, NEW c \in Callers, NEW kind \in EventKinds(c), Posts(c, kind)
  PROVE  WebhookInv'
  <1> DEFINE Calls == [at : {"idle", "start", "allocate", "started", "read", "lock", "send", "count"},
                       item : HookItems, enabled : BOOLEAN]
             x == [NoItem EXCEPT !.id = hook.posts + 1, !.kind = kind]
             at == IF kind = "test" THEN "start" ELSE "read"
  <1>1. kind \in HookKinds
    BY DEF EventKinds, Callers
  <1>2. x \in HookItems /\ x.gen = 0
    <2>1. NoItem \in HookItems /\ NoItem.gen = 0 /\ hook.posts + 1 \in Nat
      BY NoItemFits DEF WebhookInv, HookOK, NoItem
    <2> QED
      BY <1>1, <2>1 DEF HookItems
  <1>3. hook' = [hook EXCEPT !.posts = @ + 1] /\ post' = post
        /\ calls' = [calls EXCEPT ![c] = [calls[c] EXCEPT !.at = at, !.item = x]]
    BY DEF Posts, WebhookInv, CallsOK, CallTypeOK
  <1>4. /\ IsHook(hook') /\ hook'.config = hook.config /\ hook'.gen = hook.gen
        /\ hook'.queue = hook.queue /\ hook'.posts = hook.posts + 1
    BY <1>3 DEF WebhookInv, HookOK, IsHook, HookFields
  <1>5. calls[c] \in Calls /\ at \in {"start", "read"}
    BY DEF WebhookInv, CallsOK, CallTypeOK
  <1> HIDE DEF x, at
  <1>6. [calls[c] EXCEPT !.at = at, !.item = x] \in Calls /\ [calls[c] EXCEPT !.at = at, !.item = x].item = x
    BY <1>2, <1>5
  <1>7. CallTypeOK'
    BY <1>3, <1>6 DEF WebhookInv, CallsOK, CallTypeOK
  <1>8. \A d \in Callers : calls'[d].item \in {calls[d].item, x}
    BY <1>3, <1>6 DEF WebhookInv, CallsOK, CallTypeOK
  <1>9. \A y : Fits(y) <=> Fits(y)'
    BY <1>4 DEF Fits
  <1>10. Fits(x)
    BY <1>2 DEF Fits, WebhookInv, HookOK
  <1>11. CallsOK'
    BY <1>7, <1>8, <1>9, <1>10 DEF WebhookInv, CallsOK
  <1>12. HookOK'
    BY <1>4, <1>9 DEF WebhookInv, HookOK
  <1> QED
    BY <1>3, <1>9, <1>11, <1>12 DEF WebhookInv, PostOK

\* A saved configuration is a new generation, which no event carries yet.
LEMMA SavesKeeps ==
  ASSUME WebhookInv, NEW config \in HookConfigs, SavesConfig(config)
  PROVE  WebhookInv'
  <1>1. /\ IsHook(hook') /\ hook'.config = config /\ hook'.gen = hook.gen + 1
        /\ hook'.queue = hook.queue /\ hook'.posts = hook.posts
    BY DEF SavesConfig, WebhookInv, HookOK, IsHook, HookFields
  <1>2. post' = post /\ (Goes("network", "start") \/ Goes("network", "idle"))
    BY DEF SavesConfig
  <1>3. \A y \in HookItems : Fits(y) => Fits(y)'
    BY <1>1 DEF Fits, WebhookInv, HookOK, HookItems
  <1>4. CallTypeOK' /\ \A d \in Callers : calls'[d].item = calls[d].item
    BY <1>2 DEF Goes, WebhookInv, CallsOK, CallTypeOK
  <1>5. CallsOK'
    BY <1>3, <1>4 DEF WebhookInv, CallsOK, CallTypeOK
  <1>6. HookOK'
    BY <1>1, <1>3 DEF WebhookInv, HookOK
  <1> QED
    BY <1>2, <1>3, <1>5, <1>6 DEF WebhookInv, PostOK, Aimed

\* What the worker does with the item after an answer keeps it aimed.
LEMMA ForgottenIsAimed ==
  ASSUME HookOK, PostOK
  PROVE  /\ Aimed(Rests(post)) /\ Rests(post).item = post.item
         /\ Aimed([Rests(post) EXCEPT !.failures = @ + 1, !.due = FALSE])
         /\ [Rests(post) EXCEPT !.failures = @ + 1, !.due = FALSE].item = post.item
         /\ Aimed(Forgets(post)) /\ Forgets(post).item = NoItem
  <1> DEFINE p == Rests(post)
  <1>1. IsPost(post) /\ post.item \in HookItems
    BY DEF PostOK, Aimed
  <1>2. IsPost(p) /\ p.item = post.item /\ p.pc = "drain" /\ p.reached = {}
    BY <1>1 DEF IsPost, PostFields, Rests
  <1> HIDE DEF p
  <1>3. ASSUME NEW n PROVE LET q == [p EXCEPT !.failures = n, !.due = FALSE] IN
                      IsPost(q) /\ q.item = p.item /\ q.pc = p.pc /\ q.reached = p.reached
    BY <1>2 DEF IsPost, PostFields
  <1>4. LET q == [p EXCEPT !.have = FALSE, !.failures = 0, !.due = FALSE, !.item = NoItem] IN
        IsPost(q) /\ q.item = NoItem /\ q.pc = p.pc /\ q.reached = p.reached
    BY <1>2 DEF IsPost, PostFields
  <1>5. ASSUME NEW q, IsPost(q), q.pc = "drain", q.reached = {}, q.item \in HookItems
        PROVE  Aimed(q)
    BY <1>5 DEF Aimed
  <1>6. Aimed(p) /\ p.item = post.item
    BY <1>1, <1>2, <1>5
  <1>7. /\ Aimed([p EXCEPT !.failures = @ + 1, !.due = FALSE])
        /\ [p EXCEPT !.failures = @ + 1, !.due = FALSE].item = post.item
    BY <1>1, <1>2, <1>3, <1>5
  <1>8. Forgets(post) = [p EXCEPT !.have = FALSE, !.failures = 0, !.due = FALSE, !.item = NoItem]
    BY DEF Forgets, p
  <1>9. Aimed(Forgets(post)) /\ Forgets(post).item = NoItem
    BY <1>2, <1>4, <1>5, <1>8, NoItemFits
  <1> QED
    BY <1>6, <1>7, <1>9 DEF p

\* A step of the worker, or the end of its pause.
LEMMA WorkerKeeps ==
  ASSUME WebhookInv, Worker \/ BackoffEnds
  PROVE  WebhookInv'
  <1> USE DEF WebhookInv
  <1>0. ASSUME UNCHANGED <<hook, calls>>, Aimed(post)', post'.item \in {post.item, NoItem}
        PROVE  WebhookInv'
    BY <1>0, NoItemFits DEF HookOK, CallsOK, CallTypeOK, PostOK, Fits
  <1>1. CASE TopOfLoop
    <2>1. SameConfig /\ hook'.queue = hook.queue /\ calls' = calls
      BY <1>1 DEF TopOfLoop, SameConfig, IsHook, HookFields, HookOK
    <2>2. \E client, pc : pc \in {"decide", "receive", "drain"}
                          /\ post' = [post EXCEPT !.client = client, !.pc = pc]
      <3> DEFINE client == IF hook.cleanup THEN NoUrl ELSE post.client
                 pc == CASE post.have -> "decide"
                         [] ~post.have /\ DispatchAllowed -> "receive"
                         [] OTHER -> "drain"
      <3>1. post' = [post EXCEPT !.client = client, !.pc = pc]
        BY <1>1 DEF TopOfLoop
      <3>2. pc \in {"decide", "receive", "drain"}
        OBVIOUS
      <3> HIDE DEF client, pc
      <3> QED
        BY <3>1, <3>2
    <2>3. Aimed(post)' /\ post'.item = post.item
      BY <2>2 DEF PostOK, Aimed, IsPost, PostFields
    <2> QED
      BY <2>1, <2>3, HookFrame, CallsFrame, FitsFrame, "control" \in Callers DEF PostOK, Callers
  <1>2. CASE Receives
    <2>1. SameConfig /\ hook'.queue = Tail(hook.queue) /\ calls' = calls /\ hook.queue # <<>>
      BY <1>2 DEF Receives, SameConfig, IsHook, HookFields, HookOK
    <2>2. hook'.queue \in Seq(HookItems) /\ \A n \in 1 .. Len(hook'.queue) : Fits(hook'.queue[n])
      <3>1. hook.queue \in Seq(HookItems) /\ \A n \in 1 .. Len(hook.queue) : Fits(hook.queue[n])
        BY DEF HookOK
      <3>2. /\ Len(Tail(hook.queue)) = Len(hook.queue) - 1
            /\ \A n \in 1 .. Len(Tail(hook.queue)) : Tail(hook.queue)[n] = hook.queue[n + 1]
            /\ Tail(hook.queue) \in Seq(HookItems) /\ Len(hook.queue) \in Nat
        BY <2>1, <3>1
      <3> QED
        BY <2>1, <3>1, <3>2
    <2>3. HookOK'
      BY <2>1, <2>2, FitsFrame DEF HookOK, SameConfig
    <2>4. Head(hook.queue) \in HookItems /\ Fits(Head(hook.queue))
      BY <2>1 DEF HookOK
    <2>5. post' = [post EXCEPT !.have = TRUE, !.item = Head(hook.queue), !.pc = "uncount"]
      BY <1>2 DEF Receives
    <2>6. Aimed(post)' /\ post'.item = Head(hook.queue)
      BY <2>4, <2>5 DEF PostOK, Aimed, IsPost, PostFields
    <2> QED
      BY <2>1, <2>3, <2>4, <2>6, CallsFrame, FitsFrame, "control" \in Callers DEF PostOK, Callers
  <1>3. CASE Uncounts
    <2>1. SameConfig /\ hook'.queue = hook.queue /\ calls' = calls
      BY <1>3 DEF Uncounts, SameConfig, IsHook, HookFields, HookOK
    <2>2. Aimed(post)' /\ post'.item = post.item
      BY <1>3 DEF Uncounts, PostOK, Aimed, IsPost, PostFields
    <2> QED
      BY <2>1, <2>2, HookFrame, CallsFrame, FitsFrame, "control" \in Callers DEF PostOK, Callers
  <1>4. CASE StopsAfterDrain
    <2>1. SameConfig /\ hook'.queue = hook.queue /\ calls' = calls
      BY <1>4 DEF StopsAfterDrain, SameConfig, IsHook, HookFields, HookOK
    <2>2. Aimed(post)' /\ post'.item = post.item
      BY <1>4 DEF StopsAfterDrain, PostOK, Aimed, IsPost, PostFields
    <2> QED
      BY <2>1, <2>2, HookFrame, CallsFrame, FitsFrame, "control" \in Callers DEF PostOK, Callers
  <1>5. CASE Releases
    <2>1. SameConfig /\ hook'.queue = <<>> /\ calls' = calls
      BY <1>5 DEF Releases, SameConfig, IsHook, HookFields, HookOK
    <2>2. Aimed(post)' /\ post'.item = post.item
      BY <1>5 DEF Releases, PostOK, Aimed, IsPost, PostFields
    <2> QED
      BY <2>1, <2>2, HookFrame, CallsFrame, FitsFrame, "control" \in Callers DEF PostOK, Callers
  <1>6. CASE WaitsInVain \/ HoldsBack \/ EndsPass \/ BackoffEnds
    <2>1. UNCHANGED <<hook, calls>>
      BY <1>6 DEF WaitsInVain, HoldsBack, EndsPass, BackoffEnds
    <2>2. Aimed(post)' /\ post'.item = post.item
      <3>1. \A pc \in {"drain", "stop", "top"} : /\ Aimed([post EXCEPT !.pc = pc])
                                               /\ [post EXCEPT !.pc = pc].item = post.item
        BY DEF PostOK, Aimed, IsPost, PostFields
      <3>2. Aimed([post EXCEPT !.due = TRUE]) /\ [post EXCEPT !.due = TRUE].item = post.item
        <4> DEFINE q == [post EXCEPT !.due = TRUE]
        <4>1. /\ IsPost(q) /\ q.item = post.item /\ q.pc = post.pc /\ q.url = post.url
              /\ q.client = post.client /\ q.reached = post.reached
          BY DEF PostOK, Aimed, IsPost, PostFields
        <4> HIDE DEF q
        <4>2. Aimed(q) /\ q.item = post.item
          BY <4>1 DEF PostOK, Aimed
        <4> QED
          BY <4>2 DEF q
      <3> QED
        BY <1>6, <3>1, <3>2 DEF WaitsInVain, HoldsBack, EndsPass, BackoffEnds
    <2> QED
      BY <1>0, <2>1, <2>2
  <1>7. CASE Supersedes \/ DropsStale
    BY <1>0, <1>7, ForgottenIsAimed DEF Supersedes, DropsStale
  <1>8. ASSUME NEW answer, EndsRequest(answer)
        PROVE  WebhookInv'
    BY <1>0, <1>8, ForgottenIsAimed DEF EndsRequest
  <1>9. CASE Prepares
    <2>1. post' = [post EXCEPT !.url = hook.config.url, !.pc = "resolve"] /\ UNCHANGED <<hook, calls>>
      BY <1>9 DEF Prepares
    <2>2. post.item.url = hook.config.url
      BY <1>9 DEF Prepares, PostOK, Fits
    <2>3. Aimed(post)' /\ post'.item = post.item
      BY <2>1, <2>2 DEF PostOK, Aimed, IsPost, PostFields
    <2> QED
      BY <1>0, <2>1, <2>3
  <1>10. CASE Resolves
    <2>1. post' = [post EXCEPT !.client = post.url, !.pc = "perform"] /\ UNCHANGED <<hook, calls>>
          /\ post.pc = "resolve"
      BY <1>10 DEF Resolves, UsableClient, PostOK, Aimed, IsPost, PostFields
    <2>2. Aimed(post)' /\ post'.item = post.item
      BY <2>1 DEF PostOK, Aimed, IsPost, PostFields
    <2> QED
      BY <1>0, <2>1, <2>2
  <1>11. CASE HeadersGo
    <2>1. /\ post' = [post EXCEPT !.sent = TRUE, !.reached = post.reached \cup {<<post.item.url, post.client>>}]
          /\ UNCHANGED <<hook, calls>> /\ post.pc = "perform"
      BY <1>11 DEF HeadersGo, PostOK, Aimed, IsPost, PostFields
    <2>2. post.item.url = post.client
      BY <2>1 DEF PostOK, Aimed
    <2>3. /\ IsPost(post') /\ post'.item = post.item /\ post'.pc = post.pc /\ post'.url = post.url
          /\ post'.client = post.client
          /\ post'.reached = post.reached \cup {<<post.item.url, post.client>>}
      BY <2>1 DEF PostOK, Aimed, IsPost, PostFields
    <2>4. \A r \in post'.reached : r[1] = r[2]
      BY <2>2, <2>3 DEF PostOK, Aimed
    <2>5. Aimed(post)'
      BY <2>3, <2>4 DEF PostOK, Aimed
    <2> QED
      BY <1>0, <2>1, <2>3, <2>5
  <1>12. ASSUME NEW answer, Performed(answer)
         PROVE  WebhookInv'
    <2>1. post' = [post EXCEPT !.answer = answer, !.pc = "judge"] /\ UNCHANGED <<hook, calls>>
          /\ post.pc = "perform"
      BY <1>12 DEF Performed
    <2>2. Aimed(post)' /\ post'.item = post.item
      BY <2>1 DEF PostOK, Aimed, IsPost, PostFields
    <2> QED
      BY <1>0, <2>1, <2>2
  <1> QED
    BY <1>1, <1>2, <1>3, <1>4, <1>5, <1>6, <1>7, <1>8, <1>9, <1>10, <1>11, <1>12
    DEF Worker, FailsOffline, NotResolved, NoClient, Judges

\* The network, the memory and the maintenance lease come and go.
LEMMA GatesKeep ==
  ASSUME WebhookInv, Gate
  PROVE  WebhookInv'
  <1>1. UNCHANGED <<hook, calls>>
    BY DEF Gate, ShotBegins, ShotEnds, AcquisitionBegins, AcquisitionEnds, WifiLost, WifiBack, Closes, Opens
  <1>2. post' = post \/ \E f : post' = [post EXCEPT !.fenced = f]
    BY DEF Gate, ShotBegins, ShotEnds, AcquisitionBegins, AcquisitionEnds, WifiLost, WifiBack, Fences
  <1>3. Aimed(post)' /\ post'.item = post.item
    BY <1>2 DEF WebhookInv, PostOK, Aimed, IsPost, PostFields
  <1> QED
    BY <1>1, <1>3 DEF WebhookInv, HookOK, CallsOK, CallTypeOK, PostOK, Fits

\* The dispatcher keeps its invariant.
LEMMA WebhookInvariance == WebhookSpec => []WebhookInv
  <1>1. WebhookInit => WebhookInv
    <2> SUFFICES ASSUME WebhookInit PROVE WebhookInv
      OBVIOUS
    <2>1. HookOK
      BY DEF WebhookInit, HookOK, IsHook, HookFields
    <2>2. CallTypeOK /\ \A c \in Callers : calls[c].item = NoItem
      BY <2>1, NoItemFits DEF WebhookInit, CallTypeOK, NoCall
    <2>3. Aimed(post) /\ post.item = NoItem
      BY <2>1, NoItemFits DEF WebhookInit, Aimed, IsPost, PostFields
    <2> QED
      BY <2>1, <2>2, <2>3, NoItemFits DEF WebhookInv, CallsOK, PostOK
  <1>2. WebhookInv /\ [WebhookNext]_webhookVars => WebhookInv'
    <2> SUFFICES ASSUME WebhookInv, [WebhookNext]_webhookVars PROVE WebhookInv'
      OBVIOUS
    <2>1. CASE UNCHANGED webhookVars
      BY <2>1 DEF webhookVars, WebhookInv, HookOK, CallsOK, CallTypeOK, PostOK, Fits
    <2> QED
      BY <2>1, CallersKeep, PostsKeeps, SavesKeeps, WorkerKeeps, GatesKeep DEF WebhookNext
  <1> QED
    BY <1>1, <1>2, PTL DEF WebhookSpec

\* An event is sent to the receiver that was configured when it was posted, and
\* to no other, whatever is saved while it waits or is retried (Webhook.cpp: the
\* generation of the item and of the configuration), for every set of configurations.
THEOREM OnlyItsReceiver == WebhookSpec => []RightReceiver
  <1>1. WebhookInv => RightReceiver
    BY DEF WebhookInv, PostOK, Aimed, RightReceiver
  <1> QED
    BY WebhookInvariance, <1>1, PTL

-----------------------------------------------------------------------------
(* The states of the webhook. *)

\* The events that have a slot of newer_, where they are, and whom they are counted for.
Slotted(x) == HasSlot(x.kind)
SlotsAt == {n \in 1 .. Len(hook.queue) : Slotted(hook.queue[n])}
Waiting == {hook.queue[n].id : n \in SlotsAt}
Taken == IF post.pc = "uncount" /\ Slotted(post.item) THEN {post.item.id} ELSE {}
Counting == calls["control"].at = "count" /\ Slotted(calls["control"].item)

\* newer_ counts the states that wait, and the one just taken, but not the one
\* whose caller has not counted it yet.
Counted ==
  /\ hook.newer \in Int /\ IsFiniteSet(Waiting)
  /\ hook.newer = Cardinality(Waiting \cup Taken) - (IF Counting THEN 1 ELSE 0)

\* The states are taken, wait and come in the order in which they happened.
Ordered ==
  /\ \A n \in SlotsAt : hook.queue[n].id <= hook.posts /\ \A k \in SlotsAt : k < n => hook.queue[k].id < hook.queue[n].id
  /\ Slotted(post.item) => post.item.id <= hook.posts /\ \A n \in SlotsAt : post.item.id < hook.queue[n].id
  /\ Slotted(calls["control"].item) /\ calls["control"].at # "count" =>
       /\ calls["control"].item.id <= hook.posts
       /\ \A n \in SlotsAt : hook.queue[n].id < calls["control"].item.id
       /\ Slotted(post.item) => post.item.id < calls["control"].item.id

\* Who holds lifecycleMutex_, and what there is without a worker.
Locked == {"allocate", "started", "send", "count"}
Holders ==
  /\ \A c \in Callers : Slotted(calls[c].item) => c = "control"
  /\ \A c \in Callers : calls[c].at \in Locked => hook.lock = c
  /\ \A c \in Callers : calls[c].at = "allocate" => hook.state = "STARTING"
  /\ post.pc = "gone" <=> hook.state \in {"STOPPED", "STARTING"}
  /\ post.pc = "gone" => hook.queue = <<>> /\ hook.newer = 0

SlotInv == Counted /\ Ordered /\ Holders

\* A step of a call: what it carries stays the same event, or becomes none.
Moves(c, at) ==
  /\ \A d \in Callers \ {c} : calls'[d] = calls[d]
  /\ calls'[c].at = at
  /\ Slotted(calls'[c].item) => Slotted(calls[c].item) /\ calls'[c].item.id = calls[c].item.id

\* A step of a call that only moves on moves it.
LEMMA GoesMoves ==
  ASSUME CallTypeOK, NEW c \in Callers, NEW at, Goes(c, at)
  PROVE  Moves(c, at)
  <1>1. calls' = [calls EXCEPT ![c].at = at] /\ calls = [d \in Callers |-> calls[d]]
    BY DEF Goes, CallTypeOK
  <1>2. /\ calls'[c] = [calls[c] EXCEPT !.at = at]
        /\ \A d \in Callers \ {c} : calls'[d] = calls[d]
    BY <1>1
  <1>3. calls'[c].at = at /\ calls'[c].item = calls[c].item
    BY <1>2 DEF CallTypeOK
  <1> QED
    BY <1>2, <1>3 DEF Moves

\* A call that returns carries nothing.
LEMMA IdleMoves ==
  ASSUME CallTypeOK, NEW c \in Callers, Idle(c)
  PROVE  Moves(c, "idle") /\ calls'[c] = NoCall
  <1>1. ~Slotted(NoItem)
    BY DEF Slotted, HasSlot, NoItem
  <1>2. calls'[c] = NoCall /\ \A d \in Callers \ {c} : calls'[d] = calls[d]
    BY DEF Idle, CallTypeOK
  <1> QED
    BY <1>1, <1>2 DEF Moves, NoCall

\* Only control posts a state.
LEMMA OnlyControlHasStates ==
  ASSUME NEW c \in Callers, NEW kind \in EventKinds(c), HasSlot(kind)
  PROVE  c = "control"
  BY DEF EventKinds, HasSlot, Callers

\* A step that leaves the queue and the counter, and moves a call that has not sent
\* and does not send.
LEMMA StatesRest ==
  ASSUME Counted, Ordered, UNCHANGED <<hook.queue, hook.newer, hook.posts>>,
         Taken' = Taken, Slotted(post.item)' => post'.item = post.item,
         Counting' = Counting,
         Slotted(calls["control"].item)' /\ calls'["control"].at # "count" =>
            /\ Slotted(calls["control"].item) /\ calls["control"].at # "count"
            /\ calls'["control"].item.id = calls["control"].item.id
  PROVE  Counted' /\ Ordered'
  <1>1. SlotsAt' = SlotsAt /\ Waiting' = Waiting
    BY DEF SlotsAt, Waiting, Slotted, HasSlot
  <1>2. Counted'
    BY <1>1 DEF Counted
  <1>3. Ordered'
    BY <1>1 DEF Ordered, Slotted, HasSlot
  <1> QED
    BY <1>2, <1>3

\* A step of a call that neither begins nor ends its counting, and leaves the queue
\* and the counter alone, keeps what is counted.
LEMMA CallRests ==
  ASSUME Counted, Ordered, UNCHANGED <<hook.queue, hook.newer, hook.posts>>,
         Taken' = Taken, Slotted(post.item)' => post'.item = post.item,
         NEW c \in Callers, NEW at, Moves(c, at), calls[c].at # "count", at # "count"
  PROVE  Counted' /\ Ordered'
  <1>1. Counting' = Counting
    BY DEF Counting, Moves, Callers
  <1>2. Slotted(calls["control"].item)' /\ calls'["control"].at # "count" =>
            /\ Slotted(calls["control"].item) /\ calls["control"].at # "count"
            /\ calls'["control"].item.id = calls["control"].item.id
    BY DEF Moves, Callers, Slotted
  <1> QED
    BY <1>1, <1>2, StatesRest

\* The lock passes to the caller of a step, stays with it, or is given back.
LEMMA LockHeld ==
  ASSUME Holders, NEW c \in Callers, NEW at, Moves(c, at), Free \/ hook.lock = c,
         hook'.lock = (IF at \in Locked THEN c ELSE "none"),
         at = "allocate" => hook'.state = "STARTING"
  PROVE  /\ \A d \in Callers : Slotted(calls'[d].item) => d = "control"
         /\ \A d \in Callers : calls'[d].at \in Locked => hook'.lock = d
         /\ \A d \in Callers : calls'[d].at = "allocate" => hook'.state = "STARTING"
  <1>1. \A d \in Callers \ {c} : calls'[d] = calls[d] /\ calls[d].at \notin Locked
    BY DEF Holders, Moves, Free, Callers
  <1> QED
    BY <1>1 DEF Holders, Moves, Locked

\* Every step of a call keeps what is counted: an event that is sent waits after those
\* before it, and the caller that sent it counts it before it releases the lock.
LEMMA CallersCount ==
  ASSUME WebhookInv, SlotInv, NEW c \in Callers, Caller(c)
  PROVE  SlotInv'
  <1> USE DEF SlotInv
  <1>0. CallTypeOK /\ IsHook(hook) /\ hook.queue \in Seq(HookItems) /\ hook.posts \in Nat
        /\ IsPost(post) /\ calls[c].item \in HookItems /\ post.item \in HookItems
    BY DEF WebhookInv, HookOK, CallsOK, PostOK, Aimed, CallTypeOK
  <1>1. CASE StartTakes(c)
    <2>1. /\ UNCHANGED <<hook.queue, hook.newer, hook.posts>> /\ hook'.lock = c /\ Free /\ post' = post
          /\ hook'.state = IF hook.state = "STOPPED" THEN "STARTING" ELSE hook.state
          /\ calls[c].at = "start"
      BY <1>0, <1>1 DEF StartTakes, IsHook, HookFields
    <2>2. PICK at \in {"allocate", "started"} : Goes(c, at) /\ (at = "allocate" => hook.state = "STOPPED")
      BY <1>1 DEF StartTakes
    <2>3. Moves(c, at)
      BY <1>0, <2>2, GoesMoves
    <2>4. Counted' /\ Ordered'
      BY <2>1, <2>2, <2>3, CallRests DEF Taken
    <2>5. Holders'
      BY <2>1, <2>2, <2>3, LockHeld DEF Holders, Locked
    <2> QED
      BY <2>4, <2>5
  <1>2. CASE WorkerRuns(c)
    <2>1. /\ hook'.queue = <<>> /\ UNCHANGED <<hook.newer, hook.posts>> /\ hook'.lock = "none"
          /\ hook'.state = "READY" /\ post' = [post EXCEPT !.pc = "top"] /\ calls[c].at = "allocate"
      BY <1>0, <1>2 DEF WorkerRuns, IsHook, HookFields
    <2>2. post'.pc = "top" /\ post'.item = post.item
      BY <1>0, <2>1 DEF IsPost, PostFields
    <2>3. hook.lock = c /\ hook.state = "STARTING" /\ post.pc = "gone" /\ hook.queue = <<>> /\ hook.newer = 0
      BY <2>1 DEF Holders, Locked
    <2>4. PICK at \in {"idle", "read"} : Moves(c, at)
      BY <1>0, <1>2, GoesMoves, IdleMoves DEF WorkerRuns, AfterStart
    <2>5. Counted' /\ Ordered'
      BY <2>1, <2>2, <2>3, <2>4, CallRests DEF Taken
    <2>6. Holders'
      BY <2>1, <2>2, <2>3, <2>4, LockHeld DEF Holders, Locked
    <2> QED
      BY <2>5, <2>6
  <1>3. CASE WorkerRefused(c) \/ StartGives(c)
    <2>1. /\ UNCHANGED <<hook.queue, hook.newer, hook.posts>> /\ hook'.lock = "none" /\ post' = post
          /\ calls[c].at \in {"allocate", "started"}
          /\ \/ hook'.state = hook.state
             \/ calls[c].at = "allocate" /\ hook'.state = "STOPPED"
      BY <1>0, <1>3 DEF WorkerRefused, StartGives, IsHook, HookFields
    <2>2. hook.lock = c /\ (hook'.state \in {"STOPPED", "STARTING"} <=> hook.state \in {"STOPPED", "STARTING"})
      BY <2>1 DEF Holders, Locked
    <2>3. PICK at \in {"idle", "read"} : Moves(c, at)
      BY <1>0, <1>3, GoesMoves, IdleMoves DEF WorkerRefused, StartGives, AfterStart
    <2>4. Counted' /\ Ordered'
      BY <2>1, <2>3, CallRests DEF Taken
    <2>5. Holders'
      BY <2>1, <2>2, <2>3, LockHeld DEF Holders, Locked
    <2> QED
      BY <2>4, <2>5
  <1>4. CASE ReadsConfig(c)
    <2>1. hook' = hook /\ post' = post /\ calls[c].at = "read"
      BY <1>4 DEF ReadsConfig
    <2>2. PICK at \in {"idle", "lock"} : Moves(c, at)
      <3> DEFINE now == [calls[c] EXCEPT !.at = "lock", !.enabled = hook.config.enabled,
                                         !.item.gen = hook.gen, !.item.url = hook.config.url]
      <3>1. calls' = [calls EXCEPT ![c] = now] \/ Idle(c)
        BY <1>4 DEF ReadsConfig, Idle
      <3>2. now.at = "lock" /\ now.item.id = calls[c].item.id /\ now.item.kind = calls[c].item.kind
        BY <1>0 DEF CallTypeOK, HookItems
      <3> HIDE DEF now
      <3>3. calls' = [calls EXCEPT ![c] = now] => Moves(c, "lock")
        BY <1>0, <3>2 DEF Moves, CallTypeOK, Slotted
      <3> QED
        BY <1>0, <3>1, <3>3, IdleMoves
    <2>3. Counted' /\ Ordered'
      BY <2>1, <2>2, CallRests DEF Taken
    <2>4. Holders'
      BY <2>1, <2>2 DEF Holders, Moves, Locked
    <2> QED
      BY <2>3, <2>4
  <1>5. CASE TriesLock(c)
    <2>1. /\ UNCHANGED <<hook.queue, hook.newer, hook.posts, hook.state>> /\ hook'.lock = c /\ Free
          /\ post' = post /\ calls[c].at = "lock"
      BY <1>0, <1>5 DEF TriesLock, IsHook, HookFields
    <2>2. Moves(c, "send")
      BY <1>0, <1>5, GoesMoves DEF TriesLock
    <2>3. Counted' /\ Ordered'
      BY <2>1, <2>2, CallRests DEF Taken
    <2>4. Holders'
      BY <2>1, <2>2, LockHeld DEF Holders, Locked
    <2> QED
      BY <2>3, <2>4
  <1>6. CASE LockIsTaken(c)
    <2>1. hook' = hook /\ post' = post /\ calls[c].at = "lock"
      BY <1>6 DEF LockIsTaken
    <2>2. Moves(c, "idle")
      BY <1>0, <1>6, IdleMoves DEF LockIsTaken
    <2>3. Counted' /\ Ordered'
      BY <2>1, <2>2, CallRests DEF Taken
    <2>4. Holders'
      BY <2>1, <2>2 DEF Holders, Moves, Locked
    <2> QED
      BY <2>3, <2>4
  <1>7. CASE SendsToQueue(c)
    <2> DEFINE x == calls[c].item
    <2>1. /\ hook'.queue = Append(hook.queue, x) /\ UNCHANGED <<hook.newer, hook.posts, hook.state, hook.lock>>
          /\ post' = post /\ calls[c].at = "send" /\ hook.state = "READY"
      BY <1>0, <1>7 DEF SendsToQueue, IsHook, HookFields, Accepts
    <2>2. Moves(c, "count") /\ calls'[c].item = x
      BY <1>0, <1>7, GoesMoves DEF SendsToQueue, Goes, CallTypeOK
    <2>3. hook.lock = c /\ post.pc # "gone"
      BY <2>1 DEF Holders, Locked
    <2>4. Holders'
      BY <2>1, <2>2, <2>3, LockHeld DEF Holders, Locked
    <2>5. /\ Len(hook'.queue) = Len(hook.queue) + 1 /\ Len(hook.queue) \in Nat
          /\ hook'.queue[Len(hook.queue) + 1] = x
          /\ \A n \in 1 .. Len(hook.queue) : hook'.queue[n] = hook.queue[n]
      BY <1>0, <2>1
    <2>6. CASE Slotted(x)
      <3>1. c = "control" /\ ~Counting
        BY <2>1, <2>6 DEF Holders, Counting
      <3>2. SlotsAt' = SlotsAt \cup {Len(hook.queue) + 1}
        BY <2>5, <2>6 DEF SlotsAt
      <3>3. Waiting' = Waiting \cup {x.id}
        BY <2>5, <3>2 DEF Waiting, SlotsAt
      <3>4. x.id \in Nat /\ x.id <= hook.posts /\ (\A n \in SlotsAt : hook.queue[n].id < x.id)
            /\ (Slotted(post.item) => post.item.id < x.id)
        BY <1>0, <2>1, <2>6, <3>1 DEF Ordered, HookItems
      <3>5. Taken' = Taken /\ Counting'
        BY <2>1, <2>2, <2>6, <3>1 DEF Taken, Counting, Slotted, Moves
      <3>6. x.id \notin Waiting \cup Taken
        <4>1. \A n \in SlotsAt : hook.queue[n].id \in Nat /\ hook.queue[n].id # x.id
          <5>1. \A n \in 1 .. Len(hook.queue) : hook.queue[n] \in HookItems
            BY <1>0
          <5> QED
            BY <3>4, <5>1 DEF SlotsAt, HookItems
        <4>2. Slotted(post.item) => post.item.id # x.id
          BY <1>0, <3>4 DEF HookItems
        <4> QED
          BY <4>1, <4>2 DEF Waiting, Taken
      <3>7. IsFiniteSet(Waiting') /\ IsFiniteSet(Waiting \cup Taken)
            /\ Cardinality((Waiting \cup Taken) \cup {x.id}) = Cardinality(Waiting \cup Taken) + 1
        <4>1. IsFiniteSet(Waiting \cup Taken)
          BY FS_EmptySet, FS_Singleton, FS_Union DEF Counted, Taken
        <4>2. IsFiniteSet(Waiting')
          BY <3>3, FS_AddElement DEF Counted
        <4> QED
          BY <3>6, <4>1, <4>2, FS_AddElement
      <3>8. (Waiting \cup Taken)' = (Waiting \cup Taken) \cup {x.id}
        BY <3>3, <3>5
      <3>9. Cardinality(Waiting \cup Taken) \in Nat
        BY <3>7, FS_CardinalityType
      <3>10. Counted'
        <4>1. Cardinality(Waiting' \cup Taken') = Cardinality(Waiting \cup Taken) + 1
          BY <3>7, <3>8
        <4>2. hook'.newer = Cardinality(Waiting \cup Taken)
          BY <2>1, <3>1, <3>9 DEF Counted
        <4> QED
          BY <3>5, <3>7, <3>9, <4>1, <4>2 DEF Counted
      <3>11. Ordered'
        BY <1>0, <2>1, <2>2, <2>5, <3>1, <3>2, <3>4 DEF Ordered, SlotsAt, Moves
      <3> QED
        BY <2>4, <3>10, <3>11
    <2>7. CASE ~Slotted(x)
      <3>1. SlotsAt' = SlotsAt
        BY <2>5, <2>7 DEF SlotsAt
      <3>2. Waiting' = Waiting /\ Taken' = Taken /\ \A n \in SlotsAt : hook'.queue[n] = hook.queue[n]
        BY <2>1, <2>5, <3>1 DEF Waiting, SlotsAt, Taken
      <3>3. Counting' = Counting
        BY <2>1, <2>2, <2>7 DEF Counting, Moves, Callers
      <3>4. Slotted(calls["control"].item)' /\ calls'["control"].at # "count" => calls'["control"] = calls["control"]
        BY <2>2 DEF Moves, Callers
      <3>5. Counted'
        BY <2>1, <3>2, <3>3 DEF Counted
      <3>6. Ordered'
        BY <2>1, <3>1, <3>2, <3>4 DEF Ordered
      <3> QED
        BY <2>4, <3>5, <3>6
    <2> QED
      BY <2>6, <2>7
  <1>8. CASE QueueRefuses(c)
    <2>1. /\ UNCHANGED <<hook.queue, hook.newer, hook.posts, hook.state>> /\ hook'.lock = "none"
          /\ post' = post /\ calls[c].at = "send"
      BY <1>0, <1>8 DEF QueueRefuses, IsHook, HookFields
    <2>2. Moves(c, "idle")
      BY <1>0, <1>8, IdleMoves DEF QueueRefuses
    <2>3. Counted' /\ Ordered'
      BY <2>1, <2>2, CallRests DEF Taken
    <2>4. Holders'
      BY <2>1, <2>2, LockHeld DEF Holders, Locked
    <2> QED
      BY <2>3, <2>4
  <1>9. CASE Counts(c)
    <2>1. /\ UNCHANGED <<hook.queue, hook.posts, hook.state>> /\ hook'.lock = "none"
          /\ post' = post /\ calls[c].at = "count"
          /\ hook'.newer = IF Slotted(calls[c].item) THEN hook.newer + 1 ELSE hook.newer
      BY <1>0, <1>9 DEF Counts, IsHook, HookFields, Slotted
    <2>2. Moves(c, "idle") /\ calls'[c] = NoCall
      BY <1>0, <1>9, IdleMoves DEF Counts
    <2>3. hook.lock = c
      BY <2>1 DEF Holders, Locked
    <2>4. /\ ~Counting' /\ (Counting <=> Slotted(calls[c].item))
      BY <2>1, <2>2 DEF Counting, Holders, Moves, Callers, NoCall, Locked, Slotted
    <2>5. SlotsAt' = SlotsAt /\ Waiting' = Waiting /\ Taken' = Taken
      BY <2>1 DEF SlotsAt, Waiting, Taken
    <2>6. IsFiniteSet(Waiting \cup Taken)
      BY FS_EmptySet, FS_Singleton, FS_Union DEF Counted, Taken
    <2>7. Cardinality(Waiting \cup Taken) \in Nat
      BY <2>6, FS_CardinalityType
    <2>8. Counted'
      BY <2>1, <2>4, <2>5, <2>7 DEF Counted
    <2>9. Ordered'
      BY <2>1, <2>2, <2>5 DEF Ordered, Moves, Callers, NoCall, NoItem, Slotted, HasSlot
    <2>10. post.pc = "gone" => hook'.newer = hook.newer
      BY <2>1, <2>4, <2>7, FS_EmptySet DEF Holders, Counted, Taken, Waiting, SlotsAt
    <2>11. Holders'
      BY <2>1, <2>2, <2>3, <2>10, LockHeld DEF Holders, Locked
    <2> QED
      BY <2>8, <2>9, <2>11
  <1> QED
    BY <1>1, <1>2, <1>3, <1>4, <1>5, <1>6, <1>7, <1>8, <1>9 DEF Caller

\* An event that is posted comes after all before it, and a configuration is none.
LEMMA PostsCount ==
  ASSUME WebhookInv, SlotInv, NEW c \in Callers, NEW kind \in EventKinds(c), Posts(c, kind)
  PROVE  SlotInv'
  <1> USE DEF SlotInv
  <1> DEFINE at == IF kind = "test" THEN "start" ELSE "read"
             x == [NoItem EXCEPT !.id = hook.posts + 1, !.kind = kind]
  <1>0. /\ CallTypeOK /\ IsHook(hook) /\ hook.queue \in Seq(HookItems) /\ hook.posts \in Nat
        /\ calls[c].at = "idle" /\ post' = post /\ post.item \in HookItems
    BY DEF WebhookInv, HookOK, CallsOK, Posts, PostOK, Aimed
  <1>1. UNCHANGED <<hook.queue, hook.newer, hook.state, hook.lock>> /\ hook'.posts = hook.posts + 1
    BY <1>0 DEF Posts, IsHook, HookFields
  <1>2. calls' = [calls EXCEPT ![c] = [calls[c] EXCEPT !.at = at, !.item = x]]
    BY <1>0 DEF Posts, CallTypeOK
  <1>3. x.id = hook.posts + 1 /\ (Slotted(x) => c = "control")
    BY OnlyControlHasStates DEF NoItem, Slotted
  <1>4. at \in {"start", "read"}
    OBVIOUS
  <1> HIDE DEF x, at
  <1>5. /\ \A d \in Callers \ {c} : calls'[d] = calls[d]
        /\ calls'[c].at = at /\ calls'[c].item = x
    BY <1>0, <1>2 DEF CallTypeOK
  <1>6. /\ SlotsAt' = SlotsAt /\ Waiting' = Waiting /\ Taken' = Taken
        /\ \A n \in SlotsAt : hook'.queue[n] = hook.queue[n]
    BY <1>0, <1>1 DEF SlotsAt, Waiting, Taken
  <1>7. (~Counting /\ ~Counting') \/ (c # "control" /\ Counting' = Counting)
    BY <1>0, <1>4, <1>5 DEF Counting, Callers
  <1>8. Counted'
    BY <1>1, <1>6, <1>7 DEF Counted
  <1>9. \A n \in SlotsAt : hook.queue[n].id \in Nat
    <2>1. \A n \in 1 .. Len(hook.queue) : hook.queue[n] \in HookItems
      BY <1>0
    <2> QED
      BY <2>1 DEF SlotsAt, HookItems
  <1>10. post.item.id \in Nat /\ calls["control"].item.id \in Nat
    BY <1>0 DEF HookItems, CallTypeOK, Callers
  <1>11. Ordered'
    <2>1. /\ \A n \in SlotsAt : /\ hook.queue[n].id <= hook.posts + 1
                              /\ \A k \in SlotsAt : k < n => hook.queue[k].id < hook.queue[n].id
          /\ Slotted(post.item) => post.item.id <= hook.posts + 1 /\ \A n \in SlotsAt : post.item.id < hook.queue[n].id
      BY <1>0, <1>9, <1>10 DEF Ordered
    <2>2. CASE c = "control"
      <3>1. /\ \A n \in SlotsAt : hook.queue[n].id < x.id
            /\ Slotted(post.item) => post.item.id < x.id
        BY <1>0, <1>3, <1>9, <1>10 DEF Ordered
      <3> QED
        BY <1>0, <1>1, <1>3, <1>5, <1>6, <2>1, <2>2, <3>1 DEF Ordered
    <2>3. CASE c # "control"
      <3>1. calls'["control"] = calls["control"]
        BY <1>5, <2>3 DEF Callers
      <3>2. Slotted(calls["control"].item) /\ calls["control"].at # "count" => calls["control"].item.id <= hook.posts + 1
        BY <1>0, <1>10 DEF Ordered
      <3> QED
        BY <1>0, <1>1, <1>6, <2>1, <3>1, <3>2 DEF Ordered
    <2> QED
      BY <2>2, <2>3
  <1>12. Holders'
    BY <1>0, <1>1, <1>3, <1>4, <1>5 DEF Holders, Locked
  <1> QED
    BY <1>8, <1>11, <1>12

\* A configuration that is saved leaves the queue and the counter alone.
LEMMA SavesCount ==
  ASSUME WebhookInv, SlotInv, NEW config \in HookConfigs, SavesConfig(config)
  PROVE  SlotInv'
  <1> USE DEF SlotInv
  <1>1. /\ UNCHANGED <<hook.queue, hook.newer, hook.posts, hook.state, hook.lock>>
        /\ post' = post /\ calls["network"].at = "idle" /\ CallTypeOK
    BY DEF SavesConfig, WebhookInv, HookOK, CallsOK, IsHook, HookFields
  <1>2. PICK at \in {"start", "idle"} : Goes("network", at)
    BY DEF SavesConfig
  <1>3. "network" \in Callers /\ Moves("network", at)
    BY <1>1, <1>2, GoesMoves DEF Callers
  <1>4. Counted' /\ Ordered'
    BY <1>1, <1>3, CallRests DEF Taken
  <1>5. Holders'
    BY <1>1, <1>3 DEF Holders, Moves, Locked
  <1> QED
    BY <1>4, <1>5

\* The worker, away from the queue.
LEMMA WorkerRests ==
  ASSUME SlotInv, UNCHANGED <<calls, hook.queue, hook.newer, hook.posts, hook.state, hook.lock>>,
         Taken' = Taken, post'.pc = "gone" <=> post.pc = "gone",
         Slotted(post.item)' => post'.item = post.item
  PROVE  SlotInv'
  <1>1. Counting' = Counting
    BY DEF Counting
  <1>2. Counted' /\ Ordered'
    BY <1>1, StatesRest DEF SlotInv
  <1>3. Holders'
    BY DEF Holders, SlotInv
  <1> QED
    BY <1>2, <1>3 DEF SlotInv

\* What a step does to the worker's record that does not take an event.
Passes ==
  /\ hook' = hook \/ \E b : hook' = [hook EXCEPT !.cleanup = b]
  /\ calls' = calls
  /\ post.pc \notin {"uncount", "gone"} /\ post'.pc \notin {"uncount", "gone"}
  /\ post'.item \in {post.item, NoItem}

\* A step of the worker that leaves the queue and the counter alone keeps what is counted.
LEMMA PassesRest ==
  ASSUME WebhookInv, SlotInv, Passes
  PROVE  SlotInv'
  <1>1. UNCHANGED <<calls, hook.queue, hook.newer, hook.posts, hook.state, hook.lock>>
    BY DEF Passes, WebhookInv, HookOK, IsHook, HookFields
  <1>2. Slotted(post.item)' => post'.item = post.item
    BY DEF Passes, Slotted, HasSlot, NoItem
  <1>3. Taken' = Taken
    BY DEF Passes, Taken
  <1> QED
    BY <1>1, <1>2, <1>3, WorkerRests DEF Passes

\* Every other step of the worker passes.
LEMMA WorkerPasses ==
  ASSUME WebhookInv,
         \/ TopOfLoop \/ WaitsInVain \/ Supersedes \/ HoldsBack \/ DropsStale \/ Prepares \/ Resolves
         \/ HeadersGo \/ EndsPass
         \/ \E answer : Performed(answer)
         \/ \E answer : EndsRequest(answer) /\ post.pc \in {"decide", "resolve", "judge"}
  PROVE  Passes
  <1>1. IsPost(post) /\ post.item \in HookItems
    BY DEF WebhookInv, PostOK, Aimed
  <1>2. /\ Rests(post).pc = "drain" /\ Rests(post).item = post.item
        /\ Forgets(post).pc = "drain" /\ Forgets(post).item = NoItem
        /\ [Rests(post) EXCEPT !.failures = @ + 1, !.due = FALSE].pc = "drain"
        /\ [Rests(post) EXCEPT !.failures = @ + 1, !.due = FALSE].item = post.item
    <2> DEFINE p == Rests(post)
    <2>1. IsPost(p) /\ p.item = post.item /\ p.pc = "drain"
      BY <1>1 DEF IsPost, PostFields, Rests
    <2>2. Forgets(post) = [p EXCEPT !.have = FALSE, !.failures = 0, !.due = FALSE, !.item = NoItem]
      BY DEF Forgets
    <2> HIDE DEF p
    <2>3. /\ Forgets(post).pc = "drain" /\ Forgets(post).item = NoItem
          /\ [p EXCEPT !.failures = @ + 1, !.due = FALSE].pc = "drain"
          /\ [p EXCEPT !.failures = @ + 1, !.due = FALSE].item = post.item
      BY <2>1, <2>2 DEF IsPost, PostFields
    <2> QED
      BY <2>1, <2>3 DEF p
  <1>3. CASE TopOfLoop
    <2> DEFINE client == IF hook.cleanup THEN NoUrl ELSE post.client
               pc == CASE post.have -> "decide"
                       [] ~post.have /\ DispatchAllowed -> "receive"
                       [] OTHER -> "drain"
    <2>1. /\ post' = [post EXCEPT !.client = client, !.pc = pc] /\ post.pc = "top" /\ calls' = calls
          /\ hook' = [hook EXCEPT !.cleanup = FALSE]
      BY <1>3 DEF TopOfLoop
    <2>2. pc \in {"decide", "receive", "drain"}
      OBVIOUS
    <2> HIDE DEF client, pc
    <2>3. post'.pc = pc /\ post'.item = post.item
      BY <1>1, <2>1 DEF IsPost, PostFields
    <2> QED
      BY <2>1, <2>2, <2>3 DEF Passes
  <1>4. CASE WaitsInVain \/ HoldsBack \/ EndsPass
    <2>1. /\ UNCHANGED <<hook, calls>> /\ post.pc \in {"receive", "decide", "drain"}
          /\ \E pc \in {"drain", "stop", "top"} : post' = [post EXCEPT !.pc = pc]
      BY <1>4 DEF WaitsInVain, HoldsBack, EndsPass
    <2>2. post'.pc \in {"drain", "stop", "top"} /\ post'.item = post.item
      BY <1>1, <2>1 DEF IsPost, PostFields
    <2> QED
      BY <2>1, <2>2 DEF Passes
  <1>5. CASE Supersedes \/ DropsStale
    BY <1>2, <1>5 DEF Supersedes, DropsStale, Sends, Passes
  <1>6. CASE Prepares \/ Resolves \/ HeadersGo
    <2>1. /\ UNCHANGED <<hook, calls>> /\ post.pc \in {"decide", "resolve", "perform"}
          /\ post'.pc \in {"resolve", "perform"} /\ post'.item = post.item
      BY <1>1, <1>6 DEF Prepares, Sends, Resolves, HeadersGo, IsPost, PostFields
    <2> QED
      BY <2>1 DEF Passes
  <1>7. ASSUME NEW answer, Performed(answer) PROVE Passes
    <2>1. /\ UNCHANGED <<hook, calls>> /\ post.pc = "perform" /\ post'.pc = "judge" /\ post'.item = post.item
      BY <1>1, <1>7 DEF Performed, IsPost, PostFields
    <2> QED
      BY <2>1 DEF Passes
  <1>8. ASSUME NEW answer, EndsRequest(answer), post.pc \in {"decide", "resolve", "judge"} PROVE Passes
    <2>1. UNCHANGED <<hook, calls>> /\ post' \in {Rests(post), Forgets(post),
                        [Rests(post) EXCEPT !.failures = @ + 1, !.due = FALSE]}
      BY <1>8 DEF EndsRequest
    <2> QED
      BY <1>2, <1>8, <2>1 DEF Passes
  <1> QED
    BY <1>3, <1>4, <1>5, <1>6, <1>7, <1>8

\* The state at the head of the queue is taken, and counted until the next step.
LEMMA ReceivesCounts ==
  ASSUME WebhookInv, SlotInv, Receives
  PROVE  SlotInv'
  <1> USE DEF SlotInv
  <1> DEFINE x == Head(hook.queue)
             len == Len(hook.queue)
  <1>1. /\ hook.queue \in Seq(HookItems) /\ IsPost(post) /\ calls' = calls /\ post.pc = "receive"
        /\ UNCHANGED <<hook.newer, hook.posts, hook.state, hook.lock>> /\ hook'.queue = Tail(hook.queue)
        /\ hook.queue # <<>> /\ hook.posts \in Nat
    BY DEF WebhookInv, HookOK, PostOK, Aimed, Receives, IsHook, HookFields
  <1>2. post'.pc = "uncount" /\ post'.item = x
    BY <1>1 DEF Receives, IsPost, PostFields
  <1>3. /\ len \in Nat \ {0} /\ x = hook.queue[1] /\ Len(Tail(hook.queue)) = len - 1
        /\ \A n \in 1 .. len - 1 : Tail(hook.queue)[n] = hook.queue[n + 1]
    BY <1>1
  <1>4. SlotsAt' = {n \in 1 .. len - 1 : Slotted(hook.queue[n + 1])}
        /\ \A n \in SlotsAt' : hook'.queue[n] = hook.queue[n + 1] /\ n + 1 \in SlotsAt /\ n \in Nat /\ 1 < n + 1
    BY <1>1, <1>3 DEF SlotsAt
  <1>5. Waiting' \cup Taken' = Waiting \cup Taken
    <2>1. Taken = {} /\ Taken' = IF Slotted(x) THEN {x.id} ELSE {}
      BY <1>1, <1>2 DEF Taken, Slotted
    <2>2. Waiting' \subseteq Waiting
      BY <1>4 DEF Waiting
    <2>3. \A n \in SlotsAt : hook.queue[n].id \in Waiting' \/ (Slotted(x) /\ hook.queue[n].id = x.id)
      <3>1. ASSUME NEW n \in SlotsAt', hook'.queue[n] = hook.queue[n + 1] PROVE hook.queue[n + 1].id \in Waiting'
        BY <3>1 DEF Waiting
      <3>2. ASSUME NEW n \in SlotsAt, n = 1 PROVE Slotted(x) /\ hook.queue[n].id = x.id
        BY <1>3, <3>2 DEF SlotsAt
      <3>3. ASSUME NEW n \in SlotsAt, n # 1 PROVE n - 1 \in SlotsAt' /\ n = (n - 1) + 1
        BY <1>3, <1>4, <3>3 DEF SlotsAt
      <3> QED
        BY <1>4, <3>1, <3>2, <3>3
    <2>4. Slotted(x) => x.id \in Waiting
      <3>1. Slotted(x) => 1 \in SlotsAt
        BY <1>3 DEF SlotsAt
      <3> QED
        BY <1>3, <3>1 DEF Waiting
    <2>5. Waiting \subseteq Waiting' \cup Taken'
      BY <2>1, <2>3 DEF Waiting
    <2> QED
      BY <2>1, <2>2, <2>4, <2>5
  <1>6. IsFiniteSet(Waiting')
    <2>1. Waiting' \subseteq Waiting
      BY <1>4 DEF Waiting
    <2> QED
      BY <2>1, FS_Subset DEF Counted
  <1>7. Counted'
    BY <1>1, <1>5, <1>6 DEF Counted, Counting
  <1>8. Ordered'
    <2>1. \A n \in SlotsAt' : /\ hook'.queue[n].id <= hook.posts
                             /\ \A k \in SlotsAt' : k < n => hook'.queue[k].id < hook'.queue[n].id
      BY <1>4 DEF Ordered
    <2>2. Slotted(x) => /\ 1 \in SlotsAt
                        /\ x.id <= hook.posts /\ \A n \in SlotsAt' : x.id < hook'.queue[n].id
      <3>1. Slotted(x) => 1 \in SlotsAt
        BY <1>3 DEF SlotsAt
      <3> QED
        BY <1>3, <1>4, <3>1 DEF Ordered
    <2>3. Slotted(calls["control"].item) /\ calls["control"].at # "count" =>
            /\ calls["control"].item.id <= hook.posts
            /\ \A n \in SlotsAt' : hook'.queue[n].id < calls["control"].item.id
            /\ Slotted(x) => x.id < calls["control"].item.id
      BY <1>3, <1>4, <2>2 DEF Ordered
    <2> HIDE DEF x
    <2> QED
      BY <1>1, <1>2, <2>1, <2>2, <2>3 DEF Ordered
  <1>9. Holders'
    BY <1>1, <1>2, <1>3 DEF Holders
  <1> QED
    BY <1>7, <1>8, <1>9

\* The worker stops counting the state it took, which waits no more.
LEMMA UncountsCounts ==
  ASSUME WebhookInv, SlotInv, Uncounts
  PROVE  SlotInv'
  <1> USE DEF SlotInv
  <1>1. /\ IsPost(post) /\ calls' = calls /\ post.pc = "uncount" /\ post.item \in HookItems
        /\ UNCHANGED <<hook.queue, hook.posts, hook.state, hook.lock>> /\ hook.queue \in Seq(HookItems)
        /\ hook'.newer = IF Slotted(post.item) THEN hook.newer - 1 ELSE hook.newer
    BY DEF WebhookInv, HookOK, PostOK, Aimed, Uncounts, IsHook, HookFields, Slotted
  <1>2. post'.pc = "decide" /\ post'.item = post.item
    BY <1>1 DEF Uncounts, IsPost, PostFields
  <1>3. SlotsAt' = SlotsAt /\ Waiting' = Waiting /\ Taken' = {} /\ Counting' = Counting
        /\ Taken = IF Slotted(post.item) THEN {post.item.id} ELSE {}
    BY <1>1, <1>2 DEF SlotsAt, Waiting, Taken, Counting
  <1>4. Slotted(post.item) => post.item.id \notin Waiting
    <2>1. \A n \in SlotsAt : hook.queue[n].id \in Nat
      <3>1. \A n \in 1 .. Len(hook.queue) : hook.queue[n] \in HookItems
        BY <1>1
      <3> QED
        BY <3>1 DEF SlotsAt, HookItems
    <2>2. post.item.id \in Nat
      BY <1>1 DEF HookItems
    <2>3. Slotted(post.item) => \A n \in SlotsAt : hook.queue[n].id # post.item.id
      BY <2>1, <2>2 DEF Ordered
    <2> QED
      BY <2>3 DEF Waiting
  <1>5. IsFiniteSet(Waiting) /\ Cardinality(Waiting) \in Nat
    BY FS_CardinalityType DEF Counted
  <1>6. Cardinality(Waiting \cup Taken) = Cardinality(Waiting) + (IF Slotted(post.item) THEN 1 ELSE 0)
    <2>1. CASE Slotted(post.item)
      BY <1>3, <1>4, <1>5, <2>1, FS_AddElement
    <2>2. CASE ~Slotted(post.item)
      <3>1. Waiting \cup Taken = Waiting
        BY <1>3, <2>2
      <3>2. Cardinality(Waiting \cup Taken) = Cardinality(Waiting)
        BY <3>1
      <3> QED
        BY <1>5, <2>2, <3>2
    <2> QED
      BY <2>1, <2>2
  <1>7. Waiting' \cup Taken' = Waiting
    BY <1>3
  <1>8. Counted'
    <2>1. Cardinality(Waiting' \cup Taken') = Cardinality(Waiting)
      BY <1>7
    <2>2. hook'.newer = Cardinality(Waiting) - (IF Counting THEN 1 ELSE 0)
      BY <1>1, <1>5, <1>6 DEF Counted
    <2> QED
      BY <1>3, <1>5, <2>1, <2>2 DEF Counted
  <1>9. Ordered'
    BY <1>1, <1>2, <1>3 DEF Ordered
  <1>10. Holders'
    BY <1>1, <1>2 DEF Holders
  <1> QED
    BY <1>8, <1>9, <1>10

\* A worker that stops leaves no state behind and nobody counting.
LEMMA EndCounts ==
  ASSUME WebhookInv, SlotInv, StopsAfterDrain \/ Releases
  PROVE  SlotInv'
  <1> USE DEF SlotInv
  <1>0. IsPost(post) /\ IsHook(hook)
    BY DEF WebhookInv, PostOK, Aimed, HookOK
  <1>1. CASE StopsAfterDrain
    <2>1. /\ calls' = calls /\ post.pc = "stop" /\ UNCHANGED <<hook.queue, hook.newer, hook.posts, hook.lock>>
          /\ hook'.state = IF MayStop THEN "STOPPING" ELSE hook.state
          /\ post' = [post EXCEPT !.pc = IF MayStop THEN "release" ELSE "top"]
      BY <1>0, <1>1 DEF StopsAfterDrain, IsHook, HookFields
    <2>2. post'.pc \in {"release", "top"} /\ post'.item = post.item
      BY <1>0, <2>1 DEF IsPost, PostFields
    <2>3. hook.state \notin {"STOPPED", "STARTING"}
      BY <2>1 DEF Holders
    <2>4. hook'.state \notin {"STOPPED", "STARTING"} /\ (hook'.state = "STARTING" <=> hook.state = "STARTING")
      BY <2>1, <2>3
    <2>5. Counted' /\ Ordered'
      BY <2>1, <2>2, StatesRest DEF Taken, Counting
    <2>6. Holders'
      BY <2>1, <2>2, <2>3, <2>4 DEF Holders
    <2> QED
      BY <2>5, <2>6
  <1>2. CASE Releases
    <2>1. /\ calls' = calls /\ post.pc = "release" /\ hook'.queue = <<>> /\ hook'.newer = 0
          /\ UNCHANGED <<hook.posts, hook.lock>> /\ hook'.state = "STOPPED" /\ Free
          /\ post' = [post EXCEPT !.client = NoUrl, !.pc = "gone"]
      BY <1>0, <1>2 DEF Releases, IsHook, HookFields
    <2>2. post'.pc = "gone" /\ post'.item = post.item
      BY <1>0, <2>1 DEF IsPost, PostFields
    <2>3. \A c \in Callers : calls[c].at \notin Locked
      BY <2>1 DEF Holders, Free, Callers
    <2>4. SlotsAt' = {}
      BY <2>1 DEF SlotsAt
    <2>5. Waiting' = {} /\ Taken' = {} /\ ~Counting'
      BY <2>1, <2>2, <2>3, <2>4 DEF Waiting, Taken, Counting, Locked, Callers
    <2>6. Counted'
      <3>1. Waiting' \cup Taken' = {}
        BY <2>5
      <3> QED
        BY <2>1, <2>5, <3>1, FS_EmptySet DEF Counted
    <2>7. Ordered'
      BY <2>1, <2>2, <2>4 DEF Ordered
    <2>8. Holders'
      BY <2>1, <2>2, <2>3 DEF Holders, Locked
    <2> QED
      BY <2>6, <2>7, <2>8
  <1> QED
    BY <1>1, <1>2

\* Every step keeps what is counted.
LEMMA StatesAreCounted ==
  ASSUME WebhookInv, SlotInv, [WebhookNext]_webhookVars
  PROVE  SlotInv'
  <1>1. ASSUME NEW c \in Callers, Caller(c) PROVE SlotInv'
    BY <1>1, CallersCount
  <1>2. ASSUME NEW c \in Callers, NEW kind \in EventKinds(c), Posts(c, kind) PROVE SlotInv'
    BY <1>2, PostsCount
  <1>3. ASSUME NEW config \in HookConfigs, SavesConfig(config) PROVE SlotInv'
    BY <1>3, SavesCount
  <1>4. CASE Worker
    <2>1. CASE Receives
      BY <2>1, ReceivesCounts
    <2>2. CASE Uncounts
      BY <2>2, UncountsCounts
    <2>3. CASE StopsAfterDrain \/ Releases
      BY <2>3, EndCounts
    <2>4. CASE ~(Receives \/ Uncounts \/ StopsAfterDrain \/ Releases)
      BY <1>4, <2>4, WorkerPasses, PassesRest
      DEF Worker, FailsOffline, NotResolved, NoClient, Judges, Sends
    <2> QED
      BY <2>1, <2>2, <2>3, <2>4
  <1>5. CASE BackoffEnds \/ Gate
    <2>1. UNCHANGED <<hook, calls>> /\ (post' = post \/ (\E f : post' = [post EXCEPT !.fenced = f])
                                        \/ post' = [post EXCEPT !.due = TRUE])
      BY <1>5 DEF BackoffEnds, Gate, ShotBegins, ShotEnds, AcquisitionBegins, AcquisitionEnds, WifiLost,
                  WifiBack, Closes, Opens, Fences
    <2>2. post'.pc = post.pc /\ post'.item = post.item
      BY <2>1 DEF WebhookInv, PostOK, Aimed, IsPost, PostFields
    <2> QED
      BY <2>1, <2>2, WorkerRests DEF Taken
  <1>6. CASE UNCHANGED webhookVars
    BY <1>6, WorkerRests DEF webhookVars, Taken
  <1> QED
    BY <1>1, <1>2, <1>3, <1>4, <1>5, <1>6 DEF WebhookNext

\* What a step makes of an event; only one of the worker calls it superseded.
LEMMA FatesAre ==
  ASSUME [WebhookNext]_webhookVars
  PROVE  \/ fate' = fate
         \/ \E x, end : end # "superseded" /\ Becomes(x, end)
         \/ Supersedes
  <1>1. ASSUME NEW c \in Callers, Caller(c) PROVE fate' = fate \/ \E x, end : end # "superseded" /\ Becomes(x, end)
    BY <1>1 DEF Caller, StartTakes, WorkerRuns, WorkerRefused, StartGives, ReadsConfig, TriesLock, LockIsTaken,
                SendsToQueue, QueueRefuses, Counts
  <1>2. ASSUME NEW c \in Callers, NEW kind \in EventKinds(c), Posts(c, kind) PROVE fate' = fate
    BY <1>2 DEF Posts
  <1>3. ASSUME NEW config \in HookConfigs, SavesConfig(config) PROVE fate' = fate
    BY <1>3 DEF SavesConfig
  <1>4. ASSUME NEW answer, EndsRequest(answer) PROVE fate' = fate \/ \E x, end : end # "superseded" /\ Becomes(x, end)
    BY <1>4 DEF EndsRequest
  <1>5. ASSUME Worker, ~Supersedes PROVE fate' = fate \/ \E x, end : end # "superseded" /\ Becomes(x, end)
    BY <1>4, <1>5 DEF Worker, TopOfLoop, Receives, WaitsInVain, Uncounts, HoldsBack, DropsStale, Prepares,
       FailsOffline, Resolves, NotResolved, NoClient, HeadersGo, Performed, Judges, EndsPass, StopsAfterDrain,
       Releases
  <1>6. CASE BackoffEnds \/ Gate
    BY <1>6 DEF BackoffEnds, Gate, ShotBegins, ShotEnds, AcquisitionBegins, AcquisitionEnds, WifiLost, WifiBack,
                Closes, Opens
  <1>7. CASE UNCHANGED webhookVars
    BY <1>7 DEF webhookVars
  <1> QED
    BY <1>1, <1>2, <1>3, <1>5, <1>6, <1>7 DEF WebhookNext

\* A state is given up only while a newer one waits (task(), newer_), however many
\* events are posted, whatever the queue holds, and wherever a worker was stopped
\* and started again.
THEOREM SupersededHaveSuccessors == WebhookSpec => SupersededHasSuccessor
  <1> DEFINE IsFate == fate = [i \in 1 .. MaxPosts |-> fate[i]]
  <1>1. WebhookInit => SlotInv /\ IsFate
    <2> SUFFICES ASSUME WebhookInit PROVE SlotInv /\ IsFate
      OBVIOUS
    <2>1. /\ hook.queue = <<>> /\ hook.newer = 0 /\ hook.lock = "none"
          /\ hook.state \in {"READY", "STOPPED"} /\ (hook.state = "READY" <=> hook.config.enabled)
          /\ post.pc = (IF hook.config.enabled THEN "top" ELSE "gone") /\ post.item = NoItem
          /\ \A c \in Callers : calls[c] = NoCall
      BY WebhookAssumption DEF WebhookInit
    <2>2. SlotsAt = {} /\ ~Slotted(NoItem) /\ NoCall.item = NoItem /\ NoCall.at = "idle"
      BY <2>1 DEF SlotsAt, Slotted, HasSlot, NoItem, NoCall
    <2>3. Waiting = {} /\ Taken = {} /\ ~Counting
      BY <2>1, <2>2 DEF Waiting, Taken, Counting, Callers
    <2>4. Counted
      <3>1. Waiting \cup Taken = {}
        BY <2>3
      <3> QED
        BY <2>1, <2>3, <3>1, FS_EmptySet DEF Counted
    <2>5. Ordered
      BY <2>1, <2>2 DEF Ordered, Callers
    <2>6. Holders
      BY <2>1, <2>2 DEF Holders, Locked
    <2>7. IsFate
      BY DEF WebhookInit
    <2> QED
      BY <2>4, <2>5, <2>6, <2>7 DEF SlotInv
  <1>2. WebhookInv /\ SlotInv /\ [WebhookNext]_webhookVars => SlotInv'
    BY StatesAreCounted
  <1>3. IsFate /\ [WebhookNext]_webhookVars => IsFate'
    BY FatesAre DEF Becomes, Supersedes
  <1>4. ASSUME WebhookInv, SlotInv, IsFate, [WebhookNext]_webhookVars,
               NEW i \in 1 .. MaxPosts, fate[i] # "superseded", fate'[i] = "superseded"
        PROVE  \E n \in 1 .. Len(hook.queue) : HasSlot(hook.queue[n].kind) /\ hook.queue[n].id > i
    <2>1. Supersedes /\ i = post.item.id
      BY <1>4, FatesAre DEF Becomes, Supersedes
    <2>2. post.pc = "decide" /\ Slotted(post.item) /\ hook.newer > 0
      BY <2>1 DEF Supersedes, IsSuperseded, Slotted
    <2>3. Waiting # {}
      <3>1. Taken = {}
        BY <2>2 DEF Taken
      <3>2. ASSUME Waiting = {} PROVE FALSE
        <4>1. Waiting \cup Taken = {}
          BY <3>1, <3>2
        <4>2. Cardinality(Waiting \cup Taken) = 0
          BY <4>1, FS_EmptySet
        <4> QED
          BY <1>4, <2>2, <4>2 DEF SlotInv, Counted
      <3> QED
        BY <3>2
    <2>4. PICK n \in SlotsAt : TRUE
      BY <2>3 DEF Waiting
    <2>5. hook.queue[n].id \in Nat /\ n \in 1 .. Len(hook.queue)
      <3>1. hook.queue \in Seq(HookItems) /\ n \in 1 .. Len(hook.queue)
        BY <1>4 DEF WebhookInv, HookOK, SlotsAt
      <3>2. hook.queue[n] \in HookItems
        BY <3>1
      <3> QED
        BY <3>1, <3>2 DEF HookItems
    <2>6. post.item.id < hook.queue[n].id
      BY <1>4, <2>2 DEF SlotInv, Ordered
    <2>7. HasSlot(hook.queue[n].kind)
      BY DEF SlotsAt, Slotted
    <2>8. hook.queue[n].id > i
      BY <2>1, <2>5, <2>6
    <2> QED
      BY <2>5, <2>7, <2>8
  <1>5. WebhookInv /\ SlotInv /\ IsFate /\ [WebhookNext]_webhookVars =>
          [\A i \in 1 .. MaxPosts :
             fate[i] # "superseded" /\ fate'[i] = "superseded" =>
               \E n \in 1 .. Len(hook.queue) :
                  HasSlot(hook.queue[n].kind) /\ hook.queue[n].id > i]_webhookVars
    BY <1>4
  <1> HIDE DEF IsFate
  <1> QED
    BY WebhookInvariance, <1>1, <1>2, <1>3, <1>5, PTL DEF WebhookSpec, SupersededHasSuccessor

-----------------------------------------------------------------------------
(* Wi-Fi. *)

WifiFields == {"c", "link", "trying", "sta", "ap", "phase", "grace", "window", "ask", "started",
               "ever", "staHeld", "apHeld", "httpHeld", "exhausted", "server", "restart",
               "apRestart", "clients", "scan", "requested", "scanLease", "lease", "cmd",
               "attempts", "proven", "dropped", "fallback"}
IsWifi(r) == r = [f \in WifiFields |-> r[f]] /\ r.c = [f \in {"sta", "pending", "lkg"} |-> r.c[f]]

\* A configuration on probation that was not joined yet is about to be tried, by a
\* restart or by the live apply, or the station has no link but to it.
Untried(r) == r.c.pending = TRUE /\ r.proven # TRUE /\ r.dropped # TRUE
Awaited(r) ==
    \/ r.restart = TRUE \/ r.phase = "QUEUED"
    \/ r.link = None /\ r.trying \in {None, r.c.sta} /\ r.sta # "CONNECTED"
Sound(r) == IsWifi(r) /\ (Untried(r) => Awaited(r))
Follows(r, n) == Sound(n) /\ n.restart = r.restart

WifiInv == Sound(w) /\ (w.restart = TRUE => wpc = "commands")

\* Most events of the onboarding leave the configuration alone.
LEMMA AdvanceFollows ==
  ASSUME NEW r, Sound(r), NEW e, e \notin {"APPLY_RESTARTS", "ATTEMPT_STARTED", "REVERTED", "CONFIRMED"}
  PROVE  Follows(r, Advance(r, e))
  <1>1. r.phase = "QUEUED" => NextPhase(r.phase, e) = "QUEUED"
    BY DEF NextPhase
  <1>2. Advance(r, e) = [r EXCEPT !.phase = NextPhase(r.phase, e)]
    BY DEF Advance
  <1> HIDE DEF NextPhase
  <1> QED
    BY Zenon, <1>1, <1>2 DEF Follows, Sound, IsWifi, WifiFields, Untried, Awaited

\* A scan, aborted or over, says nothing of the configuration.
LEMMA AbortScanFollows ==
  ASSUME NEW r, Sound(r)
  PROVE  Follows(r, AbortScan(r)) /\ Follows(r, ScanEnds(r))
  BY Zenon DEF AbortScan, ScanEnds, Follows, Sound, IsWifi, WifiFields, Untried, Awaited

\* Neither does a disconnection.
LEMMA DisconnectFollows ==
  ASSUME NEW r, Sound(r)
  PROVE  Follows(r, Disconnect(r))
  BY DEF Disconnect, Follows, Sound, IsWifi, WifiFields, Untried, Awaited

\* Nor the server's start.
LEMMA StartHttpFollows ==
  ASSUME NEW r, Sound(r), NEW works
  PROVE  Follows(r, StartHttp(r, works))
  BY DEF StartHttp, Follows, Sound, IsWifi, WifiFields, Untried, Awaited

\* Nor the end of the access point.
LEMMA StopSoftApFollows ==
  ASSUME NEW r, Sound(r), NEW stopHttp
  PROVE  Follows(r, StopSoftAp(r, stopHttp))
  <1> DEFINE s == [r EXCEPT !.ap = FALSE, !.clients = FALSE, !.grace = FALSE,
                            !.server = @ /\ ~stopHttp]
  <1>1. Follows(r, s)
    BY DEF Follows, Sound, IsWifi, WifiFields, Untried, Awaited
  <1>2. Follows(s, Advance(s, "AP_STOPPED"))
    BY <1>1, AdvanceFollows DEF Follows
  <1>3. StopSoftAp(r, stopHttp) \in {r, Advance(s, "AP_STOPPED")}
    BY DEF StopSoftAp
  <1> QED
    BY <1>1, <1>2, <1>3 DEF Follows

\* Nor its start.
LEMMA EnsureSoftApFollows ==
  ASSUME NEW r, Sound(r), NEW force, NEW works
  PROVE  Follows(r, EnsureSoftAp(r, force, works)[2])
  <1>1. Follows(r, RaiseSoftAp(r, works)[2])
    <2> DEFINE s == AbortScan(r)
               q == IF Configured(s) THEN s ELSE Disconnect(s)
               linkUp == Configured(s) /\ s.link # None
               sta == CASE ~Configured(s) -> "NONE"
                        [] Configured(s) /\ q.sta = "CONNECTED" /\ ~linkUp -> "DISCONNECTED"
                        [] OTHER -> q.sta
               keep == (s.server /\ ~s.httpHeld /\ linkUp) \/ (works /\ ~s.httpHeld)
               t == [q EXCEPT !.server = keep, !.ap = works, !.clients = FALSE,
                              !.grace = FALSE, !.sta = sta]
    <2>1. Follows(r, q)
      BY AbortScanFollows, DisconnectFollows DEF Follows
    <2>2. sta = "CONNECTED" => q.sta = "CONNECTED"
      OBVIOUS
    <2>3. RaiseSoftAp(r, works)[2] = t
      BY DEF RaiseSoftAp
    <2> HIDE DEF q, sta, keep
    <2>4. Follows(q, t)
      BY Zenon, <2>1, <2>2 DEF Follows, Sound, IsWifi, WifiFields, Untried, Awaited
    <2> QED
      BY <2>1, <2>3, <2>4 DEF Follows
  <1>2. EnsureSoftAp(r, force, works)[2] \in {r, RaiseSoftAp(r, works)[2]}
    <2>1. EnsureSoftAp(r, force, works) \in {<<TRUE, r>>, <<FALSE, r>>, RaiseSoftAp(r, works)}
      BY DEF EnsureSoftAp
    <2>2. <<TRUE, r>>[2] = r /\ <<FALSE, r>>[2] = r
      OBVIOUS
    <2> QED
      BY <2>1, <2>2
  <1>3. Follows(r, r)
    BY DEF Follows
  <1> QED
    BY <1>1, <1>2, <1>3

\* A station that connects goes for the configuration it has.
JoinBegun(r, b) ==
  b[1] = TRUE => b[2].trying = r.c.sta /\ b[2].link = None /\ b[2].sta = "CONNECTING"
                 /\ b[2].c = r.c

\* An attempt that begins drops the link and tries the saved configuration.
LEMMA BeginConnectFollows ==
  ASSUME NEW r, Sound(r), NEW rf, NEW works, NEW b \in BeginConnect(r, rf, works)
  PROVE  Follows(r, b[2]) /\ JoinBegun(r, b)
  <1> DEFINE q == Disconnect(AbortScan(r))
             s == [q EXCEPT !.sta = "CONNECTING"]
  <1>1. Follows(r, q) /\ q.c = r.c /\ q.trying = None /\ q.link = None
    <2>1. Follows(r, AbortScan(r)) /\ AbortScan(r).c = r.c
      BY Zenon, AbortScanFollows DEF AbortScan, ScanEnds, Sound, IsWifi, WifiFields
    <2> QED
      BY Zenon, <2>1, DisconnectFollows DEF Disconnect, Follows, Sound, IsWifi, WifiFields
  <1>2. \/ b[1] = FALSE /\ b[2] \in {r, s, [s EXCEPT !.sta = "DISCONNECTED"]}
        \/ b[1] = TRUE /\ b[2] = [s EXCEPT !.trying = s.c.sta]
    <2>1. b \in {<<FALSE, r>>, <<TRUE, [s EXCEPT !.trying = s.c.sta]>>, <<FALSE, s>>,
                 <<FALSE, [s EXCEPT !.sta = "DISCONNECTED"]>>}
      BY DEF BeginConnect
    <2> DEFINE x == [s EXCEPT !.trying = s.c.sta]
               y == [s EXCEPT !.sta = "DISCONNECTED"]
    <2>2. b \in {<<FALSE, r>>, <<TRUE, x>>, <<FALSE, s>>, <<FALSE, y>>}
      BY <2>1
    <2> HIDE DEF s, x, y
    <2>3. \/ b[1] = FALSE /\ b[2] \in {r, s, y}
          \/ b[1] = TRUE /\ b[2] = x
      <3>1. CASE b = <<FALSE, r>>
        BY <3>1
      <3>2. CASE b = <<TRUE, x>>
        BY <3>2
      <3>3. CASE b = <<FALSE, s>>
        BY <3>3
      <3>4. CASE b = <<FALSE, y>>
        BY <3>4
      <3> QED
        BY <2>2, <3>1, <3>2, <3>3, <3>4
    <2> QED
      BY <2>3 DEF x, y
  <1> HIDE DEF q
  <1>3. Follows(q, s) /\ Follows(q, [s EXCEPT !.sta = "DISCONNECTED"])
    BY <1>1 DEF Follows, Sound, IsWifi, WifiFields, Untried, Awaited
  <1>4. Follows(q, [s EXCEPT !.trying = s.c.sta])
    BY <1>1 DEF Follows, Sound, IsWifi, WifiFields, Untried, Awaited
  <1>5. LET n == [s EXCEPT !.trying = s.c.sta]
        IN  n.trying = r.c.sta /\ n.link = None /\ n.sta = "CONNECTING" /\ n.c = r.c
    BY <1>1 DEF Follows, Sound, IsWifi, WifiFields
  <1>6. Follows(r, r)
    BY DEF Follows
  <1>7. CASE b[1] = FALSE /\ b[2] \in {r, s, [s EXCEPT !.sta = "DISCONNECTED"]}
    <2> HIDE DEF s
    <2> QED
      BY <1>1, <1>3, <1>6, <1>7 DEF Follows, JoinBegun
  <1>8. CASE b[1] = TRUE /\ b[2] = [s EXCEPT !.trying = s.c.sta]
    <2> HIDE DEF s
    <2> QED
      BY <1>1, <1>4, <1>5, <1>8 DEF Follows, JoinBegun
  <1> QED
    BY <1>2, <1>7, <1>8

\* The start of the network follows, whichever of its halves fails.
LEMMA StartNetworkFollows ==
  ASSUME NEW r, Sound(r), NEW rf, NEW works, NEW n \in StartNetwork(r, rf, works)
  PROVE  Follows(r, n[2])
  <1>1. ASSUME NEW s \in StartStation(r, rf, works)
        PROVE  Follows(r, s)
    <2> DEFINE q == AbortScan(r)
               u == [q EXCEPT !.ap = FALSE, !.clients = FALSE, !.grace = FALSE,
                              !.server = FALSE, !.window = FALSE, !.sta = "CONNECTING"]
    <2>1. Follows(r, q)
      BY AbortScanFollows
    <2>2. PICK b \in BeginConnect(u, rf, works) :
            s = IF ~b[1] /\ b[2].sta = "CONNECTING"
                  THEN [b[2] EXCEPT !.sta = "DISCONNECTED"] ELSE b[2]
      BY <1>1 DEF StartStation
    <2> HIDE DEF q
    <2>3. Follows(q, u)
      BY Zenon, <2>1 DEF Follows, Sound, IsWifi, WifiFields, Untried, Awaited
    <2> HIDE DEF u
    <2>4. Follows(u, b[2])
      <3>1. Sound(u) /\ b \in BeginConnect(u, rf, works)
        BY <2>2, <2>3 DEF Follows
      <3> QED
        BY <3>1, BeginConnectFollows
    <2>5. Follows(b[2], [b[2] EXCEPT !.sta = "DISCONNECTED"])
      BY <2>4 DEF Follows, Sound, IsWifi, WifiFields, Untried, Awaited
    <2> QED
      BY <2>1, <2>2, <2>3, <2>4, <2>5 DEF Follows
  <1>2. ASSUME NEW s, Follows(r, s), NEW x, NEW y
        PROVE  Follows(r, [s EXCEPT !.started = x, !.fallback = y])
    BY <1>2 DEF Follows, Sound, IsWifi, WifiFields, Untried, Awaited
  <1>3. CASE Configured(r)
    <2>1. PICK s \in StartStation(r, rf, works) :
            n = <<TRUE, [s EXCEPT !.started = TRUE, !.fallback = FALSE]>>
      BY Zenon, <1>3 DEF StartNetwork
    <2> QED
      BY Zenon, <1>1, <1>2, <2>1
  <1>4. CASE ~Configured(r)
    <2> DEFINE e == EnsureSoftAp(r, FALSE, works)
    <2>1. n = <<e[1], [e[2] EXCEPT !.started = e[1], !.fallback = e[2].fallback /\ ~e[1]]>>
      BY <1>4 DEF StartNetwork
    <2>2. Follows(r, e[2])
      BY EnsureSoftApFollows
    <2> HIDE DEF e
    <2> QED
      BY Zenon, <1>2, <2>1, <2>2
  <1> QED
    BY <1>3, <1>4

\* Most steps of the pass change nothing that the invariant is about.
LEMMA OtherFieldsFollow ==
  ASSUME NEW r, NEW n, Sound(r), IsWifi(n), n.c = r.c, n.restart = r.restart,
         n.phase = r.phase, n.link = r.link, n.trying = r.trying, n.proven = r.proven,
         n.dropped = r.dropped, n.sta = "CONNECTED" => r.sta = "CONNECTED"
  PROVE  Follows(r, n)
  BY Zenon DEF Follows, Sound, Untried, Awaited

\* Two steps that follow one another follow as one.
LEMMA FollowsComposes ==
  ASSUME NEW r, NEW s, NEW n, Follows(r, s), Follows(s, n)
  PROVE  Follows(r, n)
  BY DEF Follows

\* A rollback leaves no configuration on probation.
LEMMA RevertFollows ==
  ASSUME NEW r, Sound(r), NEW flash
  PROVE  Follows(r, RevertPending(r, flash)[2]) /\ Follows(r, RevertOrRestart(r, flash))
  <1> DEFINE s == [Advance(r, "REVERTED") EXCEPT !.c = Restored(@), !.window = FALSE,
                                                 !.staHeld = FALSE]
             t == [s EXCEPT !.sta = IF Configured(s) THEN @ ELSE "NONE"]
             x == [t EXCEPT !.server = FALSE, !.ap = FALSE, !.clients = FALSE,
                            !.grace = FALSE, !.link = None]
             y == [t EXCEPT !.started = FALSE,
                            !.fallback = KeepsSoftAp(r.phase) /\ ~Configured(t)]
             v == RevertPending(r, flash)
  <1>1. v \in {<<FALSE, r>>, <<TRUE, x>>, <<TRUE, y>>}
    BY DEF RevertPending
  <1>2. Follows(r, s) /\ s.c.pending = FALSE
    <2> DEFINE phase == NextPhase(r.phase, "REVERTED")
    <2>1. Advance(r, "REVERTED") = [r EXCEPT !.phase = phase]
      BY DEF Advance
    <2> HIDE DEF phase
    <2> QED
      BY Zenon, <2>1 DEF Restored, Follows, Sound, IsWifi, WifiFields, Untried, Awaited
  <1> HIDE DEF s
  <1>3. Follows(r, t) /\ t.c.pending = FALSE
    <2> DEFINE sta == IF Configured(s) THEN s.sta ELSE "NONE"
    <2> HIDE DEF sta
    <2>1. t = [s EXCEPT !.sta = sta]
      BY DEF sta
    <2> QED
      BY <1>2, <2>1 DEF Follows, Sound, IsWifi, WifiFields, Untried, Awaited
  <1> HIDE DEF t
  <1>4. Follows(r, x) /\ Follows(r, y)
    BY Zenon, <1>3 DEF Follows, Sound, IsWifi, WifiFields, Untried, Awaited
  <1> HIDE DEF x, y
  <1>5. v[2] \in {r, x, y}
    <2>1. <<FALSE, r>>[2] = r /\ <<TRUE, x>>[2] = x /\ <<TRUE, y>>[2] = y
      OBVIOUS
    <2> QED
      BY <1>1, <2>1
  <1>6. Follows(r, v[2])
    BY <1>4, <1>5 DEF Follows
  <1> HIDE DEF v
  <1>7. Follows(r, [v[2] EXCEPT !.started = FALSE])
    BY <1>6 DEF Follows, Sound, IsWifi, WifiFields, Untried, Awaited
  <1> QED
    BY <1>6, <1>7 DEF RevertOrRestart, v

\* The end of the grace period of the access point.
LEMMA TeardownFollows ==
  ASSUME NEW r, Sound(r), NEW due
  PROVE  Follows(r, Teardown(r, due))
  <1>1. Follows(r, [r EXCEPT !.grace = TRUE]) /\ Follows(r, r)
    BY DEF Follows, Sound, IsWifi, WifiFields, Untried, Awaited
  <1> QED
    BY <1>1, StopSoftApFollows DEF Teardown

\* A station that joined while a link is up.
LEMMA ConnectsFollows ==
  ASSUME NEW r, Sound(r), r.link # None, NEW works, NEW due, NEW n \in Connects(r, works, due)
  PROVE  Follows(r, n)
  <1> DEFINE q == StartHttp(Teardown(r, due), works)
             s == [q EXCEPT !.sta = "CONNECTED", !.ever = TRUE, !.window = @ \/ r.c.pending]
             e == IF s.link = s.c.sta THEN "JOINED" ELSE "JOINED_OTHER"
             t == Advance(s, e)
             u == [t EXCEPT !.ask = @ \/ t.phase = "JOINED"]
  <1>1. n \in {s, u}
    BY DEF Connects
  <1>2. Follows(r, q) /\ q.link = r.link
    <2>1. Follows(r, Teardown(r, due)) /\ Teardown(r, due).link = r.link
      BY Zenon, TeardownFollows DEF Teardown, StopSoftAp, Advance, Sound, IsWifi, WifiFields
    <2> QED
      BY Zenon, <2>1, StartHttpFollows DEF StartHttp, Follows, Sound, IsWifi, WifiFields
  <1> HIDE DEF q
  <1>3. Follows(q, s)
    BY <1>2 DEF Follows, Sound, IsWifi, WifiFields, Untried, Awaited
  <1> HIDE DEF s
  <1>4. Follows(s, t)
    BY <1>3, AdvanceFollows DEF Follows
  <1> HIDE DEF t
  <1>5. Follows(t, u)
    BY <1>4 DEF Follows, Sound, IsWifi, WifiFields, Untried, Awaited
  <1> QED
    BY <1>1, <1>2, <1>3, <1>4, <1>5 DEF Follows

\* An attempt that timed out: rollback, access point or another attempt.
LEMMA AttemptFollows ==
  ASSUME NEW r, Sound(r), NEW flash, NEW works, NEW n \in AttemptTimesOut(r, flash, works)
  PROVE  Follows(r, n)
  <1> DEFINE d == Disconnect(r)
             s == [d EXCEPT !.sta = "FAILED"]
             e == EnsureSoftAp(s, FALSE, works)
  <1>1. Follows(r, d)
    BY DisconnectFollows
  <1> HIDE DEF d
  <1>2. Follows(r, s)
    BY <1>1 DEF Follows, Sound, IsWifi, WifiFields, Untried, Awaited
  <1>3. n \in {RevertOrRestart(s, flash), [s EXCEPT !.sta = "DISCONNECTED"],
               [e[2] EXCEPT !.sta = "DISCONNECTED"], [e[2] EXCEPT !.started = FALSE]}
    BY DEF AttemptTimesOut, d
  <1> HIDE DEF s
  <1>4. Follows(r, e[2])
    BY Zenon, <1>2, EnsureSoftApFollows DEF Follows
  <1>5. Follows(r, RevertOrRestart(s, flash))
    BY <1>2, RevertFollows DEF Follows
  <1> HIDE DEF e
  <1>6. /\ Follows(r, [s EXCEPT !.sta = "DISCONNECTED"])
        /\ Follows(r, [e[2] EXCEPT !.sta = "DISCONNECTED"])
        /\ Follows(r, [e[2] EXCEPT !.started = FALSE])
    BY Zenon, <1>2, <1>4 DEF Follows, Sound, IsWifi, WifiFields, Untried, Awaited
  <1> QED
    BY <1>3, <1>5, <1>6

\* One pass over the station.
LEMMA StationFollows ==
  ASSUME NEW r, Sound(r), NEW rf, NEW flash, NEW works, NEW due,
         NEW n \in ServiceStation(r, rf, flash, works, due)
  PROVE  Follows(r, n)
  <1> DEFINE stays == StaysConnected(r, flash, works, due)
             s == StartHttp(Teardown(r, due), works)
  <1>0. Follows(r, r)
    BY DEF Follows
  <1>1. Follows(r, [Disconnect(r) EXCEPT !.sta = "DISCONNECTED"])
        /\ Follows(r, [r EXCEPT !.sta = "DISCONNECTED"])
    <2>1. Follows(r, Disconnect(r))
      BY DisconnectFollows
    <2> QED
      BY Zenon, <2>1 DEF Follows, Sound, IsWifi, WifiFields, Untried, Awaited
  <1>2. Follows(r, AssociateAborted(r))
    BY <1>1, AdvanceFollows DEF AssociateAborted, Follows
  <1>3. ASSUME NEW x \in LinkIsLost(r, rf, works)
        PROVE  Follows(r, x)
    <2> DEFINE q == [r EXCEPT !.sta = "DISCONNECTED"]
    <2>1. Sound(q) /\ (x = q \/ \E b \in BeginConnect(q, rf, works) : x = b[2])
      BY <1>1, <1>3 DEF LinkIsLost, Follows
    <2> HIDE DEF q
    <2>2. x = q \/ Follows(q, x)
      BY <2>1, BeginConnectFollows
    <2> QED
      BY <1>1, <2>2 DEF Follows, q
  <1>4. ASSUME NEW x \in stays
        PROVE  Follows(r, x)
    <2>1. Follows(r, s)
      BY TeardownFollows, StartHttpFollows DEF Follows
    <2>2. x \in {s, RevertOrRestart(Disconnect(s), flash)}
      BY <1>4 DEF StaysConnected
    <2> HIDE DEF s
    <2>3. Follows(r, Disconnect(s))
      BY <2>1, DisconnectFollows DEF Follows
    <2>4. Follows(r, RevertOrRestart(Disconnect(s), flash))
      BY <2>3, RevertFollows DEF Follows
    <2> QED
      BY <2>1, <2>2, <2>4
  <1>5. ASSUME NEW x \in OnboardingExpires(r, flash)
        PROVE  Follows(r, x)
    <2>1. Follows(r, Disconnect(r)) /\ x = RevertPending(Disconnect(r), flash)[2]
      BY <1>5, DisconnectFollows DEF OnboardingExpires
    <2> QED
      BY <2>1, RevertFollows DEF Follows
  <1>6. ASSUME NEW x \in AttemptAges(r)
        PROVE  Follows(r, x)
    <2> DEFINE q == [r EXCEPT !.sta = "DISCONNECTED"]
    <2>1. Follows(r, q) /\ x = Advance(q, "ATTEMPT_FAILED")
      BY <1>1, <1>6 DEF AttemptAges
    <2> HIDE DEF q
    <2>2. Follows(q, Advance(q, "ATTEMPT_FAILED"))
      BY <2>1, AdvanceFollows DEF Follows
    <2> QED
      BY <2>1, <2>2 DEF Follows
  <1>7. ASSUME NEW x \in Bootstrap(r, works)
        PROVE  Follows(r, x)
    <2> DEFINE e == EnsureSoftAp(r, FALSE, works)
    <2>1. Follows(r, e[2]) /\ x \in {e[2], [e[2] EXCEPT !.started = FALSE]}
      BY <1>7, EnsureSoftApFollows DEF Bootstrap
    <2> HIDE DEF e
    <2>2. Follows(r, [e[2] EXCEPT !.started = FALSE])
      BY <2>1 DEF Follows, Sound, IsWifi, WifiFields, Untried, Awaited
    <2> QED
      BY <2>1, <2>2
  <1>8. ASSUME NEW x \in {b[2] : b \in BeginConnect(r, rf, works)}
        PROVE  Follows(r, x)
    BY <1>8, BeginConnectFollows
  <1>9. \/ n \in {r, AssociateAborted(r)} \/ n \in LinkIsLost(r, rf, works) \/ n \in stays
        \/ r.link # None /\ n \in Connects(r, works, due)
        \/ n \in OnboardingExpires(r, flash) \/ n \in AttemptAges(r)
        \/ n \in AttemptTimesOut(r, flash, works) \/ n \in Bootstrap(r, works)
        \/ n \in {b[2] : b \in BeginConnect(r, rf, works)}
    BY DEF ServiceStation
  <1> HIDE DEF stays
  <1> QED
    BY <1>0, <1>2, <1>3, <1>4, <1>5, <1>6, <1>7, <1>8, <1>9, ConnectsFollows, AttemptFollows

\* A confirmation clears the probation and nothing else of it.
LEMMA ConfirmFollows ==
  ASSUME NEW r, Sound(r), NEW flash
  PROVE  /\ Follows(r, ConfirmPending(r, flash))
         /\ Untried(r) /\ r.restart # TRUE => ConfirmPending(r, flash).c = r.c
  <1> DEFINE s == [r EXCEPT !.ask = FALSE]
             kept == KeepsSoftAp(s.phase)
             phase == IF kept THEN NextPhase(s.phase, "CONFIRMED") ELSE s.phase
             x == [s EXCEPT !.c = [@ EXCEPT !.pending = FALSE, !.lkg = s.c.sta],
                            !.window = FALSE, !.staHeld = @ /\ ~kept,
                            !.phase = phase, !.grace = @ \/ (kept /\ s.ap)]
  <1>1. Follows(r, s) /\ s.c = r.c /\ s.sta = r.sta /\ s.phase = r.phase
    BY DEF Follows, Sound, IsWifi, WifiFields, Untried, Awaited
  <1>2. ConfirmPending(r, flash) \in {s, r}
        \/ (ConfirmPending(r, flash) = x /\ s.sta = "CONNECTED" /\ ConfirmAllowed(s))
    BY DEF ConfirmPending
  <1>3. Untried(r) /\ r.restart # TRUE => ~(s.sta = "CONNECTED" /\ ConfirmAllowed(s))
    BY <1>1 DEF ConfirmAllowed, Sound, Awaited
  <1> HIDE DEF s, kept, phase
  <1>4. Follows(r, x)
    BY Zenon, <1>1 DEF Follows, Sound, IsWifi, WifiFields, Untried, Awaited
  <1> HIDE DEF x
  <1> QED
    BY <1>1, <1>2, <1>3, <1>4 DEF Follows

\* An administrator's command that was accepted: what it saves is put on probation
\* and is to be tried after a restart or by the live apply.
LEMMA CommandIsSound ==
  ASSUME NEW r, Sound(r), NEW flash
  PROVE  Sound(AcceptedCommand(r, flash))
  <1> DEFINE k == r.cmd
             again == [r EXCEPT !.attempts = @ + 1]
             s == Announced(again, k)
  <1>1. ASSUME NEW q, Sound(q)
        PROVE  Sound(CommandEnds(q))
    BY <1>1 DEF CommandEnds, Sound, IsWifi, WifiFields, Untried, Awaited
  <1>2. Follows(r, again)
    BY DEF Follows, Sound, IsWifi, WifiFields, Untried, Awaited
  <1>3. Sound([r EXCEPT !.cmd = None, !.attempts = 0, !.requested = TRUE, !.scan = "QUEUED",
                        !.scanLease = TRUE])
    BY DEF Sound, IsWifi, WifiFields, Untried, Awaited
  <1> HIDE DEF k, again
  <1>4. /\ IsWifi(s) /\ s.c = again.c /\ s.link = again.link /\ s.trying = again.trying
        /\ s.sta = again.sta /\ s.proven = again.proven /\ s.dropped = again.dropped
        /\ again.phase = "QUEUED" => s.phase = "QUEUED"
        /\ again.restart = TRUE => s.restart = TRUE \/ s.phase = "QUEUED"
        /\ k.kind = "SAVE" /\ k.net # again.c.sta => s.restart = TRUE \/ s.phase = "QUEUED"
        /\ again.restart = TRUE /\ k.kind = "RESTART" => s.restart = TRUE
    <2>1. \A q : Advance(q, "APPLY_SAVED") = [q EXCEPT !.phase = "QUEUED"]
      BY DEF Advance, NextPhase
    <2>2. /\ s \in {[again EXCEPT !.restart = FALSE, !.phase = "QUEUED"],
                    [again EXCEPT !.restart = TRUE], [again EXCEPT !.apRestart = again.ap],
                    again}
          /\ k.kind = "SAVE" /\ k.net # again.c.sta =>
               s \in {[again EXCEPT !.restart = FALSE, !.phase = "QUEUED"],
                      [again EXCEPT !.restart = TRUE]}
          /\ k.kind = "RESTART" => s = [again EXCEPT !.restart = TRUE]
      <3>1. [[again EXCEPT !.restart = FALSE] EXCEPT !.phase = "QUEUED"]
              = [again EXCEPT !.restart = FALSE, !.phase = "QUEUED"]
        OBVIOUS
      <3> QED
        BY <2>1, <3>1 DEF Announced
    <2> HIDE DEF s
    <2>3. IsWifi(again)
      BY <1>2 DEF Follows, Sound
    <2>4. CASE s = [again EXCEPT !.restart = FALSE, !.phase = "QUEUED"]
      BY Zenon, <2>2, <2>3, <2>4 DEF IsWifi, WifiFields
    <2>5. CASE s = [again EXCEPT !.restart = TRUE]
      BY <2>2, <2>3, <2>5 DEF IsWifi, WifiFields
    <2>6. CASE s = [again EXCEPT !.apRestart = again.ap] /\ ~(k.kind = "SAVE" /\ k.net # again.c.sta)
               /\ k.kind # "RESTART"
      BY <2>2, <2>3, <2>6 DEF IsWifi, WifiFields
    <2>7. CASE s = again /\ ~(k.kind = "SAVE" /\ k.net # again.c.sta)
      BY <2>2, <2>3, <2>7 DEF IsWifi, WifiFields
    <2> QED
      BY <2>2, <2>4, <2>5, <2>6, <2>7, <2>3 DEF IsWifi, WifiFields
  <1>5. Sound(Failed(again, k))
    <2> DEFINE x == s.restart /\ k.kind = "RESTART"
               y == s.dropped \/ (again.restart /\ k.kind # "RESTART")
    <2>1. Failed(again, k) = [s EXCEPT !.restart = x, !.apRestart = FALSE, !.dropped = y]
      BY DEF Failed
    <2>2. /\ x = TRUE <=> (s.restart = TRUE /\ k.kind = "RESTART")
          /\ y # TRUE => again.dropped # TRUE /\ (again.restart = TRUE => k.kind = "RESTART")
      BY <1>4
    <2> HIDE DEF x, y, s
    <2> DEFINE n == Failed(again, k)
    <2>0. n = [s EXCEPT !.restart = x, !.apRestart = FALSE, !.dropped = y]
      BY <2>1
    <2>9. IsWifi(s)
      BY <1>4
    <2> HIDE DEF n
    <2>3. /\ IsWifi(n) /\ n.c = s.c /\ n.link = s.link /\ n.trying = s.trying
          /\ n.sta = s.sta /\ n.proven = s.proven /\ n.phase = s.phase
          /\ n.restart = x /\ n.dropped = y
      BY <2>0, <2>9 DEF IsWifi, WifiFields
    <2>4. Untried(n) => Untried(again)
      BY <1>4, <2>2, <2>3 DEF Untried
    <2>5. Awaited(again) /\ y # TRUE => Awaited(n)
      BY <1>4, <2>2, <2>3 DEF Awaited
    <2> QED
      BY <1>2, <2>3, <2>4, <2>5 DEF Follows, Sound, Untried, n
  <1>6. Sound(Persisted(again, k))
    <2> DEFINE c == Saved(again.c, k)
               x == IF c.sta = again.c.sta THEN s.proven ELSE FALSE
               y == s.dropped /\ ~s.restart
    <2>1. Persisted(again, k) = [s EXCEPT !.c = c, !.proven = x, !.dropped = y]
      BY DEF Persisted
    <2>2. /\ c = [f \in {"sta", "pending", "lkg"} |-> c[f]]
          /\ \/ c = again.c \/ c.pending = FALSE
             \/ k.kind = "SAVE" /\ k.net # again.c.sta
      BY <1>2 DEF Saved, Follows, Sound, IsWifi
    <2>3. /\ c = again.c => x = s.proven
          /\ y # TRUE => s.dropped # TRUE \/ s.restart = TRUE
      OBVIOUS
    <2> HIDE DEF c, x, y, s
    <2> DEFINE n == Persisted(again, k)
    <2>0. n = [s EXCEPT !.c = c, !.proven = x, !.dropped = y]
      BY <2>1
    <2>9. IsWifi(s)
      BY <1>4
    <2> HIDE DEF n
    <2>4. /\ IsWifi(n) /\ n.c = c /\ n.link = s.link /\ n.trying = s.trying
          /\ n.sta = s.sta /\ n.proven = x /\ n.phase = s.phase
          /\ n.restart = s.restart /\ n.dropped = y
      BY <2>0, <2>2, <2>9 DEF IsWifi, WifiFields
    <2>5. CASE c = again.c /\ Untried(n)
      <3>1. s.restart = TRUE \/ Untried(again)
        BY <1>4, <2>3, <2>4, <2>5 DEF Untried
      <3>2. Awaited(again) => Awaited(n)
        BY <1>4, <2>4, <2>5 DEF Awaited
      <3> QED
        BY <1>2, <2>4, <3>1, <3>2 DEF Follows, Sound, Awaited, n
    <2>6. CASE k.kind = "SAVE" /\ k.net # again.c.sta
      BY <1>4, <2>4, <2>6 DEF Sound, Awaited, n
    <2>7. CASE c.pending = FALSE
      BY <2>4, <2>7 DEF Sound, Untried, n
    <2> QED
      BY <2>2, <2>4, <2>5, <2>6, <2>7 DEF Sound, n
  <1>7. Sound(AbortScan(r))
    BY AbortScanFollows DEF Follows
  <1>8. AcceptedCommand(r, flash) \in
          {CommandEnds(AbortScan(r)), CommandEnds(r),
           [r EXCEPT !.cmd = None, !.attempts = 0, !.requested = TRUE, !.scan = "QUEUED",
                     !.scanLease = TRUE],
           CommandEnds(Persisted(again, k)), CommandEnds(Failed(again, k)), Failed(again, k)}
    BY DEF AcceptedCommand, again, k
  <1> QED
    BY <1>1, <1>3, <1>5, <1>6, <1>7, <1>8

\* A command of the console.
LEMMA CliFollows ==
  ASSUME NEW r, Sound(r), NEW action, NEW rf, NEW works,
         NEW n \in CliAction(r, action, rf, works)
  PROVE  Follows(r, CliProgress(n))
  <1>1. ASSUME NEW q, Follows(r, q)
        PROVE  Follows(r, CliProgress(q))
    BY <1>1 DEF CliProgress, Follows, Sound, IsWifi, WifiFields, Untried, Awaited
  <1>2. CASE action = "WIFI_CONNECT"
    <2> DEFINE q == [r EXCEPT !.staHeld = FALSE]
    <2>1. Follows(r, q)
      BY DEF Follows, Sound, IsWifi, WifiFields, Untried, Awaited
    <2>2. n = r \/ \E b \in BeginConnect(q, rf, works) : n = b[2]
      BY <1>2 DEF CliAction
    <2> HIDE DEF q
    <2>3. n = r \/ Follows(q, n)
      <3>1. Sound(q)
        BY <2>1 DEF Follows
      <3> QED
        BY <2>2, <3>1, BeginConnectFollows
    <2> QED
      BY <1>1, <2>1, <2>3 DEF Follows
  <1>3. CASE action = "WIFI_DISCONNECT"
    <2> DEFINE q == Disconnect(r)
               sta == IF Configured(r) THEN "DISCONNECTED" ELSE "NONE"
    <2>1. n = [q EXCEPT !.staHeld = TRUE, !.sta = sta]
      BY <1>3 DEF CliAction
    <2>2. Follows(r, q) /\ sta # "CONNECTED"
      BY DisconnectFollows
    <2> HIDE DEF q, sta
    <2>3. Follows(q, n)
      BY <2>1, <2>2 DEF Follows, Sound, IsWifi, WifiFields, Untried, Awaited
    <2> QED
      BY <1>1, <2>2, <2>3 DEF Follows
  <1>4. CASE action = "AP_START"
    <2> DEFINE h == [r EXCEPT !.apHeld = FALSE]
               q == Advance(h, "KEEP_REQUESTED")
               e == EnsureSoftAp(q, TRUE, works)
    <2>1. n \in {Advance(e[2], "KEEP_RELEASED"), e[2]}
      BY <1>4 DEF CliAction
    <2>2. Follows(r, h)
      BY DEF Follows, Sound, IsWifi, WifiFields, Untried, Awaited
    <2> HIDE DEF h
    <2>3. Follows(r, q)
      BY <2>2, AdvanceFollows DEF Follows
    <2> HIDE DEF q
    <2>4. Follows(r, e[2])
      BY <2>3, EnsureSoftApFollows DEF Follows
    <2> HIDE DEF e
    <2>5. Follows(r, Advance(e[2], "KEEP_RELEASED"))
      BY <2>4, AdvanceFollows DEF Follows
    <2> QED
      BY <1>1, <2>1, <2>4, <2>5
  <1>5. CASE action = "AP_STOP"
    <2> DEFINE h == [r EXCEPT !.apHeld = TRUE]
               q == Advance(h, "KEEP_RELEASED")
    <2>1. n = StopSoftAp(q, ~(r.sta = "CONNECTED" /\ r.link # None))
      BY <1>5 DEF CliAction
    <2>2. Follows(r, h)
      BY DEF Follows, Sound, IsWifi, WifiFields, Untried, Awaited
    <2> HIDE DEF h
    <2>3. Follows(r, q)
      BY <2>2, AdvanceFollows DEF Follows
    <2> HIDE DEF q
    <2>4. Follows(r, n)
      BY <2>1, <2>3, StopSoftApFollows DEF Follows
    <2> QED
      BY <1>1, <2>4
  <1>6. CASE action = "WEBUI_START"
    <2> DEFINE h == [r EXCEPT !.httpHeld = FALSE]
    <2>1. n = StartHttp(h, works)
      BY <1>6 DEF CliAction
    <2>2. Follows(r, h)
      BY DEF Follows, Sound, IsWifi, WifiFields, Untried, Awaited
    <2> HIDE DEF h
    <2> QED
      BY <1>1, <2>1, <2>2, StartHttpFollows DEF Follows
  <1>7. CASE action \notin {"WIFI_CONNECT", "WIFI_DISCONNECT", "AP_START", "AP_STOP",
                            "WEBUI_START"}
    <2>1. n = [r EXCEPT !.httpHeld = TRUE, !.server = FALSE]
      BY <1>7 DEF CliAction
    <2>2. Follows(r, n)
      BY <2>1 DEF Follows, Sound, IsWifi, WifiFields, Untried, Awaited
    <2> QED
      BY <1>1, <2>2
  <1> QED
    BY <1>2, <1>3, <1>4, <1>5, <1>6, <1>7

\* The live apply tries what was saved, or restarts.
LEMMA LiveApplyIsSound ==
  ASSUME NEW r, Sound(r), NEW rf, NEW works, NEW n \in LiveApply(r, rf, works)
  PROVE  Sound(n)
  <1> DEFINE q == [r EXCEPT !.staHeld = FALSE]
  <1>1. Sound(q)
    BY DEF Sound, IsWifi, WifiFields, Untried, Awaited
  <1>2. CASE r.phase = "QUEUED" /\ ~r.ap
    <2> DEFINE s == [r EXCEPT !.restart = TRUE]
               phase == NextPhase(s.phase, "APPLY_RESTARTS")
    <2>1. n = [s EXCEPT !.phase = phase]
      BY <1>2 DEF LiveApply, Advance
    <2> HIDE DEF phase
    <2> QED
      BY <2>1 DEF Sound, IsWifi, WifiFields, Untried, Awaited
  <1>3. CASE r.phase = "QUEUED" /\ r.ap
    <2>1. PICK b \in BeginConnect(q, rf, works) :
            n = IF b[1] THEN Advance([b[2] EXCEPT !.window = TRUE], "ATTEMPT_STARTED") ELSE b[2]
      BY <1>3 DEF LiveApply
    <2> DEFINE d == b[2]
               s == [d EXCEPT !.window = TRUE]
               phase == NextPhase(s.phase, "ATTEMPT_STARTED")
    <2> HIDE DEF q
    <2>2. /\ Follows(q, d)
          /\ b[1] = TRUE => d.trying = q.c.sta /\ d.link = None /\ d.sta = "CONNECTING"
                            /\ d.c = q.c
      <3>1. b \in BeginConnect(q, rf, works)
        BY <2>1
      <3>2. /\ Follows(q, b[2])
            /\ b[1] = TRUE => b[2].trying = q.c.sta /\ b[2].link = None
                              /\ b[2].sta = "CONNECTING" /\ b[2].c = q.c
        <4>1. Sound(q)
          BY <1>1
        <4>2. Follows(q, b[2]) /\ JoinBegun(q, b)
          BY <4>1, <3>1, BeginConnectFollows
        <4> QED
          BY <4>2 DEF JoinBegun
      <3> QED
        BY <3>2
    <2>3. n = d \/ (b[1] = TRUE /\ n = [s EXCEPT !.phase = phase])
      BY <2>1 DEF Advance
    <2> HIDE DEF phase, d
    <2>4. CASE n = d
      BY <2>2, <2>4 DEF Follows
    <2>5. CASE b[1] = TRUE /\ n = [s EXCEPT !.phase = phase]
      <3>1. IsWifi(d) /\ d.trying = d.c.sta /\ d.link = None /\ d.sta = "CONNECTING"
        BY <2>2, <2>5 DEF Follows, Sound
      <3> QED
        BY <2>5, <3>1 DEF Sound, IsWifi, WifiFields, Awaited
    <2> QED
      BY <2>3, <2>4, <2>5
  <1>4. CASE r.phase # "QUEUED"
    BY <1>4 DEF LiveApply
  <1> QED
    BY <1>2, <1>3, <1>4

\* The scan, the idle mode and the restart of the access point.
LEMMA RestFollows ==
  ASSUME NEW r, Sound(r), NEW rf, NEW idle, NEW works, NEW due, NEW turnedOn,
         NEW q \in ServiceScan(r, rf, idle, works, due)
  PROVE  Follows(r, RestartSoftAp(ServiceIdle(q, turnedOn, due), idle, works))
  <1>1. Follows(r, q)
    <2>1. Follows(r, [r EXCEPT !.requested = FALSE, !.scan = "RUNNING"]) /\ Follows(r, r)
      BY DEF Follows, Sound, IsWifi, WifiFields, Untried, Awaited
    <2>2. q \in {r, AbortScan(r), ScanEnds(r), [r EXCEPT !.requested = FALSE, !.scan = "RUNNING"]}
      BY DEF ServiceScan
    <2> QED
      BY <2>1, <2>2, AbortScanFollows
  <1> DEFINE h == [q EXCEPT !.exhausted = TRUE]
             i == ServiceIdle(q, turnedOn, due)
  <1>2. Follows(q, i)
    <2>1. Follows(q, h) /\ Follows(q, q)
      BY <1>1 DEF Follows, Sound, IsWifi, WifiFields, Untried, Awaited
    <2>2. i \in {q, StopSoftAp(h, ~(q.sta = "CONNECTED" /\ q.link # None))}
      <3>1. \A x : StopSoftAp(h, ~(q.sta = "CONNECTED" /\ q.link # None))
                     = StopSoftAp(h, ~(q.sta = "CONNECTED" /\ q.link # None))
        OBVIOUS
      <3> QED
        BY DEF ServiceIdle
    <2> HIDE DEF h
    <2>3. Follows(h, StopSoftAp(h, ~(q.sta = "CONNECTED" /\ q.link # None)))
      BY <2>1, StopSoftApFollows DEF Follows
    <2> QED
      BY <2>1, <2>2, <2>3 DEF Follows
  <1> HIDE DEF i
  <1> DEFINE g == [i EXCEPT !.apRestart = FALSE]
             e == EnsureSoftAp(g, TRUE, works)
             y == [e[2] EXCEPT !.started = FALSE, !.fallback = TRUE]
  <1>3. Follows(i, g)
    BY <1>2 DEF Follows, Sound, IsWifi, WifiFields, Untried, Awaited
  <1>4. RestartSoftAp(i, idle, works) \in {i, e[2], y}
    BY DEF RestartSoftAp
  <1> HIDE DEF g
  <1>5. Follows(g, e[2])
    BY <1>3, EnsureSoftApFollows DEF Follows
  <1> HIDE DEF e
  <1>6. Follows(e[2], y)
    BY <1>5 DEF Follows, Sound, IsWifi, WifiFields, Untried, Awaited
  <1> HIDE DEF y
  <1> QED
    BY <1>1, <1>2, <1>3, <1>4, <1>5, <1>6 DEF Follows, i

\* After a boot everything is still to be tried.
LEMMA BootIsSound ==
  ASSUME NEW r, Sound(r), NEW proven
  PROVE  Sound(Boot(r.c, proven)) /\ Boot(r.c, proven).restart = FALSE
         /\ Boot(r.c, proven).c = r.c
  BY DEF Boot, Sound, IsWifi, WifiFields, Untried, Awaited

\* The driver, the phones, the pages and the administrator touch neither the
\* configuration nor the phase, but for a link to the network that is tried.
LEMMA WifiEventFollows ==
  ASSUME WifiInv,
         Associates \/ AssociationFails \/ LinkDrops \/ PhoneMoves \/ AdminAsks
         \/ ScanIsRefused \/ LeaseIsCancelled \/ PageConfirms \/ PageFinishes
  PROVE  Follows(w, w') /\ wpc' = wpc /\ w'.c = w.c
  <1>0. Sound(w)
    BY DEF WifiInv
  <1>1. CASE Associates
    <2> DEFINE x == w.proven \/ w.trying = w.c.sta
    <2>1. /\ w' = [w EXCEPT !.link = w.trying, !.trying = None, !.proven = x]
          /\ wpc' = wpc /\ w.trying # None
      BY <1>1 DEF Associates
    <2>2. x # TRUE => w.proven # TRUE /\ w.trying # w.c.sta
      OBVIOUS
    <2> HIDE DEF x
    <2> QED
      BY <1>0, <2>1, <2>2 DEF Follows, Sound, IsWifi, WifiFields, Untried, Awaited
  <1>2. CASE AssociationFails
    <2>1. w' = [w EXCEPT !.trying = None] /\ wpc' = wpc
      BY <1>2 DEF AssociationFails
    <2> QED
      BY <1>0, <2>1 DEF Follows, Sound, IsWifi, WifiFields, Untried, Awaited
  <1>3. CASE LinkDrops
    <2>1. w' = [w EXCEPT !.link = None] /\ wpc' = wpc
      BY <1>3 DEF LinkDrops
    <2> QED
      BY <1>0, <2>1 DEF Follows, Sound, IsWifi, WifiFields, Untried, Awaited
  <1>6. CASE PhoneMoves
    <2>1. w' = [w EXCEPT !.clients = ~@] /\ wpc' = wpc
      BY <1>6 DEF PhoneMoves
    <2> QED
      BY <1>0, <2>1 DEF Follows, Sound, IsWifi, WifiFields, Untried, Awaited
  <1>7. CASE ScanIsRefused
    <2>1. w' = [w EXCEPT !.scan = "QUEUED"] /\ wpc' = wpc
      BY <1>7 DEF ScanIsRefused
    <2> QED
      BY <1>0, <2>1 DEF Follows, Sound, IsWifi, WifiFields, Untried, Awaited
  <1>8. CASE LeaseIsCancelled
    <2>1. w' = [w EXCEPT !.lease = FALSE] /\ wpc' = wpc
      BY <1>8 DEF LeaseIsCancelled
    <2> QED
      BY <1>0, <2>1 DEF Follows, Sound, IsWifi, WifiFields, Untried, Awaited
  <1>4. CASE AdminAsks
    <2>1. /\ wpc' = wpc
          /\ \E k, scan : w' = [w EXCEPT !.cmd = k, !.lease = TRUE, !.scan = scan]
      BY Zenon, <1>4 DEF AdminAsks
    <2> QED
      BY Zenon, <1>0, <2>1 DEF Follows, Sound, IsWifi, WifiFields, Untried, Awaited
  <1>5. CASE PageConfirms \/ PageFinishes
    <2>1. wpc' = wpc /\ (w' = [w EXCEPT !.ask = TRUE] \/ w' = [w EXCEPT !.grace = TRUE])
      BY Zenon, <1>5 DEF PageConfirms, PageFinishes
    <2>2. CASE w' = [w EXCEPT !.ask = TRUE]
      BY <1>0, <2>1, <2>2 DEF Follows, Sound, IsWifi, WifiFields, Untried, Awaited
    <2>3. CASE w' = [w EXCEPT !.grace = TRUE]
      BY <1>0, <2>1, <2>3 DEF Follows, Sound, IsWifi, WifiFields, Untried, Awaited
    <2> QED
      BY <2>1, <2>2, <2>3
  <1> QED
    BY <1>1, <1>2, <1>3, <1>4, <1>5, <1>6, <1>7, <1>8

\* The first half of the pass.
LEMMA CommandsKeepWifiInv ==
  ASSUME WifiInv, NEW rf, NEW idle, NEW flash, NEW works, NEW action,
         ServiceCommands(rf, idle, flash, works, action)
  PROVE  WifiInv'
  <1>1. PICK r \in IF w.cmd # None THEN {AcceptedCommand(w, flash)}
                   ELSE IF action = "none" THEN {w}
                   ELSE {CliProgress(s) : s \in CliAction(w, action, rf, works)} :
        \E a \in LiveApply(r, rf, works) :
          IF a.restart
            THEN wpc' = wpc /\ w' = IF idle /\ ~a.lease THEN Boot(a.c, a.proven) ELSE a
            ELSE IF a.started THEN wpc' = "confirm" /\ w' = a
            ELSE wpc' = wpc /\ \E n \in StartNetwork(a, rf, works) : w' = n[2]
    BY DEF ServiceCommands
  <1>2. Sound(r)
    <2>1. r = AcceptedCommand(w, flash) \/ r = w
          \/ \E s \in CliAction(w, action, rf, works) : r = CliProgress(s)
      BY <1>1
    <2> QED
      BY <2>1, CommandIsSound, CliFollows DEF WifiInv, Follows
  <1>3. PICK a \in LiveApply(r, rf, works) :
          IF a.restart
            THEN wpc' = wpc /\ w' = IF idle /\ ~a.lease THEN Boot(a.c, a.proven) ELSE a
            ELSE IF a.started THEN wpc' = "confirm" /\ w' = a
            ELSE wpc' = wpc /\ \E n \in StartNetwork(a, rf, works) : w' = n[2]
    BY <1>1
  <1>4. Sound(a)
    BY <1>2, LiveApplyIsSound
  <1>5. wpc = "commands"
    BY DEF ServiceCommands
  <1>6. CASE w' \in {a, Boot(a.c, a.proven)} /\ wpc' = wpc
    BY <1>4, <1>5, <1>6, BootIsSound DEF WifiInv
  <1>7. CASE a.restart # TRUE /\ w' = a
    BY <1>4, <1>7 DEF WifiInv
  <1>8. CASE wpc' = wpc /\ \E n \in StartNetwork(a, rf, works) : w' = n[2]
    BY <1>4, <1>5, <1>8, StartNetworkFollows DEF WifiInv, Follows
  <1> QED
    BY <1>3, <1>6, <1>7, <1>8

\* Each step keeps the invariant of the network manager.
LEMMA WifiInductive ==
  ASSUME WifiInv, [WifiNext]_wifiVars
  PROVE  WifiInv'
  <1>1. CASE Associates \/ AssociationFails \/ LinkDrops \/ PhoneMoves \/ AdminAsks
             \/ ScanIsRefused \/ LeaseIsCancelled \/ PageConfirms \/ PageFinishes
    BY <1>1, WifiEventFollows DEF WifiInv, Follows
  <1>2. CASE PowerCut
    BY <1>2, BootIsSound DEF PowerCut, WifiInv
  <1>3. ASSUME NEW rf, NEW idle, NEW flash, NEW works, NEW action,
               ServiceCommands(rf, idle, flash, works, action)
        PROVE  WifiInv'
    BY <1>3, CommandsKeepWifiInv
  <1>4. ASSUME NEW flash, ServiceConfirm(flash)
        PROVE  WifiInv'
    <2>1. w' \in {w, ConfirmPending(w, flash)} /\ wpc = "confirm"
      BY <1>4 DEF ServiceConfirm
    <2>2. Follows(w, ConfirmPending(w, flash)) /\ Follows(w, w)
      BY ConfirmFollows DEF WifiInv, Follows
    <2> QED
      BY <2>1, <2>2 DEF WifiInv, Follows
  <1>5. ASSUME NEW rf, NEW flash, NEW works, NEW due, ServiceSta(rf, flash, works, due)
        PROVE  WifiInv'
    BY <1>5, StationFollows DEF ServiceSta, WifiInv, Follows
  <1>6. ASSUME NEW rf, NEW idle, NEW works, NEW due, ServiceRest(rf, idle, works, due)
        PROVE  WifiInv'
    <2>1. PICK q \in ServiceScan(w, rf, idle, works, due) :
            w' = RestartSoftAp(ServiceIdle(q, ~idle, due), idle, works)
      BY <1>6 DEF ServiceRest
    <2>2. Follows(w, w')
      BY <2>1, RestFollows DEF WifiInv
    <2> QED
      BY <1>6, <2>2 DEF ServiceRest, WifiInv, Follows
  <1>7. CASE UNCHANGED wifiVars
    BY <1>7 DEF wifiVars, WifiInv
  <1> QED
    BY <1>1, <1>2, <1>3, <1>4, <1>5, <1>6, <1>7 DEF WifiNext, WifiPass

\* It holds at the first boot.
LEMMA WifiStarts ==
  ASSUME WifiInit
  PROVE  WifiInv
  BY DEF WifiInit, WifiInv, Boot, Sound, IsWifi, WifiFields, Untried, Awaited

(* confirmPendingNetwork makes a configuration on probation the good one only
   if the station has joined it since it was saved: what is on probation and was
   not joined waits for the restart or the live apply that tries it, or has no
   link and no station that counts as connected. *)
THEOREM OnlyJoinedIsConfirmed == WifiSpec => ConfirmsWhatWasJoined
  <1>1. ASSUME WifiInv, [WifiNext]_wifiVars
        PROVE  [wpc = "confirm" /\ w.c.pending /\ ~w'.c.pending
                  => w.proven \/ w.dropped]_wifiVars
    <2> SUFFICES ASSUME wpc = "confirm", w.c.pending, ~w'.c.pending,
                        ~(w.proven \/ w.dropped)
                 PROVE  FALSE
      BY DEF WifiInv
    <2>1. Untried(w) /\ w.restart # TRUE /\ Sound(w)
      BY <1>1 DEF Untried, WifiInv
    <2>2. CASE Associates \/ AssociationFails \/ LinkDrops \/ PhoneMoves \/ AdminAsks
               \/ ScanIsRefused \/ LeaseIsCancelled \/ PageConfirms \/ PageFinishes
      BY <1>1, <2>2, WifiEventFollows
    <2>3. CASE PowerCut
      BY <2>1, <2>3, BootIsSound DEF PowerCut
    <2>4. ASSUME NEW flash, ServiceConfirm(flash)
          PROVE  FALSE
      BY <2>1, <2>4, ConfirmFollows DEF ServiceConfirm
    <2> QED
      BY <1>1, <2>2, <2>3, <2>4
         DEF WifiNext, WifiPass, ServiceCommands, ServiceSta, ServiceRest, wifiVars
  <1> QED
    BY <1>1, WifiStarts, WifiInductive, PTL DEF WifiSpec, ConfirmsWhatWasJoined

-----------------------------------------------------------------------------
(* The momentary machine. *)

MachineFields == {"build", "down", "gesture", "before", "rinseAsked", "edge", "pulse",
                  "pending", "belief", "sawFlow", "coffee", "reed", "sawOff", "session",
                  "run", "stopAck", "orphan", "assume", "safety"}
IsMachine(r) == r = [f \in DOMAIN r |-> r[f]] /\ MachineFields \subseteq DOMAIN r

\* The group was seen to run.
SawRun(r) == IF r.build.sensor = "FLOW" THEN r.coffee ELSE r.reed /\ r.sawOff

\* What is believed of the group, or was when the button went down, was seen; a
\* press that may still be taken back and found the group running starts nothing.
Grounded(r) ==
    /\ IsMachine(r)
    /\ r.gesture => ~r.rinseAsked /\ (r.edge = "ON" => ~r.before.running)
    /\ r.build.sensor = "FLOW" =>
         /\ r.belief = "RUNNING" \/ r.sawFlow => r.coffee
         /\ r.gesture /\ r.before.running /\ r.before.level = "RUNNING" => r.coffee

MachineInv == Grounded(m) /\ (m.gesture => m.down)

\* The next record, without a new stop pulse; or with one only if the group was seen.
Sane(r, n) ==
    Grounded(n) /\ n.build = r.build /\ (n.gesture => r.gesture /\ n.down = r.down)
Plain(r, n) ==
    /\ Sane(r, n) /\ n.pending \in {"NONE", r.pending}
    /\ n.pulse = "STOP" => "STOP" \in {r.pulse, r.pending}
Keeps(r, n) == Plain(r, n) /\ (SawRun(r) => SawRun(n))
Cuts(r, n) ==
    /\ Sane(r, n) /\ n.pending \in {"NONE", r.pending} /\ (SawRun(r) => SawRun(n))
    /\ n.pulse = "STOP" => "STOP" \in {r.pulse, r.pending} \/ SawRun(n)

\* A plain step before a plain one.
LEMMA PlainComposes ==
  ASSUME NEW r, NEW s, NEW n, Plain(r, s)
  PROVE  Plain(s, n) => Plain(r, n)
  BY DEF Plain, Sane

\* Steps that keep what was seen, one after the other.
LEMMA KeepsComposes ==
  ASSUME NEW r, NEW s, NEW n, Keeps(r, s)
  PROVE  (Keeps(s, n) => Keeps(r, n)) /\ (Plain(s, n) => Plain(r, n))
         /\ (Sane(s, n) => Sane(r, n))
  BY DEF Plain, Keeps, Sane

\* Cuts of what was seen, one after the other.
LEMMA CutsCompose ==
  ASSUME NEW r, NEW s, NEW n
  PROVE  /\ Cuts(r, s) /\ Cuts(s, n) => Cuts(r, n)
         /\ Keeps(r, s) => Cuts(r, s)
  BY DEF Plain, Keeps, Cuts, Sane

\* What a step of the machine may set without changing what is known of the group.
AsBefore(r, n) ==
    /\ IsMachine(n) /\ n.build = r.build /\ n.gesture = r.gesture /\ n.down = r.down
    /\ n.rinseAsked = r.rinseAsked /\ n.edge = r.edge /\ n.before = r.before
    /\ n.coffee = r.coffee /\ n.reed = r.reed /\ n.sawOff = r.sawOff
Modest(r, n) ==
    /\ n.belief = r.belief \/ n.belief # "RUNNING"
    /\ n.sawFlow = r.sawFlow \/ n.sawFlow = FALSE
    /\ n.pulse = r.pulse \/ n.pulse = "NONE"
    /\ n.pending = r.pending \/ n.pending = "NONE"

\* Who claims nothing new of the group keeps what was seen.
LEMMA ModestKeeps ==
  ASSUME NEW r, NEW n, Grounded(r), AsBefore(r, n), Modest(r, n)
  PROVE  Keeps(r, n)
  BY DEF Keeps, Plain, Sane, Grounded, SawRun, AsBefore, Modest

\* Steps that leave the same fields, one after the other.
LEMMA AsBeforeComposes ==
  ASSUME NEW r, NEW s, NEW n, AsBefore(r, s), AsBefore(s, n)
  PROVE  AsBefore(r, n)
  BY DEF AsBefore

\* Closing and opening K1 says nothing of the group.
LEMMA RelayKeeps ==
  ASSUME NEW r, Grounded(r)
  PROVE  /\ \A n \in CloseK1(r) : Keeps(r, n) /\ AsBefore(r, n) /\ Modest(r, n)
                                  /\ n.pulse = r.pulse /\ n.pending = r.pending
         /\ Keeps(r, OpenK1(r)) /\ AsBefore(r, OpenK1(r)) /\ OpenK1(r).pulse = r.pulse
         /\ OpenK1(r).pending = r.pending
         /\ \A flag : Keeps(r, Trip(r, flag)) /\ AsBefore(r, Trip(r, flag))
  <1>1. IsMachine(r)
    BY DEF Grounded
  <1>2. ASSUME NEW n \in CloseK1(r)
        PROVE  AsBefore(r, n) /\ Modest(r, n) /\ n.pulse = r.pulse /\ n.pending = r.pending
    <2>1. n \in {r, [r EXCEPT !.k1 = TRUE, !.safety = "OPEN", !.taps = 1 - @],
                 [r EXCEPT !.safety = "LOCKOUT"]}
      BY <1>2 DEF CloseK1
    <2>2. CASE n = r
      BY <1>1, <2>2 DEF AsBefore, Modest
    <2>3. CASE n = [r EXCEPT !.k1 = TRUE, !.safety = "OPEN", !.taps = 1 - @]
      BY <1>1, <2>3 DEF AsBefore, Modest, IsMachine, MachineFields
    <2>4. CASE n = [r EXCEPT !.safety = "LOCKOUT"]
      BY <1>1, <2>4 DEF AsBefore, Modest, IsMachine, MachineFields
    <2> QED
      BY <2>1, <2>2, <2>3, <2>4
  <1>3. AsBefore(r, OpenK1(r)) /\ Modest(r, OpenK1(r)) /\ OpenK1(r).pulse = r.pulse
        /\ OpenK1(r).pending = r.pending
    BY <1>1 DEF OpenK1, AsBefore, Modest, IsMachine, MachineFields
  <1>4. ASSUME NEW flag
        PROVE  AsBefore(r, Trip(r, flag)) /\ Modest(r, Trip(r, flag))
    <2> DEFINE o == OpenK1(r)
               n == [o EXCEPT !.safety = "TRIPPED", !.trips = @ \cup {flag}]
    <2>1. n = Trip(r, flag)
      BY DEF Trip
    <2> HIDE DEF o
    <2>2. AsBefore(o, n) /\ Modest(o, n)
      BY <1>3 DEF AsBefore, Modest, IsMachine, MachineFields, o
    <2> HIDE DEF n
    <2> QED
      BY <1>3, <2>1, <2>2 DEF AsBefore, Modest, o
  <1> QED
    BY <1>2, <1>3, <1>4, ModestKeeps

\* noteMomentaryLogicalStart forgets what was seen of the group, and a press that
\* found it running is not one that starts it.
LEMMA StartPlain ==
  ASSUME NEW r, Grounded(r), r.gesture => ~r.before.running, NEW limit
  PROVE  LET n == LogicalStart(r, limit)
         IN  Plain(r, n) /\ n.gesture = r.gesture /\ n.before = r.before /\ n.pulse = r.pulse
             /\ n.rinseAsked = r.rinseAsked /\ n.down = r.down /\ n.pending = r.pending
  <1> DEFINE s == [r EXCEPT !.run = TRUE, !.limit = limit, !.coffee = FALSE, !.retry = FALSE]
             n == LogicalStart(r, limit)
  <1>1. IsMachine(r)
    BY DEF Grounded
  <1>2. /\ IsMachine(s) /\ s.build = r.build /\ s.gesture = r.gesture /\ s.down = r.down
        /\ s.rinseAsked = r.rinseAsked /\ s.edge = r.edge /\ s.before = r.before
        /\ s.pulse = r.pulse /\ s.pending = r.pending /\ s.session = r.session
        /\ s.belief = r.belief /\ s.sawFlow = r.sawFlow
    BY <1>1 DEF IsMachine, MachineFields
  <1>3. n = IF s.build.sensor = "FLOW" THEN FlowStart(s) ELSE ReedStart(s)
    BY DEF LogicalStart
  <1> HIDE DEF s
  <1>4. /\ AsBefore(s, n) /\ n.pulse = s.pulse /\ n.pending = s.pending
        /\ r.build.sensor = "FLOW" => n.belief = "RUNNING_UNCONFIRMED" /\ n.sawFlow = FALSE
    <2>1. CASE s.build.sensor = "FLOW"
      <3> DEFINE x == s.sawScale \/ s.fresh
      <3>1. n = [s EXCEPT !.belief = "RUNNING_UNCONFIRMED", !.hadFlow = FALSE, !.sawFlow = FALSE,
                      !.stopAck = FALSE, !.startAck = TRUE, !.orphan = FALSE, !.cutting = FALSE,
                      !.armed = FALSE, !.settling = FALSE, !.noFlow = FALSE, !.sawScale = x]
        BY <1>3, <2>1 DEF FlowStart
      <3> HIDE DEF x, n
      <3> QED
        BY Zenon, <1>2, <3>1 DEF AsBefore, IsMachine, MachineFields
    <2>2. CASE s.build.sensor # "FLOW"
      <3> DEFINE x == IF s.reed THEN "NONE" ELSE "ON"
      <3>1. n = [s EXCEPT !.issued = FALSE, !.assume = x]
        BY <1>3, <2>2 DEF ReedStart
      <3> HIDE DEF x, n
      <3> QED
        BY <1>2, <2>2, <3>1 DEF AsBefore, IsMachine, MachineFields
    <2> QED
      BY <2>1, <2>2
  <1> HIDE DEF n
  <1>5. Grounded(n)
    BY <1>2, <1>4 DEF Grounded, AsBefore
  <1>6. Plain(r, n)
    BY <1>2, <1>4, <1>5 DEF Plain, Sane, AsBefore
  <1> QED
    BY <1>2, <1>4, <1>6 DEF AsBefore, n

\* The belief operators never claim a run that was not seen.
LEMMA StopKeeps ==
  ASSUME NEW r, Grounded(r)
  PROVE  LET n == LogicalStop(r)
         IN  Keeps(r, n) /\ AsBefore(r, n) /\ n.pulse = r.pulse /\ n.pending = r.pending
  <1>1. IsMachine(r)
    BY DEF Grounded
  <1> DEFINE s == [r EXCEPT !.retry = FALSE, !.startAck = FALSE, !.settling = TRUE]
             n == LogicalStop(r)
  <1>2. AsBefore(r, s) /\ Modest(r, s) /\ s.pulse = r.pulse /\ s.pending = r.pending
    BY <1>1 DEF AsBefore, Modest, IsMachine, MachineFields
  <1>3. AsBefore(r, n) /\ Modest(r, n) /\ n.pulse = r.pulse /\ n.pending = r.pending
    <2>1. CASE r.build.sensor = "FLOW"
      <3> DEFINE b == IF s.sawScale THEN "UNKNOWN" ELSE "IDLE"
      <3>1. n \in {r, [s EXCEPT !.stopAck = TRUE, !.belief = "IDLE_UNCONFIRMED"],
                   [s EXCEPT !.stopAck = FALSE, !.belief = "IDLE_UNCONFIRMED"],
                   [s EXCEPT !.stopAck = FALSE, !.settling = FALSE, !.belief = b]}
        <4> DEFINE x == r.fresh
                   y == r.armed
        <4>1. FlowStop(r) = IF ~r.run /\ r.belief = "IDLE" /\ ~r.startAck THEN r
                            ELSE CASE x -> [s EXCEPT !.stopAck = TRUE, !.belief = "IDLE_UNCONFIRMED"]
                                   [] ~x /\ y -> [s EXCEPT !.stopAck = FALSE, !.belief = "IDLE_UNCONFIRMED"]
                                   [] OTHER -> [s EXCEPT !.stopAck = FALSE, !.settling = FALSE,
                                                         !.belief = IF s.sawScale THEN "UNKNOWN" ELSE "IDLE"]
          BY DEF FlowStop
        <4> QED
          BY <2>1, <4>1 DEF LogicalStop
      <3>2. b # "RUNNING"
        OBVIOUS
      <3> HIDE DEF b, n, s
      <3>3. CASE n = r
        BY <1>1, <3>3 DEF AsBefore, Modest
      <3>4. CASE n = [s EXCEPT !.stopAck = TRUE, !.belief = "IDLE_UNCONFIRMED"]
        BY <1>2, <3>4 DEF AsBefore, Modest, IsMachine, MachineFields
      <3>5. CASE n = [s EXCEPT !.stopAck = FALSE, !.belief = "IDLE_UNCONFIRMED"]
        BY <1>2, <3>5 DEF AsBefore, Modest, IsMachine, MachineFields
      <3>6. CASE n = [s EXCEPT !.stopAck = FALSE, !.settling = FALSE, !.belief = b]
        BY <1>2, <3>2, <3>6 DEF AsBefore, Modest, IsMachine, MachineFields
      <3> QED
        BY <3>1, <3>3, <3>4, <3>5, <3>6
    <2>2. CASE r.build.sensor # "FLOW"
      <3> DEFINE x == IF r.reed THEN "OFF" ELSE "NONE"
      <3>1. n = r \/ n = [r EXCEPT !.retry = FALSE, !.issued = TRUE, !.assume = x]
        BY <2>2 DEF LogicalStop, ReedStop
      <3> HIDE DEF x, n
      <3> QED
        BY <1>1, <3>1 DEF AsBefore, Modest, IsMachine, MachineFields
    <2> QED
      BY <2>1, <2>2
  <1> QED
    BY <1>3, ModestKeeps

\* Settling the belief to off, or undoing a start, claims no run.
LEMMA BeliefsKeep ==
  ASSUME NEW r, Grounded(r)
  PROVE  /\ Keeps(r, SettleOff(r)) /\ AsBefore(r, SettleOff(r)) /\ SettleOff(r).pulse = r.pulse
         /\ SettleOff(r).pending = r.pending
         /\ Keeps(r, StartCanceled(r)) /\ AsBefore(r, StartCanceled(r))
         /\ StartCanceled(r).pulse = r.pulse /\ StartCanceled(r).pending = r.pending
         /\ SawRun(r) /\ r.build.sensor = "FLOW" => Keeps(r, Confirmed(r))
         /\ Keeps(r, AbortPulse(r)) /\ AsBefore(r, AbortPulse(r))
  <1>1. IsMachine(r)
    BY DEF Grounded
  <1>2. AsBefore(r, SettleOff(r)) /\ Modest(r, SettleOff(r)) /\ SettleOff(r).pulse = r.pulse
        /\ SettleOff(r).pending = r.pending
    <2> DEFINE n == SettleOff(r)
    <2>1. n = [r EXCEPT !.hadFlow = FALSE, !.sawFlow = FALSE, !.stopAck = FALSE, !.retry = FALSE,
                 !.startAck = FALSE, !.orphan = FALSE, !.run = FALSE, !.cutting = FALSE,
                 !.armed = FALSE, !.settling = FALSE, !.noFlow = FALSE, !.belief = "IDLE"]
      BY DEF SettleOff
    <2> HIDE DEF n
    <2>2. IsMachine(n) /\ n.build = r.build /\ n.gesture = r.gesture /\ n.down = r.down
          /\ n.rinseAsked = r.rinseAsked /\ n.edge = r.edge /\ n.before = r.before
      BY Zenon, <1>1, <2>1 DEF IsMachine, MachineFields
    <2>3. n.coffee = r.coffee /\ n.reed = r.reed /\ n.sawOff = r.sawOff /\ n.session = r.session
          /\ n.belief = "IDLE" /\ n.sawFlow = FALSE /\ n.pulse = r.pulse /\ n.pending = r.pending
      BY <1>1, <2>1 DEF IsMachine, MachineFields
    <2> QED
      BY <2>2, <2>3 DEF AsBefore, Modest, n
  <1>3. AsBefore(r, StartCanceled(r)) /\ Modest(r, StartCanceled(r))
        /\ StartCanceled(r).pulse = r.pulse /\ StartCanceled(r).pending = r.pending
    <2> DEFINE n == StartCanceled(r)
    <2>1. n \in {[r EXCEPT !.hadFlow = FALSE, !.stopAck = FALSE, !.retry = FALSE,
                     !.startAck = FALSE, !.orphan = FALSE, !.settling = FALSE,
                     !.noFlow = FALSE, !.belief = "IDLE"],
                 [r EXCEPT !.retry = FALSE, !.issued = FALSE, !.assume = "NONE"]}
      BY DEF StartCanceled
    <2> HIDE DEF n
    <2>2. ASSUME n = [r EXCEPT !.hadFlow = FALSE, !.stopAck = FALSE, !.retry = FALSE,
                     !.startAck = FALSE, !.orphan = FALSE, !.settling = FALSE,
                     !.noFlow = FALSE, !.belief = "IDLE"]
          PROVE  AsBefore(r, n) /\ Modest(r, n) /\ n.pulse = r.pulse /\ n.pending = r.pending
      BY <1>1, <2>2 DEF AsBefore, Modest, IsMachine, MachineFields
    <2>3. ASSUME n = [r EXCEPT !.retry = FALSE, !.issued = FALSE, !.assume = "NONE"]
          PROVE  AsBefore(r, n) /\ Modest(r, n) /\ n.pulse = r.pulse /\ n.pending = r.pending
      BY <1>1, <2>3 DEF AsBefore, Modest, IsMachine, MachineFields
    <2> QED
      BY <2>1, <2>2, <2>3 DEF n
  <1>4. ASSUME SawRun(r), r.build.sensor = "FLOW"
        PROVE  Keeps(r, Confirmed(r))
    <2> DEFINE n == Confirmed(r)
    <2>1. AsBefore(r, n) /\ n.pulse = r.pulse /\ n.pending = r.pending
      BY <1>1 DEF Confirmed, AsBefore, IsMachine, MachineFields
    <2> HIDE DEF n
    <2>2. Keeps(r, n)
      BY <1>4, <2>1 DEF SawRun, Keeps, Plain, Sane, Grounded, AsBefore
    <2> QED
      BY <2>2 DEF n
  <1>5. AsBefore(r, AbortPulse(r)) /\ Modest(r, AbortPulse(r))
    <2> DEFINE s == [r EXCEPT !.pending = "NONE", !.pulse = "NONE"]
    <2>1. AsBefore(r, s) /\ Modest(r, s)
      BY <1>1 DEF AsBefore, Modest, IsMachine, MachineFields
    <2> HIDE DEF s
    <2>2. AsBefore(s, OpenK1(s)) /\ Modest(s, OpenK1(s)) /\ AsBefore(r, s)
      BY <2>1 DEF AsBefore, Modest, OpenK1, IsMachine, MachineFields
    <2>3. AsBefore(r, OpenK1(s)) /\ Modest(r, OpenK1(s))
      BY <2>1, <2>2 DEF AsBefore, Modest
    <2> QED
      BY <2>1, <2>3 DEF AbortPulse, s
  <1> QED
    BY <1>2, <1>3, <1>4, <1>5, ModestKeeps

\* The code asks for a stop pulse of its own only where the group was seen.
LEMMA AllowedStopIsSeen ==
  ASSUME NEW r, Grounded(r), AllowsStopPulse(r)
  PROVE  SawRun(r)
  BY DEF AllowsStopPulse, FlowAllowsStop, ReedAllowsStop, Grounded, SawRun

\* A pulse that is emitted presses the button with what was seen as it was.
LEMMA EmitCuts ==
  ASSUME NEW r, Grounded(r), NEW kind, NEW n \in EmitPulse(r, kind)
  PROVE  /\ Grounded(n) /\ n.build = r.build /\ n.pending = r.pending
         /\ SawRun(r) => SawRun(n)
         /\ n.pulse \in {r.pulse, kind}
         /\ AsBefore(r, n)
  <1>1. IsMachine(r)
    BY DEF Grounded
  <1>2. CASE n = r
    BY <1>1, <1>2 DEF AsBefore
  <1>3. CASE \E s \in CloseK1(r) :
               n = IF s.k1 THEN [s EXCEPT !.pulse = kind,
                                          !.cutting = @ \/ (s.build.sensor = "FLOW" /\ kind = "STOP")]
                   ELSE s
    <2>1. PICK s \in CloseK1(r) :
               n = IF s.k1 THEN [s EXCEPT !.pulse = kind,
                                          !.cutting = @ \/ (s.build.sensor = "FLOW" /\ kind = "STOP")]
                   ELSE s
      BY Zenon, <1>3
    <2>2. /\ Keeps(r, s) /\ AsBefore(r, s) /\ s.pulse = r.pulse /\ s.pending = r.pending
      BY RelayKeeps
    <2>3. CASE n = s
      BY <2>2, <2>3 DEF Keeps, Plain, Sane
    <2> DEFINE x == s.cutting \/ (s.build.sensor = "FLOW" /\ kind = "STOP")
    <2>4. CASE n = [s EXCEPT !.pulse = kind, !.cutting = x]
      <3> HIDE DEF x
      <3>1. IsMachine(s) /\ Grounded(s)
        BY <2>2 DEF Keeps, Plain, Sane, Grounded
      <3>2. /\ AsBefore(s, n) /\ n.pulse = kind /\ n.pending = s.pending
            /\ n.belief = s.belief /\ n.sawFlow = s.sawFlow
        BY <2>4, <3>1 DEF AsBefore, IsMachine, MachineFields
      <3>3. Grounded(n) /\ (SawRun(s) => SawRun(n))
        BY <3>1, <3>2 DEF Grounded, SawRun, AsBefore
      <3> QED
        BY <2>2, <3>2, <3>3 DEF Keeps, Plain, Sane, AsBefore
    <2> QED
      BY <2>1, <2>3, <2>4
  <1> QED
    BY Zenon, <1>2, <1>3 DEF EmitPulse

\* The mirror and the pulses change nothing of the belief.
Same(r, n) == Keeps(r, n) /\ AsBefore(r, n)

\* Steps that change nothing of the belief, one after the other.
LEMMA SameComposes ==
  ASSUME NEW r, NEW s, NEW n, Same(r, s), Same(s, n)
  PROVE  Same(r, n)
  BY KeepsComposes DEF Same, AsBefore

\* Such a step keeps the invariant.
LEMMA SameIsGrounded ==
  ASSUME NEW r, NEW n, Same(r, n)
  PROVE  Grounded(n) /\ Keeps(r, n) /\ AsBefore(r, n)
  BY DEF Same, Keeps, Plain, Sane

\* So does none.
LEMMA SameStays ==
  ASSUME NEW r, Grounded(r)
  PROVE  Same(r, r)
  BY DEF Same, Keeps, Plain, Sane, AsBefore, Grounded

\* A pulse in progress: its end, and the one that waits.
LEMMA ServicePulseSame ==
  ASSUME NEW r, Grounded(r), NEW n \in ServicePulse(r)
  PROVE  Same(r, n)
  <1> DEFINE o == OpenK1(r)
  <1>1. Same(r, o) /\ o.pulse = r.pulse /\ o.pending = r.pending /\ IsMachine(o)
    BY RelayKeeps DEF Same, AsBefore
  <1>2. CASE n = o
    BY <1>1, <1>2
  <1>3. CASE n \in CloseK1(r)
    BY <1>3, RelayKeeps DEF Same
  <1> HIDE DEF o
  <1>4. CASE n = [o EXCEPT !.pulse = "NONE"]
    <2>1. AsBefore(o, n) /\ Modest(o, n)
      BY <1>1, <1>4 DEF AsBefore, Modest, IsMachine, MachineFields
    <2>2. Same(o, n)
      BY <1>1, <2>1, ModestKeeps, SameIsGrounded DEF Same
    <2> QED
      BY <1>1, <2>2, SameComposes
  <1>5. CASE n \in EmitPulse([o EXCEPT !.pending = "NONE"], r.pending)
    <2> DEFINE d == [o EXCEPT !.pending = "NONE"]
    <2>1. AsBefore(o, d) /\ Modest(o, d) /\ d.pulse = o.pulse /\ d.pending = "NONE"
      BY <1>1 DEF AsBefore, Modest, IsMachine, MachineFields
    <2> HIDE DEF d
    <2>2. Same(o, d)
      BY <1>1, <2>1, ModestKeeps, SameIsGrounded DEF Same
    <2>3. /\ Grounded(n) /\ n.build = d.build /\ n.pending = d.pending
          /\ SawRun(d) => SawRun(n)
          /\ n.pulse \in {d.pulse, r.pending}
          /\ AsBefore(d, n)
      BY <1>5, <2>2, EmitCuts, SameIsGrounded DEF d
    <2>4. Same(r, d)
      BY <1>1, <2>2, SameComposes
    <2> QED
      BY <1>1, <2>1, <2>3, <2>4 DEF Same, Keeps, Plain, Sane, AsBefore
  <1> QED
    BY <1>2, <1>3, <1>4, <1>5 DEF ServicePulse, o

\* The mirror of the button.
LEMMA ForwardSame ==
  ASSUME NEW r, Grounded(r), NEW n \in Forward(r)
  PROVE  Same(r, n)
  <1> DEFINE o == OpenK1(r)
  <1>1. Same(r, o) /\ IsMachine(o)
    BY RelayKeeps DEF Same, AsBefore
  <1>2. n = [o EXCEPT !.suppressed = TRUE] \/ n = o \/ n \in CloseK1(r)
    BY DEF Forward
  <1> HIDE DEF o
  <1>3. CASE n = [o EXCEPT !.suppressed = TRUE]
    <2>1. AsBefore(o, n) /\ Modest(o, n)
      BY <1>1, <1>3 DEF AsBefore, Modest, IsMachine, MachineFields
    <2> QED
      BY <1>1, <2>1, ModestKeeps, SameIsGrounded, SameComposes DEF Same
  <1> QED
    BY <1>1, <1>2, <1>3, RelayKeeps DEF Same

\* driveActivator: the mirror, the pulses and the suppression.
LEMMA DriveSame ==
  ASSUME NEW r, Grounded(r), NEW n \in Drive(r)
  PROVE  Same(r, n)
  <1> DEFINE s == [r EXCEPT !.suppressed = FALSE]
             a == AbortPulse(r)
  <1>1. Same(r, s)
    <2>1. AsBefore(r, s) /\ Modest(r, s)
      BY DEF AsBefore, Modest, IsMachine, MachineFields, Grounded
    <2> QED
      BY <2>1, ModestKeeps DEF Same
  <1>2. Same(r, a)
    BY BeliefsKeep DEF Same
  <1>3. \/ n \in ServicePulse(r) \/ n \in Forward(r) \/ n \in Forward(a)
        \/ n \in ServicePulse(s) \/ n = OpenK1(s)
    BY DEF Drive
  <1> HIDE DEF s, a
  <1>4. CASE n \in ServicePulse(s) \/ n = OpenK1(s)
    <2>1. Same(s, n)
      BY <1>1, <1>4, ServicePulseSame, RelayKeeps, SameIsGrounded DEF Same
    <2> QED
      BY <1>1, <2>1, SameComposes
  <1>5. CASE n \in Forward(a)
    BY <1>2, <1>5, ForwardSame, SameIsGrounded, SameComposes
  <1> QED
    BY <1>3, <1>4, <1>5, ServicePulseSame, ForwardSame

\* The logical stop, an aborted pulse and a trip leave what was seen.
LEMMA StopIsSame ==
  ASSUME NEW r, Grounded(r)
  PROVE  Same(r, LogicalStop(r)) /\ Same(r, AbortPulse(r)) /\ Same(r, SettleOff(r))
         /\ Same(r, StartCanceled(r)) /\ \A flag : Same(r, Trip(r, flag))
  BY StopKeeps, BeliefsKeep, RelayKeeps DEF Same

\* A stop pulse, where the code found that the group was seen.
LEMMA EmitStopCuts ==
  ASSUME NEW r, Grounded(r), SawRun(r), NEW n \in EmitPulse(r, "STOP")
  PROVE  Cuts(r, n) /\ AsBefore(r, n)
  <1>1. /\ Grounded(n) /\ n.build = r.build /\ n.pending = r.pending
        /\ SawRun(r) => SawRun(n)
        /\ AsBefore(r, n)
    BY EmitCuts
  <1> QED
    BY <1>1 DEF Cuts, Sane, AsBefore

\* machineStopFromMirror presses only with the group seen to run.
LEMMA MaybeStopCuts ==
  ASSUME NEW r, Grounded(r), NEW n \in MaybeStopPulse(r)
  PROVE  Cuts(r, n) /\ AsBefore(r, n)
  <1>1. CASE AllowsStopPulse(r)
    BY <1>1, AllowedStopIsSeen, EmitStopCuts DEF MaybeStopPulse
  <1>2. CASE ~AllowsStopPulse(r)
    BY <1>2, StopIsSame, CutsCompose, SameIsGrounded DEF MaybeStopPulse
  <1> QED
    BY <1>1, <1>2

\* Fields that say nothing of the group.
LEMMA Settings ==
  ASSUME NEW r, Grounded(r), NEW a, NEW b, NEW c, NEW d
  PROVE  /\ Same(r, [r EXCEPT !.run = a, !.skip = b])
         /\ Same(r, [r EXCEPT !.run = a]) /\ Same(r, [r EXCEPT !.retry = a])
         /\ Same(r, [r EXCEPT !.armed = a]) /\ Same(r, [r EXCEPT !.noFlow = a])
         /\ Same(r, [r EXCEPT !.skip = a]) /\ Same(r, [r EXCEPT !.taps = a])
         /\ Same(r, [r EXCEPT !.trips = a]) /\ Same(r, [r EXCEPT !.parked = a])
         /\ Same(r, [r EXCEPT !.run = a, !.orphan = b])
         /\ Same(r, [r EXCEPT !.session = a, !.web = b])
         /\ Same(r, [r EXCEPT !.parked = a, !.rinsing = b])
         /\ Same(r, [r EXCEPT !.session = a, !.web = b, !.rinsing = c, !.parked = d])
         /\ Same(r, [r EXCEPT !.session = a, !.web = b, !.parked = c, !.rinsing = d])
         /\ Same(r, [r EXCEPT !.rinsing = a])
  <1>0. IsMachine(r)
    BY DEF Grounded
  <1>1. ASSUME NEW n, n \in {[r EXCEPT !.run = a, !.skip = b], [r EXCEPT !.run = a],
                   [r EXCEPT !.retry = a], [r EXCEPT !.armed = a], [r EXCEPT !.noFlow = a]}
        PROVE  Same(r, n)
    <2>1. AsBefore(r, n) /\ Modest(r, n)
      BY <1>0, <1>1 DEF AsBefore, Modest, IsMachine, MachineFields
    <2> QED
      BY <2>1, ModestKeeps DEF Same
  <1>2. ASSUME NEW n, n \in {[r EXCEPT !.skip = a], [r EXCEPT !.taps = a],
                   [r EXCEPT !.trips = a], [r EXCEPT !.parked = a],
                   [r EXCEPT !.run = a, !.orphan = b], [r EXCEPT !.rinsing = a]}
        PROVE  Same(r, n)
    <2>1. AsBefore(r, n) /\ Modest(r, n)
      BY <1>0, <1>2 DEF AsBefore, Modest, IsMachine, MachineFields
    <2> QED
      BY <2>1, ModestKeeps DEF Same
  <1>3. ASSUME NEW n, n \in {[r EXCEPT !.session = a, !.web = b],
                   [r EXCEPT !.parked = a, !.rinsing = b],
                   [r EXCEPT !.session = a, !.web = b, !.rinsing = c, !.parked = d],
                   [r EXCEPT !.session = a, !.web = b, !.parked = c, !.rinsing = d]}
        PROVE  Same(r, n)
    <2>1. AsBefore(r, n) /\ Modest(r, n)
      BY Zenon, <1>0, <1>3 DEF AsBefore, Modest, IsMachine, MachineFields
    <2> QED
      BY <2>1, ModestKeeps DEF Same
  <1> QED
    BY <1>1, <1>2, <1>3

\* machineRequestStop.
LEMMA RequestStopCuts ==
  ASSUME NEW r, Grounded(r), NEW n \in RequestStop(r)
  PROVE  Cuts(r, n)
  <1> DEFINE s == [r EXCEPT !.run = FALSE, !.skip = FALSE]
  <1>1. Same(r, s)
    BY Zenon, Settings
  <1>2. \/ n \in Drive(LogicalStop(AbortPulse(s))) \/ n = LogicalStop(s)
        \/ n \in Drive(LogicalStop(s))
        \/ AllowsStopPulse(s) /\ n \in EmitPulse(LogicalStop(s), "STOP")
    BY DEF RequestStop
  <1> HIDE DEF s
  <1>3. Grounded(s) /\ Same(s, LogicalStop(s)) /\ Same(s, AbortPulse(s))
        /\ Same(AbortPulse(s), LogicalStop(AbortPulse(s)))
    BY <1>1, StopIsSame, SameIsGrounded
  <1>4. CASE n \in Drive(LogicalStop(AbortPulse(s)))
    BY <1>1, <1>3, <1>4, DriveSame, SameIsGrounded, SameComposes, CutsCompose
  <1>5. CASE n = LogicalStop(s) \/ n \in Drive(LogicalStop(s))
    BY <1>1, <1>3, <1>5, DriveSame, SameIsGrounded, SameComposes, CutsCompose
  <1>6. CASE AllowsStopPulse(s) /\ n \in EmitPulse(LogicalStop(s), "STOP")
    <2>1. SawRun(LogicalStop(s)) /\ Grounded(LogicalStop(s))
      BY <1>3, <1>6, AllowedStopIsSeen, SameIsGrounded DEF Keeps
    <2>2. Cuts(LogicalStop(s), n)
      BY <1>6, <2>1, EmitStopCuts
    <2>3. Cuts(r, s) /\ Cuts(s, LogicalStop(s))
      BY <1>1, <1>3, SameIsGrounded, CutsCompose
    <2> QED
      BY <2>2, <2>3, CutsCompose
  <1> QED
    BY <1>2, <1>4, <1>5, <1>6

\* The requests of a web command may press without having seen the group; they
\* leave what is known of it as it was.
LEMMA QueueIsSane ==
  ASSUME NEW r, Grounded(r), NEW kind, NEW n \in QueuePulse(r, kind)
  PROVE  Sane(r, n)
  <1>1. n = r \/ n = [r EXCEPT !.pending = kind] \/ n \in EmitPulse(r, kind)
    BY DEF QueuePulse
  <1>2. CASE n = r
    BY <1>2 DEF Sane
  <1>3. CASE n = [r EXCEPT !.pending = kind]
    <2>1. AsBefore(r, n) /\ n.belief = r.belief /\ n.sawFlow = r.sawFlow
      BY <1>3 DEF AsBefore, IsMachine, MachineFields, Grounded
    <2> QED
      BY <2>1 DEF Sane, Grounded, AsBefore
  <1>4. CASE n \in EmitPulse(r, kind)
    <2>1. Grounded(n) /\ AsBefore(r, n)
      BY <1>4, EmitCuts
    <2> QED
      BY <2>1 DEF Sane, AsBefore
  <1> QED
    BY <1>1, <1>2, <1>3, <1>4

\* Sane steps, one after the other.
LEMMA SaneComposes ==
  ASSUME NEW r, NEW s, NEW n, Sane(r, s), Sane(s, n)
  PROVE  Sane(r, n)
  BY DEF Sane

\* Every kind of step above is sane.
LEMMA CutsAreSane ==
  ASSUME NEW r, NEW n, Cuts(r, n) \/ Same(r, n) \/ Plain(r, n) \/ Keeps(r, n)
  PROVE  Sane(r, n) /\ Grounded(n)
  BY DEF Cuts, Same, Keeps, Plain, Sane

\* A stop asked for by a page.
LEMMA WebStopIsSane ==
  ASSUME NEW r, Grounded(r), NEW n \in RequestWebStop(r)
  PROVE  Sane(r, n)
  <1> DEFINE s == [r EXCEPT !.run = FALSE, !.skip = FALSE]
  <1>1. Same(r, s)
    BY Settings
  <1>2. n \in RequestStop(r) \/ n \in QueuePulse(LogicalStop(s), "STOP")
    BY DEF RequestWebStop
  <1> HIDE DEF s
  <1>3. Grounded(s) /\ Same(s, LogicalStop(s)) /\ Grounded(LogicalStop(s))
    BY <1>1, StopIsSame, SameIsGrounded
  <1>4. Sane(r, s) /\ Sane(s, LogicalStop(s))
    BY <1>1, <1>3, CutsAreSane
  <1> QED
    BY <1>2, <1>3, <1>4, RequestStopCuts, CutsAreSane, QueueIsSane, SaneComposes

\* machineEndRinse.
LEMMA EndRinseIsSane ==
  ASSUME NEW r, Grounded(r), NEW n \in EndRinse(r)
  PROVE  Sane(r, n)
  <1> DEFINE q == [r EXCEPT !.run = FALSE, !.suppressed = TRUE]
             s == AbortPulse(LogicalStop(q))
  <1>1. Same(r, q)
    <2>1. AsBefore(r, q) /\ Modest(r, q)
      BY DEF AsBefore, Modest, IsMachine, MachineFields, Grounded
    <2> QED
      BY <2>1, ModestKeeps DEF Same
  <1>2. PICK t \in EmitPulse(s, "STOP") : n = [t EXCEPT !.rinsing = FALSE]
    BY DEF EndRinse
  <1> HIDE DEF q
  <1>3. Same(q, s)
    BY <1>1, StopIsSame, SameIsGrounded, SameComposes
  <1> HIDE DEF s
  <1>4. Grounded(t) /\ AsBefore(s, t)
    BY <1>2, <1>3, SameIsGrounded, EmitCuts
  <1>5. Sane(s, t)
    BY <1>4 DEF Sane, AsBefore
  <1>6. Same(t, n)
    BY Zenon, <1>2, <1>4, Settings
  <1> QED
    BY <1>1, <1>3, <1>5, <1>6, CutsAreSane, SaneComposes

-----------------------------------------------------------------------------
(* The sensors. *)

\* A belief that is not RUNNING, whatever else is set.
LEMMA Doubts ==
  ASSUME NEW r, Grounded(r), NEW a, NEW b, NEW c, NEW bel, bel = r.belief \/ bel # "RUNNING"
  PROVE  /\ Same(r, [r EXCEPT !.belief = bel])
         /\ Same(r, [r EXCEPT !.fresh = a, !.belief = bel])
         /\ Same(r, [r EXCEPT !.fresh = a, !.stopAck = b, !.belief = bel])
         /\ Same(r, [r EXCEPT !.stopAck = a, !.orphan = b, !.belief = bel])
         /\ Same(r, [r EXCEPT !.startAck = a, !.run = b, !.orphan = c, !.belief = bel])
  <1>1. ASSUME NEW n, n \in {[r EXCEPT !.belief = bel], [r EXCEPT !.fresh = a, !.belief = bel],
                   [r EXCEPT !.fresh = a, !.stopAck = b, !.belief = bel],
                   [r EXCEPT !.stopAck = a, !.orphan = b, !.belief = bel],
                   [r EXCEPT !.startAck = a, !.run = b, !.orphan = c, !.belief = bel]}
        PROVE  Same(r, n)
    <2>0. IsMachine(r)
      BY DEF Grounded
    <2>1. AsBefore(r, n) /\ n.belief = bel /\ n.sawFlow = r.sawFlow
          /\ n.pulse = r.pulse /\ n.pending = r.pending
      <3>1. CASE n = [r EXCEPT !.belief = bel]
        BY <2>0, <3>1 DEF AsBefore, IsMachine, MachineFields
      <3>2. CASE n = [r EXCEPT !.fresh = a, !.belief = bel]
        BY <2>0, <3>2 DEF AsBefore, IsMachine, MachineFields
      <3>3. CASE n = [r EXCEPT !.fresh = a, !.stopAck = b, !.belief = bel]
        BY <2>0, <3>3 DEF AsBefore, IsMachine, MachineFields
      <3>4. CASE n = [r EXCEPT !.stopAck = a, !.orphan = b, !.belief = bel]
        BY <2>0, <3>4 DEF AsBefore, IsMachine, MachineFields
      <3>5. CASE n = [r EXCEPT !.startAck = a, !.run = b, !.orphan = c, !.belief = bel]
        BY <2>0, <3>5 DEF AsBefore, IsMachine, MachineFields
      <3> QED
        BY <1>1, <3>1, <3>2, <3>3, <3>4, <3>5
    <2> QED
      BY <2>1, ModestKeeps DEF Same, Modest
  <1> QED
    BY <1>1

\* The acknowledgements say nothing of the group.
LEMMA Acknowledges ==
  ASSUME NEW r, Grounded(r), NEW a, NEW b, NEW c
  PROVE  /\ Same(r, [r EXCEPT !.stopAck = a])
         /\ Same(r, [r EXCEPT !.stopAck = a, !.settling = b, !.run = c])
         /\ Same(r, [r EXCEPT !.startAck = a, !.settling = b, !.run = c])
         /\ Same(r, [r EXCEPT !.fresh = a, !.sawScale = b])
  <1>1. ASSUME NEW n, n \in {[r EXCEPT !.stopAck = a],
                   [r EXCEPT !.stopAck = a, !.settling = b, !.run = c],
                   [r EXCEPT !.startAck = a, !.settling = b, !.run = c],
                   [r EXCEPT !.fresh = a, !.sawScale = b]}
        PROVE  Same(r, n)
    <2>1. AsBefore(r, n) /\ Modest(r, n)
      BY <1>1 DEF AsBefore, Modest, IsMachine, MachineFields, Grounded
    <2> QED
      BY <2>1, ModestKeeps DEF Same
  <1> QED
    BY <1>1

\* What the scale shows is evidence only while coffee flows.
LEMMA ConfirmedSame ==
  ASSUME NEW r, Grounded(r), r.coffee, r.build.sensor = "FLOW"
  PROVE  Same(r, Confirmed(r))
  <1>1. AsBefore(r, Confirmed(r))
    BY DEF Confirmed, AsBefore, IsMachine, MachineFields, Grounded
  <1> QED
    BY <1>1, BeliefsKeep DEF Same, SawRun

\* What the weight answers, without a claim of a run that was not seen.
LEMMA AnswersSame ==
  ASSUME NEW r, Grounded(r), NEW o, o = "FLOWED" => r.coffee, r.build.sensor = "FLOW"
  PROVE  /\ Same(r, SettleOnEdge(r, o)) /\ Same(r, WithoutWeight(r, o))
         /\ Same(r, AfterQuiet(r, o)) /\ Same(r, StopAnswered(r, o))
         /\ Same(r, StartAnswered(r, o)) /\ Same(r, FlowFades(r, o))
         /\ Same(r, FlowConfirms(r, o)) /\ Same(r, StaysDry(r, o))
  <1>0. Same(r, r)
    BY SameStays
  <1>1. Same(r, SettleOnEdge(r, o))
    BY Zenon, <1>0, StopIsSame, Doubts DEF SettleOnEdge
  <1>2. Same(r, WithoutWeight(r, o))
    <2> DEFINE settling == r.settling \/ r.armed
               faded == IF r.belief # "RUNNING" THEN r.belief
                        ELSE IF settling THEN "IDLE_UNCONFIRMED" ELSE "RUNNING_UNCONFIRMED"
               unknown == ~settling /\ (r.run \/ r.sawScale \/ r.stopAck)
               bel == IF unknown /\ (r.run \/ r.sawScale) THEN "UNKNOWN" ELSE faded
    <2>1. faded # "RUNNING" /\ bel # "RUNNING"
      OBVIOUS
    <2>2. WithoutWeight(r, o) \in {[r EXCEPT !.fresh = FALSE, !.belief = faded],
                                  [r EXCEPT !.fresh = FALSE, !.stopAck = FALSE, !.belief = bel]}
      BY DEF WithoutWeight
    <2> HIDE DEF faded, bel
    <2>3. Same(r, [r EXCEPT !.fresh = FALSE, !.belief = faded])
      BY Zenon, <2>1, Doubts
    <2>4. Same(r, [r EXCEPT !.fresh = FALSE, !.stopAck = FALSE, !.belief = bel])
      BY Zenon, <2>1, Doubts
    <2> QED
      BY <2>2, <2>3, <2>4
  <1>3. Same(r, AfterQuiet(r, o))
    <2> DEFINE s == IF o = "TARED" /\ r.run /\ r.belief = "RUNNING"
                      THEN [r EXCEPT !.belief = "RUNNING_UNCONFIRMED"] ELSE r
               t == IF IsQuiet(o) /\ (s.armed \/ s.settling) THEN SettleOff(s) ELSE s
    <2>1. Same(r, s)
      BY Zenon, <1>0, Doubts
    <2>2. AfterQuiet(r, o) \in {t, [t EXCEPT !.stopAck = FALSE, !.orphan = FALSE, !.belief = "IDLE"]}
      BY DEF AfterQuiet
    <2> HIDE DEF s
    <2>3. Same(s, t)
      BY <2>1, SameIsGrounded, SameStays, StopIsSame
    <2> HIDE DEF t
    <2>4. Same(t, [t EXCEPT !.stopAck = FALSE, !.orphan = FALSE, !.belief = "IDLE"])
      BY Zenon, <2>3, SameIsGrounded, Doubts
    <2> QED
      BY <2>1, <2>2, <2>3, <2>4, SameComposes
  <1>4. Same(r, StopAnswered(r, o))
    <2> DEFINE d == [r EXCEPT !.stopAck = FALSE, !.settling = FALSE, !.run = TRUE]
    <2>1. StopAnswered(r, o) \in {r, SettleOff(r), [r EXCEPT !.retry = TRUE],
                                 [r EXCEPT !.stopAck = FALSE]}
          \/ (o = "FLOWED" /\ StopAnswered(r, o) = Confirmed(d))
      BY DEF StopAnswered
    <2>2. Same(r, d)
      BY Zenon, Acknowledges
    <2> HIDE DEF d
    <2>3. o = "FLOWED" => Same(d, Confirmed(d))
      BY <2>2, SameIsGrounded, ConfirmedSame DEF AsBefore
    <2>4. Same(r, SettleOff(r)) /\ Same(r, [r EXCEPT !.retry = TRUE])
          /\ Same(r, [r EXCEPT !.stopAck = FALSE])
      BY Zenon, StopIsSame, Settings, Acknowledges
    <2>5. o = "FLOWED" => Same(r, Confirmed(d))
      BY <2>2, <2>3, SameComposes
    <2> QED
      BY Zenon, <1>0, <2>1, <2>4, <2>5
  <1>5. Same(r, StartAnswered(r, o))
    BY Zenon, <1>0, Doubts DEF StartAnswered
  <1>6. Same(r, FlowFades(r, o))
    BY Zenon, <1>0, Doubts DEF FlowFades
  <1>7. Same(r, FlowConfirms(r, o))
    <2> DEFINE x == r.run \/ r.belief = "IDLE_UNCONFIRMED"
               d == [r EXCEPT !.startAck = FALSE, !.settling = FALSE, !.run = x]
    <2>1. FlowConfirms(r, o) = r \/ (o = "FLOWED" /\ FlowConfirms(r, o) = Confirmed(d))
      BY DEF FlowConfirms
    <2> HIDE DEF x
    <2>2. Same(r, d)
      BY Zenon, Acknowledges
    <2> HIDE DEF d
    <2>3. o = "FLOWED" => Same(d, Confirmed(d))
      BY <2>2, SameIsGrounded, ConfirmedSame DEF AsBefore
    <2>5. o = "FLOWED" => Same(r, Confirmed(d))
      BY <2>2, <2>3, SameComposes
    <2> QED
      BY <1>0, <2>1, <2>5
  <1>8. Same(r, StaysDry(r, o))
    <2> DEFINE d == SettleOff(r)
    <2>1. Same(r, d)
      BY StopIsSame
    <2>2. StaysDry(r, o) \in {r, [d EXCEPT !.noFlow = TRUE]}
      BY DEF StaysDry
    <2> HIDE DEF d
    <2>3. Same(d, [d EXCEPT !.noFlow = TRUE])
      BY Zenon, <2>1, SameIsGrounded, Settings
    <2>4. Same(r, [d EXCEPT !.noFlow = TRUE])
      BY <2>1, <2>3, SameComposes
    <2> QED
      BY Zenon, <1>0, <2>2, <2>4
  <1> QED
    BY <1>1, <1>2, <1>3, <1>4, <1>5, <1>6, <1>7, <1>8

\* The evidence of one observation, handed from rule to rule.
Evident(r, o) ==
    Grounded(r) /\ (o = "FLOWED" => r.coffee) /\ r.build.sensor = "FLOW"

\* What the scale shows is still what it shows.
LEMMA EvidentStays ==
  ASSUME NEW r, NEW n, NEW o, Evident(r, o), Same(r, n)
  PROVE  Evident(n, o)
  BY SameIsGrounded DEF Evident, AsBefore

\* The scale confirms a run only with coffee flowing.
LEMMA WithWeightSame ==
  ASSUME NEW r, NEW o, Evident(r, o)
  PROVE  Same(r, WithWeight(r, o))
  <1> DEFINE s == [r EXCEPT !.fresh = TRUE, !.sawScale = TRUE]
             a == AfterQuiet(s, o)
             b == StopAnswered(a, o)
             c == StartAnswered(b, o)
             d == FlowFades(c, o)
             e == FlowConfirms(d, o)
             f == StaysDry(e, o)
  <1>1. WithWeight(r, o) = f
    BY DEF WithWeight
  <1>2. Same(r, s) /\ Evident(s, o)
    <2>1. Same(r, s)
      BY Zenon, Acknowledges DEF Evident
    <2> HIDE DEF s
    <2> QED
      BY <2>1, EvidentStays
  <1> HIDE DEF s
  <1>3. Same(r, a) /\ Evident(a, o)
    <2>1. Same(s, a)
      BY <1>2, AnswersSame DEF Evident
    <2> HIDE DEF a
    <2> QED
      BY <1>2, <2>1, EvidentStays, SameComposes
  <1> HIDE DEF a
  <1>4. Same(r, b) /\ Evident(b, o)
    <2>1. Same(a, b)
      BY <1>3, AnswersSame DEF Evident
    <2> HIDE DEF b
    <2> QED
      BY <1>3, <2>1, EvidentStays, SameComposes
  <1> HIDE DEF b
  <1>5. Same(r, c) /\ Evident(c, o)
    <2>1. Same(b, c)
      BY <1>4, AnswersSame DEF Evident
    <2> HIDE DEF c
    <2> QED
      BY <1>4, <2>1, EvidentStays, SameComposes
  <1> HIDE DEF c
  <1>6. Same(r, d) /\ Evident(d, o)
    <2>1. Same(c, d)
      BY <1>5, AnswersSame DEF Evident
    <2> HIDE DEF d
    <2> QED
      BY <1>5, <2>1, EvidentStays, SameComposes
  <1> HIDE DEF d
  <1>7. Same(r, e) /\ Evident(e, o)
    <2>1. Same(d, e)
      BY <1>6, AnswersSame DEF Evident
    <2> HIDE DEF e
    <2> QED
      BY <1>6, <2>1, EvidentStays, SameComposes
  <1> HIDE DEF e
  <1> QED
    BY <1>1, <1>7, AnswersSame, SameComposes DEF Evident

\* Flow on the scale is the evidence.
LEMMA FlowSensorKeeps ==
  ASSUME NEW r, Grounded(r), r.build.sensor = "FLOW", NEW o
  PROVE  Keeps(r, FlowSensor(r, o))
  <1> DEFINE x == r.coffee \/ o \in {"FLOWING", "FLOWED"}
             y == r.sawFlow \/ (o = "FLOWING" /\ r.session # "NONE")
             e == [r EXCEPT !.coffee = x, !.sawFlow = y]
             s == SettleOnEdge(e, o)
  <1>1. FlowSensor(r, o) \in {WithWeight(s, o), WithoutWeight(s, o)}
    BY DEF FlowSensor
  <1>2. (y => r.sawFlow \/ x) /\ (r.coffee => x) /\ (o = "FLOWED" => x)
    OBVIOUS
  <1> HIDE DEF x, y
  <1>3. Keeps(r, e) /\ Evident(e, o)
    <2>1. /\ IsMachine(e) /\ e.build = r.build /\ e.gesture = r.gesture /\ e.down = r.down
          /\ e.rinseAsked = r.rinseAsked /\ e.edge = r.edge /\ e.before = r.before
          /\ e.coffee = x /\ e.sawFlow = y /\ e.reed = r.reed /\ e.sawOff = r.sawOff
          /\ e.belief = r.belief /\ e.pulse = r.pulse /\ e.pending = r.pending
      BY DEF IsMachine, MachineFields, Grounded
    <2> HIDE DEF e
    <2>2. Grounded(e)
      BY <1>2, <2>1 DEF Grounded
    <2> QED
      BY <1>2, <2>1, <2>2 DEF Keeps, Plain, Sane, SawRun, Evident
  <1> HIDE DEF e
  <1>4. Same(e, s) /\ Evident(s, o)
    <2>1. Same(e, s)
      BY <1>3, AnswersSame DEF Evident
    <2> HIDE DEF s
    <2> QED
      BY <1>3, <2>1, EvidentStays
  <1> HIDE DEF s
  <1>5. Same(s, WithWeight(s, o)) /\ Same(s, WithoutWeight(s, o))
    BY <1>4, AnswersSame, WithWeightSame DEF Evident
  <1> QED
    BY <1>1, <1>3, <1>4, <1>5, KeepsComposes DEF Same

\* The window in which the reed may still follow a pulse.
LEMMA ReedSensorKeeps ==
  ASSUME NEW r, Grounded(r), NEW due
  PROVE  Keeps(r, ReedSensor(r, due))
  <1> DEFINE n == ReedSensor(r, due)
  <1>1. n \in {r, [r EXCEPT !.assume = "NONE"],
               [r EXCEPT !.assume = "NONE", !.run = FALSE, !.edge = "OFF"]}
    BY DEF ReedSensor
  <1> HIDE DEF n
  <1>2. /\ IsMachine(n) /\ n.build = r.build /\ n.gesture = r.gesture /\ n.down = r.down
        /\ n.rinseAsked = r.rinseAsked /\ n.edge \in {r.edge, "OFF"} /\ n.before = r.before
        /\ n.coffee = r.coffee /\ n.reed = r.reed /\ n.sawOff = r.sawOff
        /\ n.belief = r.belief /\ n.sawFlow = r.sawFlow /\ n.pulse = r.pulse
        /\ n.pending = r.pending
    <2>1. CASE n = r
      BY <2>1 DEF Grounded
    <2>2. CASE n = [r EXCEPT !.assume = "NONE"]
      BY <2>2 DEF IsMachine, MachineFields, Grounded
    <2>3. CASE n = [r EXCEPT !.assume = "NONE", !.run = FALSE, !.edge = "OFF"]
      BY <2>3 DEF IsMachine, MachineFields, Grounded
    <2> QED
      BY <1>1, <2>1, <2>2, <2>3
  <1>3. Grounded(n)
    BY <1>2 DEF Grounded
  <1>4. Keeps(r, n)
    BY <1>2, <1>3 DEF Keeps, Plain, Sane, SawRun
  <1> QED
    BY <1>4 DEF n

\* The walls of a logical run.
LEMMA WallsCut ==
  ASSUME NEW r, Grounded(r), NEW due, NEW n \in Walls(r, due)
  PROVE  Cuts(r, n)
  <1>1. ASSUME NEW q, Same(r, q), NEW x \in EndForWall(q)
        PROVE  Cuts(r, x)
    <2> DEFINE s == [q EXCEPT !.run = FALSE]
               y == q.orphan \/ (q.build.sensor = "FLOW" /\ q.belief # "IDLE")
               z == [q EXCEPT !.run = FALSE, !.orphan = y]
    <2>1. Same(q, s) /\ Grounded(q)
      BY Zenon, <1>1, SameIsGrounded, Settings
    <2>2. (\E t \in MaybeStopPulse(s) : x = LogicalStop(t)) \/ x = z
      <3>1. [s EXCEPT !.orphan = s.orphan \/ (q.build.sensor = "FLOW" /\ q.belief # "IDLE")] = z
        BY <2>1 DEF Grounded, IsMachine, MachineFields
      <3> QED
        BY <1>1, <3>1 DEF EndForWall
    <2> HIDE DEF s, y, z
    <2>3. ASSUME NEW t \in MaybeStopPulse(s), x = LogicalStop(t)
          PROVE  Cuts(q, x)
      <3>1. Grounded(s) /\ Cuts(s, t) /\ Grounded(t)
        BY <2>1, <2>3, SameIsGrounded, MaybeStopCuts DEF Cuts, Sane
      <3>2. Same(t, x)
        BY <2>3, <3>1, StopIsSame
      <3> QED
        BY <2>1, <3>1, <3>2, CutsCompose, SameIsGrounded
    <2>4. ASSUME x = z
          PROVE  Cuts(q, x)
      <3>1. Same(q, z)
        BY Zenon, <2>1, Settings DEF z
      <3>2. Cuts(q, z)
        BY <3>1, SameIsGrounded, CutsCompose
      <3> QED
        BY <2>4, <3>2
    <2> QED
      BY <1>1, <2>2, <2>3, <2>4, CutsCompose, SameIsGrounded
  <1> DEFINE d == SettleOff(r)
  <1>2. \/ n = r \/ n \in EndForWall(Trip(r, "wall")) \/ n = [d EXCEPT !.noFlow = TRUE]
        \/ n \in EndForWall(Trip(r, "hard"))
    BY DEF Walls
  <1>3. Same(r, d) /\ Same(r, Trip(r, "wall")) /\ Same(r, Trip(r, "hard")) /\ Same(r, r)
    BY StopIsSame, SameStays
  <1> HIDE DEF d
  <1>4. Same(d, [d EXCEPT !.noFlow = TRUE])
    BY Zenon, <1>3, SameIsGrounded, Settings
  <1>5. Cuts(r, r) /\ Cuts(r, [d EXCEPT !.noFlow = TRUE])
    <2>1. Same(r, [d EXCEPT !.noFlow = TRUE])
      BY <1>3, <1>4, SameComposes
    <2> QED
      BY <1>3, <2>1, SameIsGrounded, CutsCompose
  <1> QED
    BY <1>1, <1>2, <1>3, <1>5

\* serviceMachine: it presses only what was seen.
LEMMA ServiceCuts ==
  ASSUME Grounded(m), NEW o, NEW reedDue, NEW wallDue,
         NEW n \in ServiceMachine(o, reedDue, wallDue)
  PROVE  Cuts(m, n)
  <1> DEFINE sensed == IF Flow THEN FlowSensor(m, o) ELSE ReedSensor(m, reedDue)
  <1>1. Keeps(m, sensed) /\ Grounded(sensed)
    BY FlowSensorKeeps, ReedSensorKeeps DEF Flow, Keeps, Plain, Sane
  <1>2. PICK r \in Drive(sensed) : \E s \in Walls(r, wallDue) : n \in Retry(s)
    BY DEF ServiceMachine
  <1>6. PICK s \in Walls(r, wallDue) : n \in Retry(s)
    BY <1>2
  <1> HIDE DEF sensed
  <1>3. Same(sensed, r) /\ Grounded(r)
    BY <1>1, <1>2, DriveSame, SameIsGrounded
  <1>4. Cuts(r, s) /\ Grounded(s)
    BY <1>3, <1>6, WallsCut DEF Cuts, Sane
  <1>5. Cuts(s, n)
    <2> DEFINE d == [s EXCEPT !.retry = FALSE]
    <2>1. n = s \/ n \in MaybeStopPulse(d)
      BY <1>6 DEF Retry
    <2>2. Same(s, d) /\ Same(s, s)
      BY Zenon, <1>4, Settings, SameStays
    <2> HIDE DEF d
    <2>3. Cuts(s, d) /\ Grounded(d) /\ Cuts(s, s)
      BY <2>2, SameIsGrounded, CutsCompose
    <2> QED
      BY <2>1, <2>3, MaybeStopCuts, CutsCompose
  <1> QED
    BY <1>1, <1>3, <1>4, <1>5, CutsCompose, SameIsGrounded

-----------------------------------------------------------------------------
(* The orchestrator. *)

\* The end of a session: the rinse and the web may press blindly, the cuts may not.
LEMMA FinalizeCuts ==
  ASSUME NEW r, Grounded(r), NEW reason, NEW web, NEW n \in Finalize(r, reason, web)
  PROVE  Sane(r, n) /\ (r.session # "RINSE" /\ ~web => Cuts(r, n))
  <1> DEFINE x == Flow /\ reason = Cut
             s == [r EXCEPT !.armed = x]
  <1>1. PICK t \in CASE r.session = "RINSE" -> EndRinse(s)
                     [] r.session # "RINSE" /\ web -> RequestWebStop(s)
                     [] OTHER -> RequestStop(s) :
          n = [t EXCEPT !.session = "NONE", !.web = FALSE, !.rinsing = FALSE,
                        !.parked = r.down \/ reason = "trip"]
    BY Zenon DEF Finalize
  <1> HIDE DEF x
  <1>2. Same(r, s) /\ Grounded(s) /\ Sane(r, s) /\ Cuts(r, s)
    BY Zenon, Settings, SameIsGrounded, CutsAreSane, CutsCompose
  <1> HIDE DEF s
  <1>3. ASSUME Sane(s, t)
        PROVE  Sane(r, n) /\ (Cuts(s, t) => Cuts(r, n))
    <2>1. Same(t, n)
      BY Zenon, <1>1, <1>3, Settings DEF Sane
    <2>2. Sane(t, n) /\ Cuts(t, n)
      BY <2>1, CutsAreSane, SameIsGrounded, CutsCompose
    <2>3. Sane(r, t)
      BY <1>2, <1>3, SaneComposes
    <2> QED
      BY <1>2, <2>2, <2>3, SaneComposes, CutsCompose
  <1>4. CASE r.session = "RINSE"
    BY <1>1, <1>2, <1>3, <1>4, EndRinseIsSane
  <1>5. CASE r.session # "RINSE" /\ web
    BY <1>1, <1>2, <1>3, <1>5, WebStopIsSane
  <1>6. CASE r.session # "RINSE" /\ ~web
    <2>1. Cuts(s, t) /\ Sane(s, t)
      BY <1>1, <1>2, <1>6, RequestStopCuts, CutsAreSane
    <2> QED
      BY <1>3, <2>1
  <1> QED
    BY <1>4, <1>5, <1>6

\* Only a press that found the group at rest starts a cycle: the record of the
\* press stays true when what was seen of the group is forgotten.
LEMMA StartsArePlain ==
  ASSUME NEW r, Grounded(r), r.gesture => ~r.before.running, NEW limit, NEW web
  PROVE  /\ \A n \in RequestStart(r, limit, web) : Plain(r, n)
         /\ \A n \in BeginCycle(r, web) : Plain(r, n)
         /\ \A n \in BeginRinse(r, limit) : Plain(r, n)
         /\ \A n \in EnterRinse(r, web) : Plain(r, n)
  <1>1. ASSUME NEW q, Grounded(q), q.gesture => ~q.before.running, NEW lim,
               NEW n \in EmitPulse(LogicalStart(q, lim), "START")
        PROVE  Plain(q, n)
    <2> DEFINE s == LogicalStart(q, lim)
    <2>1. Plain(q, s)
      BY <1>1, StartPlain
    <2> HIDE DEF s
    <2>2. Grounded(s)
      BY <2>1, CutsAreSane
    <2>3. /\ Grounded(n) /\ n.build = s.build /\ n.pending = s.pending
          /\ n.pulse \in {s.pulse, "START"} /\ AsBefore(s, n)
      BY <1>1, <2>2, EmitCuts DEF s
    <2>4. Plain(s, n)
      BY <2>3 DEF Plain, Sane, AsBefore
    <2> QED
      BY <2>1, <2>4, PlainComposes
  <1>2. ASSUME NEW lim, NEW n \in RequestStart(r, lim, web)
        PROVE  Plain(r, n)
    <2>1. n = LogicalStart(r, lim) \/ n \in EmitPulse(LogicalStart(r, lim), "START")
      BY <1>2 DEF RequestStart
    <2> QED
      BY <1>1, <2>1, StartPlain
  <1>3. ASSUME NEW n \in BeginCycle(r, web)
        PROVE  Plain(r, n)
    <2>1. PICK s \in UNION {RequestStart(r, lim, web) : lim \in {"HARD", "WALL"}} :
            n = IF StartAccepted(s, web) THEN [s EXCEPT !.session = "SHOT", !.web = web]
                                         ELSE [s EXCEPT !.parked = TRUE, !.rinsing = FALSE]
      BY Zenon, <1>3 DEF BeginCycle
    <2>2. Plain(r, s)
      BY <1>2, <2>1
    <2>3. Same(s, [s EXCEPT !.session = "SHOT", !.web = web])
          /\ Same(s, [s EXCEPT !.parked = TRUE, !.rinsing = FALSE])
      BY Zenon, <2>2, Settings, CutsAreSane
    <2>4. Plain(s, n)
      BY <2>1, <2>3 DEF Same, Keeps
    <2> QED
      BY <2>2, <2>4, PlainComposes
  <1>4. ASSUME NEW lim, NEW n \in BeginRinse(r, lim)
        PROVE  Plain(r, n)
    <2> DEFINE q == [r EXCEPT !.rinsing = TRUE, !.suppressed = TRUE]
               s == OpenK1(AbortPulse(q))
    <2>1. AsBefore(r, q) /\ Modest(r, q)
      BY DEF AsBefore, Modest, IsMachine, MachineFields, Grounded
    <2>2. n = r \/ n \in EmitPulse(LogicalStart(s, lim), "START")
      BY <1>4 DEF BeginRinse
    <2> HIDE DEF q
    <2>3. Same(r, q) /\ Grounded(q)
      BY <2>1, ModestKeeps, SameIsGrounded DEF Same
    <2>4. Same(q, AbortPulse(q)) /\ Same(AbortPulse(q), s)
      BY <2>3, StopIsSame, RelayKeeps, SameIsGrounded DEF Same
    <2> HIDE DEF s
    <2>5. Same(r, s) /\ Grounded(s) /\ (s.gesture => ~s.before.running)
      BY <2>3, <2>4, SameComposes, SameIsGrounded DEF AsBefore
    <2>6. n = r \/ Plain(s, n)
      BY <1>1, <2>2, <2>5
    <2> QED
      BY <2>5, <2>6, KeepsComposes, SameIsGrounded, SameStays DEF Keeps
  <1>5. ASSUME NEW n \in EnterRinse(r, web)
        PROVE  Plain(r, n)
    <2>1. PICK s \in BeginRinse(r, "WALL") :
            n = IF s.pulse = "START"
              THEN [s EXCEPT !.session = "RINSE", !.web = IF r.session = "NONE" THEN web ELSE @]
              ELSE [s EXCEPT !.session = "NONE", !.web = FALSE, !.parked = TRUE, !.rinsing = FALSE]
      BY Zenon, <1>5 DEF EnterRinse
    <2>2. Plain(r, s)
      BY <1>4, <2>1
    <2> DEFINE x == IF r.session = "NONE" THEN web ELSE s.web
    <2>3. Same(s, [s EXCEPT !.session = "RINSE", !.web = x])
          /\ Same(s, [s EXCEPT !.session = "NONE", !.web = FALSE, !.parked = TRUE,
                               !.rinsing = FALSE])
      BY Zenon, <2>2, Settings, CutsAreSane
    <2>4. Plain(s, n)
      BY <2>1, <2>3 DEF Same, Keeps
    <2> QED
      BY <2>2, <2>4, PlainComposes
  <1> QED
    BY <1>2, <1>3, <1>4, <1>5

\* A pass of the orchestrator.
Seen(r, n) ==
    Sane(r, n) /\ (n.pulse = "STOP" => "STOP" \in {r.pulse, r.pending} \/ SawRun(n))

\* A cut presses a group that was seen.
LEMMA SeenFromCuts ==
  ASSUME NEW r, NEW n, Cuts(r, n) \/ Plain(r, n)
  PROVE  Seen(r, n)
  BY DEF Seen, Cuts, Plain

\* A step that changes nothing before one that presses what was seen.
LEMMA SameThenSeen ==
  ASSUME NEW r, NEW s, NEW n, Same(r, s) \/ Keeps(r, s), Seen(s, n)
  PROVE  Seen(r, n)
  BY DEF Seen, Same, Keeps, Plain, Sane

\* The control decides: outside a rinse it presses only what was seen.
LEMMA ActIsSeen ==
  ASSUME NEW r, Grounded(r), NEW cutDue, NEW n \in Act(r, cutDue)
  PROVE  Sane(r, n) /\ (r.session # "RINSE" => Seen(r, n))
  <1>1. ASSUME NEW q, Same(r, q), q.session = r.session, NEW reason, n \in Finalize(q, reason, FALSE)
        PROVE  Sane(r, n) /\ (r.session # "RINSE" => Seen(r, n))
    <2>1. Grounded(q) /\ Sane(r, q)
      BY <1>1, SameIsGrounded, CutsAreSane
    <2>2. Sane(q, n) /\ (q.session # "RINSE" => Seen(q, n))
      BY <1>1, <2>1, FinalizeCuts, SeenFromCuts
    <2> QED
      BY <1>1, <2>1, <2>2, SaneComposes, SameThenSeen
  <1>2. ASSUME NEW q, Same(r, q), n = q
        PROVE  Sane(r, n) /\ Seen(r, n)
    BY <1>2, CutsAreSane, SeenFromCuts DEF Same, Keeps
  <1>3. ASSUME Plain(r, n)
        PROVE  Sane(r, n) /\ Seen(r, n)
    BY <1>3, CutsAreSane, SeenFromCuts
  <1>4. Same(r, r)
    BY SameStays
  <1>5. CASE "hard" \in r.trips \/ "wall" \in r.trips
    <2> DEFINE x == IF "hard" \in r.trips THEN r.trips \ {"hard"} ELSE r.trips \ {"wall"}
               s == [r EXCEPT !.trips = x]
    <2>1. n = [s EXCEPT !.parked = TRUE] \/ n \in Finalize(s, "trip", FALSE)
      BY Zenon, <1>5 DEF Act
    <2> HIDE DEF x
    <2>2. Same(r, s) /\ s.session = r.session
      BY Zenon, Settings DEF IsMachine, MachineFields, Grounded
    <2> HIDE DEF s
    <2>3. Same(r, [s EXCEPT !.parked = TRUE])
      BY Zenon, <2>2, Settings, SameIsGrounded, SameComposes
    <2> QED
      BY <1>1, <1>2, <2>1, <2>2, <2>3
  <1>6. CASE ~("hard" \in r.trips \/ "wall" \in r.trips)
    <2> DEFINE p == [r EXCEPT !.parked = r.down]
               f == [r EXCEPT !.noFlow = FALSE]
    <2>1. Same(r, p) /\ Same(r, f) /\ f.session = r.session
      BY Zenon, Settings DEF IsMachine, MachineFields, Grounded
    <2>2. \/ n \in Finalize(r, "override", FALSE) \/ n = p \/ n = r
          \/ r.rinseAsked /\ n \in EnterRinse(r, FALSE)
          \/ r.edge = "ON" /\ n \in BeginCycle(r, FALSE)
          \/ n \in Finalize(r, "rinsed", FALSE) \/ n \in Finalize(r, "activator", FALSE)
          \/ n \in Finalize(f, "abandoned", FALSE) \/ n \in Finalize(r, Cut, FALSE)
      BY <1>6 DEF Act
    <2> HIDE DEF p, f
    <2>3. r.rinseAsked \/ r.edge = "ON" => (r.gesture => ~r.before.running)
      BY DEF Grounded
    <2>4. CASE (r.rinseAsked /\ n \in EnterRinse(r, FALSE))
               \/ (r.edge = "ON" /\ n \in BeginCycle(r, FALSE))
      BY <1>3, <2>3, <2>4, StartsArePlain
    <2> QED
      BY Zenon, <1>1, <1>2, <1>4, <2>1, <2>2, <2>4
  <1> QED
    BY <1>5, <1>6

\* The verdict on the cycle changes nothing of the belief.
LEMMA OutcomeKeeps ==
  ASSUME NEW r, Grounded(r)
  PROVE  LET n == CycleOutcome(r)
         IN  Keeps(r, n) /\ n.pulse = r.pulse
  <1> DEFINE q == [r EXCEPT !.run = FALSE, !.gesture = FALSE]
  <1>1. /\ IsMachine(q) /\ q.build = r.build /\ q.gesture = FALSE /\ q.down = r.down
        /\ q.rinseAsked = r.rinseAsked /\ q.edge = r.edge /\ q.before = r.before
        /\ q.coffee = r.coffee /\ q.sawFlow = r.sawFlow /\ q.reed = r.reed
        /\ q.sawOff = r.sawOff /\ q.belief = r.belief /\ q.pulse = r.pulse
        /\ q.pending = r.pending
    BY DEF IsMachine, MachineFields, Grounded
  <1>2. CycleOutcome(r) \in {r, StartCanceled(q)}
    BY DEF CycleOutcome
  <1> HIDE DEF q
  <1>3. Grounded(q)
    BY <1>1 DEF Grounded
  <1>4. Keeps(r, q)
    BY <1>1, <1>3 DEF Keeps, Plain, Sane, SawRun
  <1>5. Keeps(q, StartCanceled(q)) /\ StartCanceled(q).pulse = q.pulse
    BY <1>3, BeliefsKeep
  <1>6. Keeps(r, StartCanceled(q)) /\ Keeps(r, r)
    BY <1>4, <1>5, KeepsComposes, SameStays, SameIsGrounded
  <1> QED
    BY <1>1, <1>2, <1>5, <1>6

-----------------------------------------------------------------------------
(* The button. *)

\* A record the button leaves behind, with no pulse of its own.
Pressing(r, n) ==
    Grounded(n) /\ n.build = r.build /\ n.pulse = r.pulse /\ n.pending = r.pending
    /\ n.down = r.down

\* The toggle of a press: a group that runs is stopped, one that rests is started.
LEMMA EdgeIsGrounded ==
  ASSUME NEW r, Grounded(r), ~r.gesture
  PROVE  LET n == StartStopEdge(r)
         IN  /\ Pressing(r, n) /\ ~n.gesture /\ n.before = r.before
             /\ n.rinseAsked = r.rinseAsked
             /\ IsRunning(r) => n.coffee = r.coffee /\ n.edge = "OFF"
  <1> DEFINE n == StartStopEdge(r)
  <1>1. CASE IsRunning(r)
    <2> DEFINE q == [r EXCEPT !.edge = "OFF", !.userStop = TRUE, !.skip = TRUE, !.run = FALSE]
    <2>1. n = LogicalStop(q)
      BY <1>1 DEF StartStopEdge
    <2>2. /\ IsMachine(q) /\ q.build = r.build /\ q.gesture = r.gesture /\ q.down = r.down
          /\ q.rinseAsked = r.rinseAsked /\ q.edge = "OFF" /\ q.before = r.before
          /\ q.coffee = r.coffee /\ q.sawFlow = r.sawFlow /\ q.belief = r.belief
          /\ q.pulse = r.pulse /\ q.pending = r.pending
      BY DEF IsMachine, MachineFields, Grounded
    <2> HIDE DEF q
    <2>3. Grounded(q)
      BY <2>2 DEF Grounded
    <2>4. Grounded(n) /\ AsBefore(q, n) /\ n.pulse = q.pulse /\ n.pending = q.pending
      BY <2>1, <2>3, StopKeeps, CutsAreSane
    <2> HIDE DEF n
    <2> QED
      BY <2>2, <2>4 DEF AsBefore, Pressing, n
  <1>2. CASE ~IsRunning(r)
    <2> DEFINE q == LogicalStart(r, "HARD")
    <2>1. n = [q EXCEPT !.edge = "ON", !.startEdge = TRUE]
      BY <1>2 DEF StartStopEdge
    <2>2. Plain(r, q) /\ q.gesture = r.gesture /\ q.before = r.before /\ q.pulse = r.pulse
          /\ q.rinseAsked = r.rinseAsked /\ q.down = r.down /\ q.pending = r.pending
      BY StartPlain
    <2> HIDE DEF q
    <2>3. Grounded(q) /\ q.build = r.build
      BY <2>2 DEF Plain, Sane
    <2> HIDE DEF n
    <2>4. /\ IsMachine(n) /\ n.build = q.build /\ n.gesture = q.gesture /\ n.down = q.down
          /\ n.rinseAsked = q.rinseAsked /\ n.before = q.before
          /\ n.coffee = q.coffee /\ n.sawFlow = q.sawFlow /\ n.belief = q.belief
          /\ n.pulse = q.pulse /\ n.pending = q.pending
      BY <2>1, <2>3 DEF IsMachine, MachineFields, Grounded
    <2>5. Grounded(n)
      BY <2>2, <2>3, <2>4 DEF Grounded
    <2> QED
      BY <1>2, <2>2, <2>3, <2>4, <2>5 DEF Pressing, n
  <1> QED
    BY <1>1, <1>2

\* The button goes down: what was believed is kept for the moment it turns out to
\* be held.
LEMMA PressedIsGrounded ==
  ASSUME NEW r, Grounded(r), ~r.gesture, ~r.rinseAsked
  PROVE  Pressing(r, Pressed(r))
  <1> DEFINE idle == ~IsRunning(r)
             s == [r EXCEPT !.held = TRUE, !.rinseSent = FALSE, !.fromIdle = idle]
             before == [running |-> IsRunning(r), level |-> RunState(r)]
             q == [s EXCEPT !.before = before]
             e == StartStopEdge(q)
             n == [e EXCEPT !.gesture = TRUE]
  <1>1. Pressed(r) \in {s, n}
    <2>1. Pressed(r) = IF ~r.build.onPress THEN s ELSE n
      BY DEF Pressed
    <2> HIDE DEF s, n
    <2> QED
      BY <2>1
  <1> HIDE DEF idle
  <1>2. /\ AsBefore(r, s) /\ s.pulse = r.pulse /\ s.pending = r.pending
        /\ s.belief = r.belief /\ s.sawFlow = r.sawFlow
        /\ s.run = r.run /\ s.stopAck = r.stopAck /\ s.orphan = r.orphan
        /\ s.assume = r.assume /\ s.reed = r.reed
    BY DEF AsBefore, IsMachine, MachineFields, Grounded
  <1> HIDE DEF s
  <1>3. Grounded(s)
    BY <1>2 DEF AsBefore, Grounded
  <1>4. r.build.sensor = "FLOW" /\ RunState(r) = "RUNNING" => r.coffee
    BY DEF RunState, FlowState, Grounded
  <1>5. before.running = IsRunning(r) /\ before.level = RunState(r)
    OBVIOUS
  <1> HIDE DEF before
  <1>6. /\ IsMachine(q) /\ q.build = s.build /\ q.gesture = s.gesture /\ q.down = s.down
        /\ q.rinseAsked = s.rinseAsked /\ q.before = before /\ q.edge = s.edge
        /\ q.coffee = s.coffee /\ q.sawFlow = s.sawFlow /\ q.belief = s.belief
        /\ q.pulse = s.pulse /\ q.pending = s.pending
        /\ q.run = s.run /\ q.stopAck = s.stopAck /\ q.orphan = s.orphan
        /\ q.assume = s.assume /\ q.reed = s.reed
    BY <1>3 DEF IsMachine, MachineFields, Grounded
  <1> HIDE DEF q
  <1>7. IsRunning(q) = IsRunning(r)
    BY <1>2, <1>6 DEF AsBefore, IsRunning, FlowRunning, ReedRunning
  <1>8. Grounded(q) /\ ~q.gesture
    BY <1>2, <1>3, <1>6 DEF Grounded, AsBefore
  <1>9. /\ Pressing(q, e) /\ ~e.gesture /\ e.before = q.before /\ e.rinseAsked = q.rinseAsked
        /\ IsRunning(q) => e.coffee = q.coffee /\ e.edge = "OFF"
    BY <1>8, EdgeIsGrounded
  <1> HIDE DEF e
  <1>10. /\ IsMachine(n) /\ n.build = e.build /\ n.down = e.down
         /\ n.rinseAsked = e.rinseAsked /\ n.before = e.before /\ n.edge = e.edge
         /\ n.coffee = e.coffee /\ n.sawFlow = e.sawFlow /\ n.belief = e.belief
         /\ n.pulse = e.pulse /\ n.pending = e.pending
    BY <1>9 DEF IsMachine, MachineFields, Grounded, Pressing
  <1> HIDE DEF n
  <1>11. Grounded(n)
    <2>1. ~n.rinseAsked
      BY <1>2, <1>6, <1>9, <1>10 DEF AsBefore
    <2>2. n.edge = "ON" => ~n.before.running
      BY <1>5, <1>6, <1>7, <1>9, <1>10
    <2>3. n.build.sensor = "FLOW" /\ n.before.running /\ n.before.level = "RUNNING" => n.coffee
      BY <1>2, <1>4, <1>5, <1>6, <1>7, <1>9, <1>10 DEF Pressing, AsBefore
    <2>4. n.build.sensor = "FLOW" => (n.belief = "RUNNING" \/ n.sawFlow => n.coffee)
      BY <1>9, <1>10 DEF Pressing, Grounded
    <2> QED
      BY <1>10, <2>1, <2>2, <2>3, <2>4 DEF Grounded
  <1>12. Pressing(r, s) /\ Pressing(r, n)
    BY <1>2, <1>3, <1>6, <1>9, <1>10, <1>11 DEF Pressing, AsBefore
  <1> QED
    BY <1>1, <1>12

\* revertDisqualifiedSinglePress: what was believed when the button went down holds
\* again.
LEMMA RevertIsGrounded ==
  ASSUME NEW r, Grounded(r), r.gesture
  PROVE  Pressing(r, RevertPress(r))
  <1> DEFINE a == [r EXCEPT !.startEdge = FALSE, !.run = TRUE]
             b == [r EXCEPT !.startEdge = FALSE, !.edge = "OFF", !.userStop = TRUE,
                            !.skip = TRUE, !.run = FALSE]
  <1>1. RevertPress(r) = IF r.before.running THEN DisqualifiedPress(a, TRUE)
                         ELSE DisqualifiedPress(b, FALSE)
    BY DEF RevertPress
  <1>2. /\ AsBefore(r, a) /\ a.pulse = r.pulse /\ a.pending = r.pending
        /\ a.belief = r.belief /\ a.sawFlow = r.sawFlow
    BY DEF AsBefore, IsMachine, MachineFields, Grounded
  <1>3. /\ IsMachine(b) /\ b.build = r.build /\ b.gesture = r.gesture /\ b.down = r.down
        /\ b.rinseAsked = r.rinseAsked /\ b.edge = "OFF" /\ b.before = r.before
        /\ b.coffee = r.coffee /\ b.sawFlow = r.sawFlow /\ b.belief = r.belief
        /\ b.pulse = r.pulse /\ b.pending = r.pending
    BY DEF IsMachine, MachineFields, Grounded
  <1> HIDE DEF a, b
  <1>4. Grounded(a) /\ Grounded(b)
    BY <1>2, <1>3 DEF AsBefore, Grounded
  <1>5. ASSUME NEW q, Grounded(q), NEW restore,
               restore = TRUE /\ q.build.sensor = "FLOW" /\ q.before.level = "RUNNING" => q.coffee,
               restore \in BOOLEAN
        PROVE  Pressing(q, DisqualifiedPress(q, restore))
    <2> DEFINE n == DisqualifiedPress(q, restore)
               x == IF restore THEN "GRACE_ON" ELSE "GRACE_OFF"
               bel == IF q.before.level = "IDLE" THEN "RUNNING_UNCONFIRMED" ELSE q.before.level
    <2>1. \/ n = [q EXCEPT !.retry = FALSE, !.issued = FALSE, !.assume = x]
          \/ n = StartCanceled(q)
          \/ /\ restore = TRUE \/ q.build.sensor # "FLOW"
             /\ n = [q EXCEPT !.stopAck = FALSE, !.retry = FALSE, !.startAck = FALSE,
                              !.orphan = FALSE, !.settling = FALSE, !.belief = bel]
      BY <1>5 DEF DisqualifiedPress
    <2>2. bel = "RUNNING" => q.before.level = "RUNNING"
      OBVIOUS
    <2> HIDE DEF n, x, bel
    <2>3. ASSUME n = [q EXCEPT !.retry = FALSE, !.issued = FALSE, !.assume = x]
          PROVE  Pressing(q, n)
      <3>1. AsBefore(q, n) /\ n.pulse = q.pulse /\ n.pending = q.pending
            /\ n.belief = q.belief /\ n.sawFlow = q.sawFlow
        BY <1>5, <2>3 DEF AsBefore, IsMachine, MachineFields, Grounded
      <3> QED
        BY <1>5, <3>1 DEF Pressing, AsBefore, Grounded
    <2>4. ASSUME n = StartCanceled(q)
          PROVE  Pressing(q, n)
      BY <1>5, <2>4, BeliefsKeep, CutsAreSane DEF Pressing, AsBefore
    <2>5. ASSUME restore = TRUE \/ q.build.sensor # "FLOW",
                 n = [q EXCEPT !.stopAck = FALSE, !.retry = FALSE, !.startAck = FALSE,
                               !.orphan = FALSE, !.settling = FALSE, !.belief = bel]
          PROVE  Pressing(q, n)
      <3>1. AsBefore(q, n) /\ n.pulse = q.pulse /\ n.pending = q.pending
            /\ n.belief = bel /\ n.sawFlow = q.sawFlow
        BY <1>5, <2>5 DEF AsBefore, IsMachine, MachineFields, Grounded
      <3> QED
        BY <1>5, <2>2, <2>5, <3>1 DEF Pressing, AsBefore, Grounded
    <2> QED
      BY <2>1, <2>3, <2>4, <2>5 DEF n
  <1>6. CASE r.before.running
    <2>1. a.build.sensor = "FLOW" /\ a.before.level = "RUNNING" => a.coffee
      BY <1>2, <1>6 DEF Grounded, AsBefore
    <2>2. Pressing(a, DisqualifiedPress(a, TRUE))
      BY <1>4, <1>5, <2>1
    <2> QED
      BY <1>1, <1>2, <1>6, <2>2 DEF Pressing, AsBefore
  <1>7. CASE ~r.before.running
    <2>1. Pressing(b, DisqualifiedPress(b, FALSE))
      BY <1>4, <1>5
    <2> QED
      BY <1>1, <1>3, <1>7, <2>1 DEF Pressing
  <1> QED
    BY <1>6, <1>7

\* A gesture that ends.
LEMMA GestureEnds ==
  ASSUME NEW r, Grounded(r), NEW a, NEW b
  PROVE  /\ LET n == [r EXCEPT !.gesture = FALSE]
            IN  Pressing(r, n) /\ ~n.gesture
         /\ LET n == [r EXCEPT !.held = a, !.gesture = FALSE]
            IN  Pressing(r, n) /\ ~n.gesture
         /\ LET n == [r EXCEPT !.rinseAsked = a, !.rinseSent = b, !.gesture = FALSE]
            IN  Pressing(r, n) /\ ~n.gesture
  <1>1. ASSUME NEW n, n \in {[r EXCEPT !.gesture = FALSE], [r EXCEPT !.held = a, !.gesture = FALSE],
                   [r EXCEPT !.rinseAsked = a, !.rinseSent = b, !.gesture = FALSE]}
        PROVE  Pressing(r, n) /\ ~n.gesture
    <2>1. /\ IsMachine(n) /\ n.build = r.build /\ n.gesture = FALSE /\ n.down = r.down
          /\ n.coffee = r.coffee /\ n.sawFlow = r.sawFlow /\ n.belief = r.belief
          /\ n.pulse = r.pulse /\ n.pending = r.pending
      BY <1>1 DEF IsMachine, MachineFields, Grounded
    <2> QED
      BY <2>1 DEF Pressing, Grounded
  <1> QED
    BY <1>1

\* machineSampleInput presses nothing that did not wait.
LEMMA SampleIsSeen ==
  ASSUME MachineInv, NEW down \in BOOLEAN, NEW long, NEW blocked,
         NEW n \in Sample(down, long, blocked)
  PROVE  /\ Grounded(n) /\ (n.gesture => n.down) /\ n.build = m.build
         /\ n.pulse = "STOP" => "STOP" \in {m.pulse, m.pending}
  <1> DEFINE x == m.session # "NONE" \/ ~blocked
             s == [m EXCEPT !.edge = "NONE", !.userStop = FALSE, !.startEdge = FALSE,
                            !.rinseAsked = FALSE, !.down = down, !.allowed = x]
  <1>1. PICK r \in Drive(s) :
          n = CASE down /\ ~m.down -> Pressed(r)
                [] down /\ m.down /\ long -> HeldLong(r)
                [] ~down /\ m.down -> Released(r, long)
                [] OTHER -> r
    BY DEF Sample
  <1> HIDE DEF x
  <1>2. /\ IsMachine(s) /\ s.build = m.build /\ s.gesture = m.gesture /\ s.down = down
        /\ s.rinseAsked = FALSE /\ s.edge = "NONE" /\ s.before = m.before
        /\ s.coffee = m.coffee /\ s.sawFlow = m.sawFlow /\ s.belief = m.belief
        /\ s.pulse = m.pulse /\ s.pending = m.pending
    BY DEF IsMachine, MachineFields, Grounded, MachineInv
  <1> HIDE DEF s
  <1>3. Grounded(s)
    BY <1>2 DEF Grounded, MachineInv
  <1>4. Grounded(r) /\ AsBefore(s, r) /\ Keeps(s, r)
    BY <1>1, <1>3, DriveSame, SameIsGrounded
  <1>5. r.pulse = "STOP" => "STOP" \in {m.pulse, m.pending}
    BY <1>2, <1>4 DEF Keeps, Plain
  <1>6. r.down = down /\ r.build = m.build /\ (r.gesture => m.down) /\ ~r.rinseAsked
    BY <1>2, <1>4 DEF AsBefore, MachineInv
  <1>7. ASSUME Pressing(r, n), n.gesture => r.down
        PROVE  /\ Grounded(n) /\ (n.gesture => n.down) /\ n.build = m.build
               /\ n.pulse = "STOP" => "STOP" \in {m.pulse, m.pending}
    BY <1>5, <1>6, <1>7 DEF Pressing
  <1>8. Pressing(r, r)
    BY <1>4 DEF Pressing
  <1>9. CASE down /\ ~m.down
    BY <1>1, <1>4, <1>6, <1>7, <1>9, PressedIsGrounded
  <1>10. CASE down /\ m.down /\ long
    <2>1. n = HeldLong(r) /\ r.down
      BY <1>1, <1>6, <1>10
    <2>2. \/ n = [r EXCEPT !.rinseAsked = TRUE, !.rinseSent = TRUE, !.gesture = FALSE]
          \/ r.gesture /\ n = [RevertPress(r) EXCEPT !.gesture = FALSE]
          \/ n = r
      BY <2>1 DEF HeldLong
    <2>3. r.gesture => Pressing(r, [RevertPress(r) EXCEPT !.gesture = FALSE])
      <3> SUFFICES ASSUME r.gesture
                   PROVE  Pressing(r, [RevertPress(r) EXCEPT !.gesture = FALSE])
        OBVIOUS
      <3> DEFINE q == RevertPress(r)
      <3>1. Pressing(r, q)
        BY <1>4, RevertIsGrounded
      <3> HIDE DEF q
      <3>2. Pressing(q, [q EXCEPT !.gesture = FALSE])
        BY Zenon, <3>1, GestureEnds DEF Pressing
      <3>3. Pressing(r, [q EXCEPT !.gesture = FALSE])
        BY <3>1, <3>2 DEF Pressing
      <3> QED
        BY <3>3 DEF q
    <2>4. Pressing(r, [r EXCEPT !.rinseAsked = TRUE, !.rinseSent = TRUE, !.gesture = FALSE])
      BY Zenon, <1>4, GestureEnds
    <2> QED
      BY <1>7, <1>8, <2>1, <2>2, <2>3, <2>4
  <1>11. CASE ~down /\ m.down
    <2> DEFINE q == [r EXCEPT !.held = FALSE, !.gesture = FALSE]
    <2>1. n = q \/ n = StartStopEdge(q)
      BY <1>1, <1>11 DEF Released
    <2>2. Pressing(r, q) /\ ~q.gesture
      BY Zenon, <1>4, GestureEnds
    <2> HIDE DEF q
    <2>3. Pressing(q, StartStopEdge(q)) /\ ~StartStopEdge(q).gesture
      BY <2>2, EdgeIsGrounded DEF Pressing
    <2>4. Pressing(r, n) /\ ~n.gesture
      BY <2>1, <2>2, <2>3 DEF Pressing
    <2> QED
      BY <1>7, <2>4
  <1>12. CASE ~(down /\ ~m.down) /\ ~(down /\ m.down /\ long) /\ ~(~down /\ m.down)
    <2>1. n = r
      BY <1>1, <1>12
    <2>2. r.gesture => r.down
      BY <1>6, <1>12
    <2> QED
      BY <1>7, <1>8, <2>1, <2>2
  <1> QED
    BY <1>9, <1>10, <1>11, <1>12

-----------------------------------------------------------------------------
(* The steps. *)

\* A command of a page or of the console.
LEMMA CommandIsGrounded ==
  ASSUME MachineInv, NEW command, NEW n \in ServeCommand(m, command)
  PROVE  Grounded(n) /\ (n.gesture => n.down) /\ n.build = m.build
  <1>0. Grounded(m) /\ (m.gesture => m.down)
    BY DEF MachineInv
  <1>1. ASSUME Sane(m, n)
        PROVE  Grounded(n) /\ (n.gesture => n.down) /\ n.build = m.build
    BY <1>0, <1>1 DEF Sane
  <1>2. Same(m, m) /\ Sane(m, m)
    BY <1>0, SameStays, CutsAreSane
  <1>3. CASE command = "STOP"
    <2> DEFINE s == [m EXCEPT !.skip = FALSE]
    <2>1. n = m \/ n \in RequestWebStop(s) \/ n \in Finalize(s, "web", TRUE)
      BY Zenon, <1>3 DEF ServeCommand
    <2>2. Same(m, s)
      BY Zenon, <1>0, Settings
    <2> HIDE DEF s
    <2>3. Grounded(s) /\ Sane(m, s)
      BY <2>2, SameIsGrounded, CutsAreSane
    <2> QED
      BY <1>1, <1>2, <2>1, <2>3, WebStopIsSane, FinalizeCuts, SaneComposes
  <1>4. CASE command = "PULSE"
    BY <1>0, <1>1, <1>4, QueueIsSane DEF ServeCommand
  <1>5. CASE command = "OFF"
    <2> DEFINE s == IF Flow THEN SettleOff(m) ELSE m
    <2>1. n = s \/ n \in Finalize(s, "web", FALSE)
      <3>1. CASE m.session = "NONE"
        <4>1. ServeCommand(m, command) = {s}
          BY <1>5, <3>1 DEF ServeCommand, Flow
        <4> HIDE DEF s
        <4> QED
          BY <4>1
      <3>2. CASE m.session # "NONE"
        BY <1>5, <3>2 DEF ServeCommand, Flow
      <3> QED
        BY <3>1, <3>2
    <2>2. Same(m, s)
      BY <1>0, <1>2, StopIsSame
    <2> HIDE DEF s
    <2>3. Grounded(s) /\ Sane(m, s)
      BY <2>2, SameIsGrounded, CutsAreSane
    <2> QED
      BY <1>1, <2>1, <2>3, FinalizeCuts, SaneComposes
  <1>6. CASE command = "ON"
    <2> DEFINE s == [m EXCEPT !.stopAck = FALSE, !.startAck = FALSE,
                              !.orphan = FALSE, !.armed = FALSE, !.settling = FALSE,
                              !.noFlow = FALSE, !.run = TRUE, !.coffee = TRUE]
    <2>1. n = m \/ (m.build.sensor = "FLOW" /\ n = Confirmed(s))
      BY <1>6 DEF ServeCommand, Flow
    <2>2. /\ IsMachine(s) /\ s.build = m.build /\ s.gesture = m.gesture /\ s.down = m.down
          /\ s.rinseAsked = m.rinseAsked /\ s.edge = m.edge /\ s.before = m.before
          /\ s.coffee = TRUE
      BY <1>0 DEF IsMachine, MachineFields, Grounded
    <2> HIDE DEF s
    <2>3. Grounded(s)
      BY <1>0, <2>2 DEF Grounded
    <2>4. m.build.sensor = "FLOW" => Same(s, Confirmed(s))
      BY <2>2, <2>3, ConfirmedSame
    <2>5. Sane(m, s)
      BY <2>2, <2>3 DEF Sane
    <2> QED
      BY <1>1, <1>2, <2>1, <2>4, <2>5, CutsAreSane, SaneComposes
  <1>7. CASE command \notin {"STOP", "PULSE", "OFF", "ON"}
    <2>1. n = m \/ (~m.down /\ (n \in BeginCycle(m, TRUE) \/ n \in EnterRinse(m, TRUE)))
      BY <1>7 DEF ServeCommand
    <2> QED
      BY <1>0, <1>1, <1>2, <2>1, StartsArePlain, CutsAreSane
  <1> QED
    BY <1>3, <1>4, <1>5, <1>6, <1>7

\* A step, but for the commands and the end of a rinse, emits no stop pulse unless
\* the group was seen.
LEMMA StepIsSeen ==
  ASSUME MachineInv, [MomentaryNext]_momentaryVars
  PROVE  /\ MachineInv'
         /\ mpc # "commands" /\ m.session # "RINSE" /\ m'.pulse = "STOP" =>
              "STOP" \in {m.pulse, m.pending} \/ (SawRun(m') /\ m'.build = m.build)
  <1>0. Grounded(m) /\ (m.gesture => m.down) /\ IsMachine(m)
    BY DEF MachineInv, Grounded
  <1>1. ASSUME NEW r, Grounded(r), r.gesture => r.down, MachineBecomes(r)
        PROVE  MachineInv' /\ m'.pulse = r.pulse /\ m'.build = r.build /\ (SawRun(r) => SawRun(m'))
    <2>1. m' = [r EXCEPT !.taps = 0]
      BY <1>1 DEF MachineBecomes
    <2>2. AsBefore(r, m') /\ m'.pulse = r.pulse /\ m'.belief = r.belief /\ m'.sawFlow = r.sawFlow
      BY <1>1, <2>1 DEF AsBefore, IsMachine, MachineFields, Grounded
    <2> QED
      BY <1>1, <2>2 DEF MachineInv, Grounded, AsBefore, SawRun
  <1>2. CASE SampleInput
    <2>0. PICK down \in BOOLEAN, long \in BOOLEAN, blocked \in BOOLEAN :
            \E r \in Sample(down, long, blocked) : MachineBecomes(r)
      BY <1>2 DEF SampleInput
    <2>1. PICK r \in Sample(down, long, blocked) : MachineBecomes(r)
      BY <2>0
    <2>2. /\ Grounded(r) /\ (r.gesture => r.down)
          /\ r.pulse = "STOP" => "STOP" \in {m.pulse, m.pending}
      BY <2>1, SampleIsSeen
    <2> QED
      BY <1>1, <2>1, <2>2
  <1>3. CASE Service
    <2>1. PICK o, reedDue, wallDue : \E r \in ServiceMachine(o, reedDue, wallDue) : MachineBecomes(r)
      BY <1>3 DEF Service
    <2>2. PICK r \in ServiceMachine(o, reedDue, wallDue) : MachineBecomes(r)
      BY <2>1
    <2>3. Cuts(m, r)
      BY <1>0, <2>2, ServiceCuts
    <2>4. Grounded(r) /\ (r.gesture => r.down) /\ r.build = m.build
          /\ (r.pulse = "STOP" => "STOP" \in {m.pulse, m.pending} \/ SawRun(r))
      BY <1>0, <2>3 DEF Cuts, Sane
    <2> QED
      BY <1>1, <2>2, <2>4
  <1>4. CASE Control
    <2>1. PICK s \in CutSettlements : \E cutDue \in BOOLEAN :
            \E r \in Act(s, cutDue) : MachineBecomes(CycleOutcome(r))
      BY <1>4 DEF Control
    <2>2. PICK cutDue \in BOOLEAN : \E r \in Act(s, cutDue) : MachineBecomes(CycleOutcome(r))
      BY <2>1
    <2>3. PICK r \in Act(s, cutDue) : MachineBecomes(CycleOutcome(r))
      BY <2>2
    <2>4. Same(m, s) /\ s.session = m.session
      <3>1. s = m \/ s = [m EXCEPT !.armed = FALSE]
        BY <2>1 DEF CutSettlements
      <3>2. Same(m, m) /\ Same(m, [m EXCEPT !.armed = FALSE])
        BY Zenon, <1>0, Settings, SameStays
      <3>3. [m EXCEPT !.armed = FALSE].session = m.session
        BY <1>0 DEF IsMachine, MachineFields
      <3> QED
        BY Zenon, <3>1, <3>2, <3>3
    <2>5. Sane(s, r) /\ (s.session # "RINSE" => Seen(s, r))
      BY <2>3, <2>4, SameIsGrounded, ActIsSeen
    <2>6. Sane(m, r) /\ (m.session # "RINSE" => Seen(m, r))
      BY <2>4, <2>5, SaneComposes, CutsAreSane, SameThenSeen
    <2> DEFINE n == CycleOutcome(r)
    <2>7. Keeps(r, n) /\ n.pulse = r.pulse
      BY <2>6, OutcomeKeeps DEF Sane
    <2>8. Sane(m, n) /\ (SawRun(r) => SawRun(n))
      BY <2>6, <2>7, SaneComposes, CutsAreSane DEF Keeps
    <2>9. MachineBecomes(n)
      BY <2>3
    <2> HIDE DEF n
    <2>10. Grounded(n) /\ (n.gesture => n.down) /\ n.build = m.build
      BY <1>0, <2>8 DEF Sane
    <2>11. m.session # "RINSE" /\ n.pulse = "STOP" =>
             "STOP" \in {m.pulse, m.pending} \/ SawRun(n)
      BY <2>6, <2>7, <2>8 DEF Seen
    <2> QED
      BY <1>1, <2>9, <2>10, <2>11
  <1>5. CASE Commands
    <2>1. mpc = "commands" /\ (m' = m \/ \E command : \E r \in ServeCommand(m, command) : MachineBecomes(r))
      BY <1>5 DEF Commands
    <2>2. CASE m' = m
      BY <2>1, <2>2 DEF MachineInv, Grounded, IsMachine
    <2>3. CASE \E command : \E r \in ServeCommand(m, command) : MachineBecomes(r)
      BY <1>1, <2>1, <2>3, CommandIsGrounded
    <2> QED
      BY <2>1, <2>2, <2>3
  <1>6. CASE LimitCuts
    <2>1. m' = Trip(m, "hard")
      BY <1>6 DEF LimitCuts
    <2>2. Same(m, m')
      BY <1>0, <2>1, StopIsSame
    <2> QED
      BY <1>0, <2>2, SameIsGrounded DEF MachineInv, AsBefore, Keeps, Plain
  <1>7. CASE ReedFollows
    <2>1. m.build.sensor # "FLOW" /\ m' = [m EXCEPT !.reed = group, !.sawOff = @ \/ ~group]
      BY <1>7 DEF ReedFollows, Flow
    <2>2. /\ IsMachine(m') /\ m'.build = m.build /\ m'.gesture = m.gesture /\ m'.down = m.down
          /\ m'.rinseAsked = m.rinseAsked /\ m'.edge = m.edge /\ m'.before = m.before
          /\ m'.pulse = m.pulse
      BY <1>0, <2>1 DEF IsMachine, MachineFields
    <2> QED
      BY <1>0, <2>1, <2>2 DEF MachineInv, Grounded
  <1>8. CASE m' = m
    BY <1>8 DEF MachineInv, Grounded, IsMachine
  <1> QED
    BY <1>2, <1>3, <1>4, <1>5, <1>6, <1>7, <1>8 DEF MomentaryNext, GroupTurns, momentaryVars

\* The invariant holds at power on.
LEMMA MachineStarts ==
  ASSUME MomentaryInit
  PROVE  MachineInv
  <1>1. m.gesture = FALSE /\ m.belief = "IDLE" /\ m.sawFlow = FALSE
    BY DEF MomentaryInit
  <1>2. IsMachine(m)
    BY Zenon DEF MomentaryInit, IsMachine, MachineFields
  <1> QED
    BY <1>1, <1>2 DEF MachineInv, Grounded

(* The firmware never presses for a stop of its own unless the group was seen to
   run: what it believes, and what it believed when a press that is taken back
   began, rests on coffee since the start; the reed build looks at the sensor. *)
THEOREM NoBlindStop == MomentarySpec => OnlyARunIsCut
  <1>1. ASSUME MachineInv, [MomentaryNext]_momentaryVars
        PROVE  [mpc # "commands" /\ Emits /\ m.session # "RINSE" =>
                  IF Flow THEN m'.coffee ELSE m'.reed /\ m'.sawOff]_momentaryVars
    BY <1>1, StepIsSeen DEF Emits, Flow, SawRun
  <1>2. MachineInv /\ [MomentaryNext]_momentaryVars => MachineInv'
    BY StepIsSeen
  <1> QED
    BY <1>1, <1>2, MachineStarts, PTL DEF MomentarySpec, OnlyARunIsCut

-----------------------------------------------------------------------------
(* The contact of the momentary machine. *)

RelayFields == {"k1", "pulse", "down"}
IsRelay(r) == r = [f \in DOMAIN r |-> r[f]] /\ RelayFields \subseteq DOMAIN r

\* A contact that is closed has a pulse or a held button for it.
Reasoned(r) == r.k1 => r.pulse # "NONE" \/ r.down

\* The next record, with the contact, the pulses and the button as they are; or with
\* a contact that is closed for a reason if it was before.
Leaves(r, n) ==
    IsRelay(n) /\ n.k1 = r.k1 /\ n.pulse = r.pulse /\ n.down = r.down
Minds(r, n) == IsRelay(n) /\ n.down = r.down /\ (Reasoned(r) => Reasoned(n))

\* Steps of these kinds, one after the other.
LEMMA LeavesComposes ==
  ASSUME NEW r, NEW s, NEW n, Leaves(r, s), Leaves(s, n)
  PROVE  Leaves(r, n)
  BY DEF Leaves

\* A step that leaves the contact alone minds it.
LEMMA MindsComposes ==
  ASSUME NEW r, NEW s, NEW n
  PROVE  /\ Minds(r, s) /\ Minds(s, n) => Minds(r, n)
         /\ Leaves(r, s) => Minds(r, s)
  BY DEF Minds, Leaves, Reasoned

\* The belief in the group has no contact.
LEMMA BeliefsLeave ==
  ASSUME NEW r, IsRelay(r)
  PROVE  /\ Leaves(r, SettleOff(r)) /\ Leaves(r, StartCanceled(r)) /\ Leaves(r, Confirmed(r))
         /\ Leaves(r, LogicalStop(r)) /\ \A limit : Leaves(r, LogicalStart(r, limit))
         /\ \A restore : Leaves(r, DisqualifiedPress(r, restore))
  <1>1. Leaves(r, SettleOff(r)) /\ Leaves(r, Confirmed(r))
    BY DEF SettleOff, Confirmed, Leaves, IsRelay, RelayFields
  <1>2. Leaves(r, StartCanceled(r))
    BY DEF StartCanceled, Leaves, IsRelay, RelayFields
  <1>3. Leaves(r, LogicalStop(r))
    BY DEF LogicalStop, FlowStop, ReedStop, Leaves, IsRelay, RelayFields
  <1>4. ASSUME NEW limit PROVE Leaves(r, LogicalStart(r, limit))
    BY DEF LogicalStart, FlowStart, ReedStart, Leaves, IsRelay, RelayFields
  <1>5. ASSUME NEW restore PROVE Leaves(r, DisqualifiedPress(r, restore))
    BY <1>2 DEF DisqualifiedPress, Leaves, IsRelay, RelayFields
  <1> QED
    BY <1>1, <1>2, <1>3, <1>4, <1>5

\* Nor have the answers of the sensors.
LEMMA SensorsLeave ==
  ASSUME NEW r, IsRelay(r), NEW o
  PROVE  /\ Leaves(r, SettleOnEdge(r, o)) /\ Leaves(r, WithoutWeight(r, o))
         /\ Leaves(r, AfterQuiet(r, o)) /\ Leaves(r, StopAnswered(r, o))
         /\ Leaves(r, StartAnswered(r, o)) /\ Leaves(r, FlowFades(r, o))
         /\ Leaves(r, FlowConfirms(r, o)) /\ Leaves(r, StaysDry(r, o))
         /\ \A due : Leaves(r, ReedSensor(r, due))
  <1>1. Leaves(r, SettleOnEdge(r, o))
    BY BeliefsLeave DEF SettleOnEdge, Leaves, IsRelay, RelayFields
  <1>2. Leaves(r, WithoutWeight(r, o))
    BY DEF WithoutWeight, Leaves, IsRelay, RelayFields
  <1>3. Leaves(r, AfterQuiet(r, o))
    <2> DEFINE s == IF o = "TARED" /\ r.run /\ r.belief = "RUNNING"
                      THEN [r EXCEPT !.belief = "RUNNING_UNCONFIRMED"] ELSE r
               t == IF IsQuiet(o) /\ (s.armed \/ s.settling) THEN SettleOff(s) ELSE s
    <2>1. Leaves(r, s)
      BY DEF Leaves, IsRelay, RelayFields
    <2>2. AfterQuiet(r, o) \in {t, [t EXCEPT !.stopAck = FALSE, !.orphan = FALSE, !.belief = "IDLE"]}
      BY DEF AfterQuiet
    <2> HIDE DEF s
    <2>3. Leaves(s, t)
      BY <2>1, BeliefsLeave DEF Leaves
    <2> HIDE DEF t
    <2>4. Leaves(t, [t EXCEPT !.stopAck = FALSE, !.orphan = FALSE, !.belief = "IDLE"])
      BY <2>3 DEF Leaves, IsRelay, RelayFields
    <2> QED
      BY <2>1, <2>2, <2>3, <2>4, LeavesComposes
  <1>4. Leaves(r, StopAnswered(r, o))
    <2> DEFINE d == [r EXCEPT !.stopAck = FALSE, !.settling = FALSE, !.run = TRUE]
    <2>1. StopAnswered(r, o) \in {r, SettleOff(r), [r EXCEPT !.retry = TRUE],
                                 [r EXCEPT !.stopAck = FALSE], Confirmed(d)}
      BY DEF StopAnswered
    <2>2. Leaves(r, d) /\ Leaves(r, r) /\ Leaves(r, [r EXCEPT !.retry = TRUE])
          /\ Leaves(r, [r EXCEPT !.stopAck = FALSE])
      BY DEF Leaves, IsRelay, RelayFields
    <2> HIDE DEF d
    <2>3. Leaves(r, Confirmed(d)) /\ Leaves(r, SettleOff(r))
      BY <2>2, BeliefsLeave, LeavesComposes DEF Leaves
    <2> QED
      BY Zenon, <2>1, <2>2, <2>3
  <1>5. Leaves(r, StartAnswered(r, o)) /\ Leaves(r, FlowFades(r, o))
    BY DEF StartAnswered, FlowFades, Leaves, IsRelay, RelayFields
  <1>6. Leaves(r, FlowConfirms(r, o))
    BY DEF FlowConfirms, Confirmed, Leaves, IsRelay, RelayFields
  <1>7. Leaves(r, StaysDry(r, o))
    BY DEF StaysDry, SettleOff, Leaves, IsRelay, RelayFields
  <1>8. ASSUME NEW due PROVE Leaves(r, ReedSensor(r, due))
    BY DEF ReedSensor, Leaves, IsRelay, RelayFields
  <1> QED
    BY <1>1, <1>2, <1>3, <1>4, <1>5, <1>6, <1>7, <1>8

\* What the sensors say leaves the contact alone.
LEMMA FlowSensorLeaves ==
  ASSUME NEW r, IsRelay(r), NEW o
  PROVE  Leaves(r, FlowSensor(r, o))
  <1> DEFINE x == r.coffee \/ o \in {"FLOWING", "FLOWED"}
             y == r.sawFlow \/ (o = "FLOWING" /\ r.session # "NONE")
             q == [r EXCEPT !.coffee = x, !.sawFlow = y]
             s == SettleOnEdge(q, o)
  <1>1. FlowSensor(r, o) = IF IsFresh(o) THEN WithWeight(s, o) ELSE WithoutWeight(s, o)
    BY DEF FlowSensor
  <1> HIDE DEF x, y
  <1>2. Leaves(r, q)
    BY DEF Leaves, IsRelay, RelayFields
  <1> HIDE DEF q
  <1>3. Leaves(r, s) /\ IsRelay(s)
    BY <1>2, SensorsLeave, LeavesComposes DEF Leaves
  <1> HIDE DEF s
  <1>4. Leaves(r, WithoutWeight(s, o))
    BY <1>3, SensorsLeave, LeavesComposes
  <1>5. Leaves(r, WithWeight(s, o))
    <2> DEFINE a == [s EXCEPT !.fresh = TRUE, !.sawScale = TRUE]
               b == AfterQuiet(a, o)
               c == StopAnswered(b, o)
               d == StartAnswered(c, o)
               e == FlowFades(d, o)
               f == FlowConfirms(e, o)
    <2>1. WithWeight(s, o) = StaysDry(f, o)
      BY DEF WithWeight
    <2>2. Leaves(r, a) /\ IsRelay(a)
      BY <1>3 DEF Leaves, IsRelay, RelayFields
    <2> HIDE DEF a
    <2>3. Leaves(r, b) /\ IsRelay(b)
      BY <2>2, SensorsLeave, LeavesComposes DEF Leaves
    <2> HIDE DEF b
    <2>4. Leaves(r, c) /\ IsRelay(c)
      BY <2>3, SensorsLeave, LeavesComposes DEF Leaves
    <2> HIDE DEF c
    <2>5. Leaves(r, d) /\ IsRelay(d)
      BY <2>4, SensorsLeave, LeavesComposes DEF Leaves
    <2> HIDE DEF d
    <2>6. Leaves(r, e) /\ IsRelay(e)
      BY <2>5, SensorsLeave, LeavesComposes DEF Leaves
    <2> HIDE DEF e
    <2>7. Leaves(r, f) /\ IsRelay(f)
      BY <2>6, SensorsLeave, LeavesComposes DEF Leaves
    <2> HIDE DEF f
    <2> QED
      BY <2>1, <2>7, SensorsLeave, LeavesComposes
  <1> QED
    BY <1>1, <1>4, <1>5

\* The contact: it is closed where there is a reason, and opened where there is none.
LEMMA RelayMinds ==
  ASSUME NEW r, IsRelay(r)
  PROVE  /\ \A n \in CloseK1(r) : IsRelay(n) /\ n.down = r.down /\ n.pulse = r.pulse
                                  /\ (n.k1 \/ n.k1 = r.k1)
         /\ IsRelay(OpenK1(r)) /\ ~OpenK1(r).k1 /\ OpenK1(r).down = r.down
         /\ OpenK1(r).pulse = r.pulse
         /\ \A flag : Minds(r, Trip(r, flag))
         /\ Minds(r, AbortPulse(r))
  <1>1. \A n \in CloseK1(r) : IsRelay(n) /\ n.down = r.down /\ n.pulse = r.pulse
                              /\ (n.k1 \/ n.k1 = r.k1)
    BY DEF CloseK1, IsRelay, RelayFields
  <1>2. IsRelay(OpenK1(r)) /\ ~OpenK1(r).k1 /\ OpenK1(r).down = r.down
        /\ OpenK1(r).pulse = r.pulse
    BY DEF OpenK1, IsRelay, RelayFields
  <1>3. ASSUME NEW flag PROVE Minds(r, Trip(r, flag))
    BY DEF Trip, OpenK1, Minds, Reasoned, IsRelay, RelayFields
  <1>4. Minds(r, AbortPulse(r))
    BY DEF AbortPulse, OpenK1, Minds, Reasoned, IsRelay, RelayFields
  <1> QED
    BY <1>1, <1>2, <1>3, <1>4

\* A pulse closes the contact and is its reason.
LEMMA EmitMinds ==
  ASSUME NEW r, IsRelay(r), NEW kind, kind # "NONE", NEW n \in EmitPulse(r, kind)
  PROVE  Minds(r, n)
  <1>1. CASE n = r
    BY <1>1 DEF Minds
  <1>2. CASE \E s \in CloseK1(r) :
               n = IF s.k1 THEN [s EXCEPT !.pulse = kind,
                                          !.cutting = @ \/ (s.build.sensor = "FLOW" /\ kind = "STOP")]
                   ELSE s
    <2>1. PICK s \in CloseK1(r) :
               n = IF s.k1 THEN [s EXCEPT !.pulse = kind,
                                          !.cutting = @ \/ (s.build.sensor = "FLOW" /\ kind = "STOP")]
                   ELSE s
      BY Zenon, <1>2
    <2> DEFINE x == s.cutting \/ (s.build.sensor = "FLOW" /\ kind = "STOP")
    <2>2. IsRelay(s) /\ s.down = r.down
      BY RelayMinds
    <2>3. (n = s /\ ~s.k1) \/ n = [s EXCEPT !.pulse = kind, !.cutting = x]
      BY <2>1
    <2> HIDE DEF x
    <2>4. CASE n = [s EXCEPT !.pulse = kind, !.cutting = x]
      BY <2>2, <2>4 DEF Minds, Reasoned, IsRelay, RelayFields
    <2> QED
      BY <2>2, <2>3, <2>4 DEF Minds, Reasoned
  <1> QED
    BY Zenon, <1>1, <1>2 DEF EmitPulse

\* Servicing the pulses leaves no contact closed without one, whatever it was before.
LEMMA ServicePulseMinds ==
  ASSUME NEW r, IsRelay(r), NEW n \in ServicePulse(r)
  PROVE  IsRelay(n) /\ n.down = r.down /\ Reasoned(n)
  <1> DEFINE o == OpenK1(r)
  <1>1. IsRelay(o) /\ ~o.k1 /\ o.down = r.down /\ o.pulse = r.pulse
    BY RelayMinds
  <1>2. \/ r.pulse # "NONE" /\ (n = [o EXCEPT !.pulse = "NONE"] \/ n \in CloseK1(r))
        \/ n = o
        \/ r.pending # "NONE" /\ n \in EmitPulse([o EXCEPT !.pending = "NONE"], r.pending)
    BY DEF ServicePulse
  <1> HIDE DEF o
  <1>3. CASE n = o
    BY <1>1, <1>3 DEF Reasoned
  <1>4. CASE n = [o EXCEPT !.pulse = "NONE"]
    BY <1>1, <1>4 DEF Reasoned, IsRelay, RelayFields
  <1>5. CASE r.pulse # "NONE" /\ n \in CloseK1(r)
    BY <1>5, RelayMinds DEF Reasoned
  <1>6. CASE r.pending # "NONE" /\ n \in EmitPulse([o EXCEPT !.pending = "NONE"], r.pending)
    <2> DEFINE d == [o EXCEPT !.pending = "NONE"]
    <2>1. IsRelay(d) /\ ~d.k1 /\ d.down = r.down
      BY <1>1 DEF IsRelay, RelayFields
    <2> HIDE DEF d
    <2>2. Minds(d, n)
      BY <1>6, <2>1, EmitMinds DEF d
    <2> QED
      BY <2>1, <2>2 DEF Minds, Reasoned
  <1> QED
    BY <1>2, <1>3, <1>4, <1>5, <1>6

\* applyMomentaryRelayDrive leaves no contact closed without a reason, whatever it
\* was before: this is what follows the button when it goes up.
LEMMA DriveMinds ==
  ASSUME NEW r, IsRelay(r), NEW n \in Drive(r)
  PROVE  IsRelay(n) /\ n.down = r.down /\ Reasoned(n)
  <1> DEFINE s == [r EXCEPT !.suppressed = FALSE]
             a == AbortPulse(r)
  <1>1. \/ n \in ServicePulse(r)
        \/ r.down /\ (n \in Forward(r) \/ n \in Forward(a))
        \/ n \in ServicePulse(s) \/ n = OpenK1(s)
    <2>1. CASE r.rinsing
      BY <2>1 DEF Drive
    <2>2. CASE ~r.rinsing /\ r.down
      <3>1. Drive(r) \in {ServicePulse(r), Forward(r), Forward(a)}
        BY <2>2 DEF Drive
      <3> QED
        BY <2>2, <3>1
    <2>3. CASE ~r.rinsing /\ ~r.down
      BY <2>3 DEF Drive
    <2> QED
      BY <2>1, <2>2, <2>3
  <1>2. IsRelay(s) /\ s.down = r.down
    BY DEF IsRelay, RelayFields
  <1>3. IsRelay(a) /\ a.down = r.down
    BY RelayMinds DEF Minds
  <1> HIDE DEF s, a
  <1>4. ASSUME NEW q, IsRelay(q), q.down, q.down = r.down, n \in Forward(q)
        PROVE  IsRelay(n) /\ n.down = r.down /\ Reasoned(n)
    <2> DEFINE o == OpenK1(q)
    <2>1. IsRelay(o) /\ ~o.k1 /\ o.down = q.down
      BY <1>4, RelayMinds
    <2>2. n = [o EXCEPT !.suppressed = TRUE] \/ n = o \/ n \in CloseK1(q)
      BY <1>4 DEF Forward
    <2> HIDE DEF o
    <2>3. CASE n = [o EXCEPT !.suppressed = TRUE]
      BY <1>4, <2>1, <2>3 DEF Reasoned, IsRelay, RelayFields
    <2> QED
      BY <1>4, <2>1, <2>2, <2>3, RelayMinds DEF Reasoned
  <1>5. CASE n \in ServicePulse(s) \/ n = OpenK1(s)
    BY <1>2, <1>5, ServicePulseMinds, RelayMinds DEF Reasoned
  <1> QED
    BY <1>1, <1>3, <1>4, <1>5, ServicePulseMinds

\* The requests of the orchestrator mind the contact.
LEMMA RequestsMind ==
  ASSUME NEW r, IsRelay(r)
  PROVE  /\ \A n \in MaybeStopPulse(r) : Minds(r, n)
         /\ \A kind : kind # "NONE" => \A n \in QueuePulse(r, kind) : Minds(r, n)
         /\ \A limit, web : \A n \in RequestStart(r, limit, web) : Minds(r, n)
         /\ \A n \in RequestStop(r) : Minds(r, n)
         /\ \A n \in RequestWebStop(r) : Minds(r, n)
  <1>1. ASSUME NEW q, Minds(r, q), NEW n \in Drive(q)
        PROVE  Minds(r, n)
    BY <1>1, DriveMinds DEF Minds
  <1>2. ASSUME NEW q, IsRelay(q), NEW kind, kind # "NONE", NEW n \in QueuePulse(q, kind)
        PROVE  Minds(q, n)
    <2>1. n = q \/ n = [q EXCEPT !.pending = kind] \/ n \in EmitPulse(q, kind)
      BY DEF QueuePulse
    <2>2. Leaves(q, q) /\ Leaves(q, [q EXCEPT !.pending = kind])
      BY <1>2 DEF Leaves, IsRelay, RelayFields
    <2> QED
      BY <1>2, <2>1, <2>2, EmitMinds, MindsComposes
  <1>3. ASSUME NEW n \in MaybeStopPulse(r) PROVE Minds(r, n)
    BY <1>3, EmitMinds, RelayMinds DEF MaybeStopPulse
  <1>4. ASSUME NEW limit, NEW web, NEW n \in RequestStart(r, limit, web) PROVE Minds(r, n)
    <2>1. n = LogicalStart(r, limit) \/ n \in EmitPulse(LogicalStart(r, limit), "START")
      BY <1>4 DEF RequestStart
    <2>2. Minds(r, LogicalStart(r, limit))
      BY BeliefsLeave, MindsComposes
    <2> QED
      BY <2>1, <2>2, EmitMinds, MindsComposes DEF Minds
  <1> DEFINE s == [r EXCEPT !.run = FALSE, !.skip = FALSE]
             a == AbortPulse(s)
  <1>5. Minds(r, s)
    <2>1. Leaves(r, s)
      BY DEF Leaves, IsRelay, RelayFields
    <2> QED
      BY <2>1, MindsComposes
  <1> HIDE DEF s
  <1>6. Minds(r, a) /\ Minds(r, LogicalStop(s))
    BY <1>5, RelayMinds, BeliefsLeave, MindsComposes DEF Minds
  <1>7. ASSUME NEW n \in RequestStop(r) PROVE Minds(r, n)
    <2>1. \/ n \in Drive(LogicalStop(a)) \/ n = LogicalStop(s)
          \/ n \in Drive(LogicalStop(s)) \/ n \in EmitPulse(LogicalStop(s), "STOP")
      BY <1>7 DEF RequestStop, s
    <2> HIDE DEF a
    <2>2. Minds(r, LogicalStop(a))
      BY <1>6, BeliefsLeave, MindsComposes DEF Minds
    <2> QED
      BY <1>1, <1>6, <2>1, <2>2, EmitMinds, MindsComposes DEF Minds
  <1>8. ASSUME NEW n \in RequestWebStop(r) PROVE Minds(r, n)
    <2>1. n \in RequestStop(r) \/ n \in QueuePulse(LogicalStop(s), "STOP")
      BY <1>8 DEF RequestWebStop, s
    <2> QED
      BY <1>2, <1>6, <1>7, <2>1, MindsComposes DEF Minds
  <1> QED
    BY <1>2, <1>3, <1>4, <1>7, <1>8

\* So do the beginning and the end of a rinse.
LEMMA RinseMinds ==
  ASSUME NEW r, IsRelay(r)
  PROVE  /\ \A limit : \A n \in BeginRinse(r, limit) : Minds(r, n)
         /\ \A n \in EndRinse(r) : Minds(r, n)
  <1>1. ASSUME NEW limit, NEW n \in BeginRinse(r, limit) PROVE Minds(r, n)
    <2> DEFINE q == [r EXCEPT !.rinsing = TRUE, !.suppressed = TRUE]
               a == AbortPulse(q)
               s == OpenK1(a)
    <2>1. n = r \/ n \in EmitPulse(LogicalStart(s, limit), "START")
      BY <1>1 DEF BeginRinse
    <2>2. Leaves(r, q) /\ Leaves(r, r)
      BY DEF Leaves, IsRelay, RelayFields
    <2> HIDE DEF q
    <2>3. Minds(r, a) /\ Minds(r, r)
      BY <2>2, RelayMinds, MindsComposes DEF Leaves
    <2> HIDE DEF a
    <2>4. Minds(r, s)
      BY <2>3, RelayMinds DEF Minds, Reasoned
    <2> HIDE DEF s
    <2>5. Minds(r, LogicalStart(s, limit))
      BY <2>4, BeliefsLeave, MindsComposes DEF Minds
    <2> QED
      BY <2>1, <2>3, <2>5, EmitMinds, MindsComposes DEF Minds
  <1>2. ASSUME NEW n \in EndRinse(r) PROVE Minds(r, n)
    <2> DEFINE q == [r EXCEPT !.run = FALSE, !.suppressed = TRUE]
               l == LogicalStop(q)
               s == AbortPulse(l)
    <2>1. PICK t \in EmitPulse(s, "STOP") : n = [t EXCEPT !.rinsing = FALSE]
      BY <1>2 DEF EndRinse
    <2>2. Leaves(r, q)
      BY DEF Leaves, IsRelay, RelayFields
    <2> HIDE DEF q
    <2>3. Minds(r, l)
      BY <2>2, BeliefsLeave, LeavesComposes, MindsComposes DEF Leaves
    <2> HIDE DEF l
    <2>4. Minds(r, s)
      BY <2>3, RelayMinds, MindsComposes DEF Minds
    <2> HIDE DEF s
    <2>5. Minds(r, t)
      BY <2>1, <2>4, EmitMinds, MindsComposes DEF Minds
    <2>6. Leaves(t, n)
      BY <2>1, <2>5 DEF Minds, Leaves, IsRelay, RelayFields
    <2> QED
      BY <2>5, <2>6, MindsComposes
  <1> QED
    BY <1>1, <1>2

\* The walls of a run open the contact and may press once more.
LEMMA WallsMind ==
  ASSUME NEW r, IsRelay(r), NEW due, NEW n \in Walls(r, due)
  PROVE  Minds(r, n)
  <1>1. ASSUME NEW q, Minds(r, q), NEW x \in EndForWall(q)
        PROVE  Minds(r, x)
    <2> DEFINE s == [q EXCEPT !.run = FALSE]
               y == s.orphan \/ (q.build.sensor = "FLOW" /\ q.belief # "IDLE")
               z == [s EXCEPT !.orphan = y]
    <2>1. (\E t \in MaybeStopPulse(s) : x = LogicalStop(t)) \/ x = z
      BY <1>1 DEF EndForWall
    <2> HIDE DEF y
    <2>2. Leaves(q, s)
      BY <1>1 DEF Minds, Leaves, IsRelay, RelayFields
    <2> HIDE DEF s
    <2>3. Leaves(s, z)
      BY <2>2 DEF Leaves, IsRelay, RelayFields
    <2> HIDE DEF z
    <2>4. Minds(r, s) /\ Minds(r, z)
      BY <1>1, <2>2, <2>3, MindsComposes
    <2>5. ASSUME NEW t \in MaybeStopPulse(s), x = LogicalStop(t)
          PROVE  Minds(r, x)
      <3>1. Minds(r, t)
        BY <2>4, <2>5, RequestsMind, MindsComposes DEF Minds
      <3> QED
        BY <2>5, <3>1, BeliefsLeave, MindsComposes DEF Minds
    <2> QED
      BY <2>1, <2>4, <2>5
  <1> DEFINE d == SettleOff(r)
             e == [d EXCEPT !.noFlow = TRUE]
  <1>2. \/ n = r \/ n \in EndForWall(Trip(r, "wall")) \/ n = e
        \/ n \in EndForWall(Trip(r, "hard"))
    BY DEF Walls
  <1>3. Leaves(r, d)
    BY BeliefsLeave
  <1> HIDE DEF d
  <1>4. Leaves(d, e) /\ Leaves(r, r)
    BY <1>3 DEF Leaves, IsRelay, RelayFields
  <1> HIDE DEF e
  <1>5. Minds(r, e) /\ Minds(r, r)
    BY <1>3, <1>4, MindsComposes
  <1> QED
    BY <1>1, <1>2, <1>5, RelayMinds

\* serviceMachine minds the contact.
LEMMA ServiceMinds ==
  ASSUME IsRelay(m), NEW o, NEW reedDue, NEW wallDue,
         NEW n \in ServiceMachine(o, reedDue, wallDue)
  PROVE  Minds(m, n)
  <1> DEFINE sensed == IF Flow THEN FlowSensor(m, o) ELSE ReedSensor(m, reedDue)
  <1>1. Leaves(m, sensed)
    BY FlowSensorLeaves, SensorsLeave
  <1>2. PICK r \in Drive(sensed) : \E s \in Walls(r, wallDue) : n \in Retry(s)
    BY DEF ServiceMachine
  <1>3. PICK s \in Walls(r, wallDue) : n \in Retry(s)
    BY <1>2
  <1> HIDE DEF sensed
  <1>4. Minds(m, r)
    BY <1>1, <1>2, DriveMinds DEF Leaves, Minds
  <1>5. Minds(m, s)
    BY <1>3, <1>4, WallsMind, MindsComposes DEF Minds
  <1> DEFINE d == [s EXCEPT !.retry = FALSE]
  <1>6. n = s \/ n \in MaybeStopPulse(d)
    BY <1>3 DEF Retry
  <1>7. Leaves(s, d)
    BY <1>5 DEF Minds, Leaves, IsRelay, RelayFields
  <1> HIDE DEF d
  <1>8. Minds(m, d)
    BY <1>5, <1>7, MindsComposes
  <1> QED
    BY <1>5, <1>6, <1>8, RequestsMind, MindsComposes DEF Minds

\* The end of a session.
LEMMA FinalizeMinds ==
  ASSUME NEW r, IsRelay(r), NEW reason, NEW web, NEW n \in Finalize(r, reason, web)
  PROVE  Minds(r, n)
  <1> DEFINE x == Flow /\ reason = Cut
             s == [r EXCEPT !.armed = x]
             y == r.down \/ reason = "trip"
  <1>1. PICK t \in CASE r.session = "RINSE" -> EndRinse(s)
                     [] r.session # "RINSE" /\ web -> RequestWebStop(s)
                     [] OTHER -> RequestStop(s) :
          n = [t EXCEPT !.session = "NONE", !.web = FALSE, !.rinsing = FALSE, !.parked = y]
    BY Zenon DEF Finalize
  <1> HIDE DEF x, y
  <1>2. t \in EndRinse(s) \/ t \in RequestWebStop(s) \/ t \in RequestStop(s)
    BY Zenon, <1>1
  <1>3. Leaves(r, s)
    BY DEF Leaves, IsRelay, RelayFields
  <1> HIDE DEF s
  <1>4. Minds(s, t)
    BY <1>2, <1>3, RequestsMind, RinseMinds DEF Leaves
  <1>5. Leaves(t, n)
    BY <1>1, <1>4 DEF Minds, Leaves, IsRelay, RelayFields
  <1> QED
    BY <1>3, <1>4, <1>5, MindsComposes

\* The beginning of one.
LEMMA StartsMind ==
  ASSUME NEW r, IsRelay(r), NEW web
  PROVE  /\ \A n \in BeginCycle(r, web) : Minds(r, n)
         /\ \A n \in EnterRinse(r, web) : Minds(r, n)
  <1>1. ASSUME NEW n \in BeginCycle(r, web) PROVE Minds(r, n)
    <2>1. PICK s \in UNION {RequestStart(r, limit, web) : limit \in {"HARD", "WALL"}} :
            n = IF StartAccepted(s, web) THEN [s EXCEPT !.session = "SHOT", !.web = web]
                                         ELSE [s EXCEPT !.parked = TRUE, !.rinsing = FALSE]
      BY Zenon, <1>1 DEF BeginCycle
    <2>2. Minds(r, s)
      BY <2>1, RequestsMind
    <2>3. Leaves(s, n)
      BY <2>1, <2>2 DEF Minds, Leaves, IsRelay, RelayFields
    <2> QED
      BY <2>2, <2>3, MindsComposes
  <1>2. ASSUME NEW n \in EnterRinse(r, web) PROVE Minds(r, n)
    <2>1. PICK s \in BeginRinse(r, "WALL") :
            n = IF s.pulse = "START"
              THEN [s EXCEPT !.session = "RINSE", !.web = IF r.session = "NONE" THEN web ELSE @]
              ELSE [s EXCEPT !.session = "NONE", !.web = FALSE, !.parked = TRUE, !.rinsing = FALSE]
      BY Zenon, <1>2 DEF EnterRinse
    <2>2. Minds(r, s)
      BY <2>1, RinseMinds
    <2>3. Leaves(s, n)
      BY <2>1, <2>2 DEF Minds, Leaves, IsRelay, RelayFields
    <2> QED
      BY <2>2, <2>3, MindsComposes
  <1> QED
    BY <1>1, <1>2

\* The orchestrator's pass.
LEMMA ActMinds ==
  ASSUME NEW r, IsRelay(r), NEW cutDue, NEW n \in Act(r, cutDue)
  PROVE  Minds(r, n)
  <1>1. ASSUME NEW q, Leaves(r, q), NEW reason, n \in Finalize(q, reason, FALSE)
        PROVE  Minds(r, n)
    BY <1>1, FinalizeMinds, MindsComposes DEF Leaves
  <1>2. Leaves(r, r)
    BY DEF Leaves
  <1>3. CASE "hard" \in r.trips \/ "wall" \in r.trips
    <2> DEFINE x == IF "hard" \in r.trips THEN r.trips \ {"hard"} ELSE r.trips \ {"wall"}
               s == [r EXCEPT !.trips = x]
    <2>1. n = [s EXCEPT !.parked = TRUE] \/ n \in Finalize(s, "trip", FALSE)
      BY Zenon, <1>3 DEF Act
    <2> HIDE DEF x
    <2>2. Leaves(r, s)
      BY DEF Leaves, IsRelay, RelayFields
    <2> HIDE DEF s
    <2>3. Leaves(s, [s EXCEPT !.parked = TRUE])
      BY <2>2 DEF Leaves, IsRelay, RelayFields
    <2> QED
      BY <1>1, <2>1, <2>2, <2>3, MindsComposes
  <1>4. CASE ~("hard" \in r.trips \/ "wall" \in r.trips)
    <2> DEFINE p == [r EXCEPT !.parked = r.down]
               f == [r EXCEPT !.noFlow = FALSE]
    <2>1. Leaves(r, p) /\ Leaves(r, f)
      BY DEF Leaves, IsRelay, RelayFields
    <2>2. \/ n \in Finalize(r, "override", FALSE) \/ n = p \/ n = r
          \/ n \in EnterRinse(r, FALSE) \/ n \in BeginCycle(r, FALSE)
          \/ n \in Finalize(r, "rinsed", FALSE) \/ n \in Finalize(r, "activator", FALSE)
          \/ n \in Finalize(f, "abandoned", FALSE) \/ n \in Finalize(r, Cut, FALSE)
      BY <1>4 DEF Act
    <2> HIDE DEF p, f
    <2>3. Minds(r, p) /\ Minds(r, r)
      BY <1>2, <2>1, MindsComposes
    <2> QED
      BY Zenon, <1>1, <1>2, <2>1, <2>2, <2>3, StartsMind
  <1> QED
    BY <1>3, <1>4

\* The verdict on the cycle, and what the button asks for.
LEMMA ButtonLeaves ==
  ASSUME NEW r, IsRelay(r)
  PROVE  /\ Leaves(r, CycleOutcome(r)) /\ Leaves(r, Pressed(r)) /\ Leaves(r, HeldLong(r))
         /\ \A long : Leaves(r, Released(r, long))
  <1>1. ASSUME NEW q, Leaves(r, q) PROVE Leaves(r, StartStopEdge(q))
    <2> DEFINE a == [q EXCEPT !.edge = "OFF", !.userStop = TRUE, !.skip = TRUE, !.run = FALSE]
               b == LogicalStart(q, "HARD")
               c == [b EXCEPT !.edge = "ON", !.startEdge = TRUE]
    <2>1. StartStopEdge(q) \in {LogicalStop(a), c}
      BY DEF StartStopEdge
    <2>2. Leaves(q, a)
      BY <1>1 DEF Leaves, IsRelay, RelayFields
    <2>3. Leaves(q, b)
      BY <1>1, BeliefsLeave DEF Leaves
    <2> HIDE DEF a, b
    <2>4. Leaves(b, c)
      BY <2>3 DEF Leaves, IsRelay, RelayFields
    <2> HIDE DEF c
    <2>5. Leaves(a, LogicalStop(a))
      BY <2>2, BeliefsLeave DEF Leaves
    <2> QED
      BY <1>1, <2>1, <2>2, <2>3, <2>4, <2>5 DEF Leaves
  <1>2. Leaves(r, CycleOutcome(r))
    <2> DEFINE q == [r EXCEPT !.run = FALSE, !.gesture = FALSE]
    <2>1. CycleOutcome(r) \in {r, StartCanceled(q)}
      BY DEF CycleOutcome
    <2>2. Leaves(r, q) /\ Leaves(r, r)
      BY DEF Leaves, IsRelay, RelayFields
    <2> HIDE DEF q
    <2> QED
      BY <2>1, <2>2, BeliefsLeave DEF Leaves
  <1>3. Leaves(r, Pressed(r))
    <2> DEFINE x == ~IsRunning(r)
               b == [running |-> IsRunning(r), level |-> RunState(r)]
               s == [r EXCEPT !.held = TRUE, !.rinseSent = FALSE, !.fromIdle = x]
               q == [s EXCEPT !.before = b]
               e == StartStopEdge(q)
               n == [e EXCEPT !.gesture = TRUE]
    <2>1. Pressed(r) \in {s, n}
      <3>1. Pressed(r) = IF ~r.build.onPress THEN s ELSE n
        BY DEF Pressed
      <3> HIDE DEF s, n
      <3> QED
        BY <3>1
    <2> HIDE DEF x, b
    <2>2. Leaves(r, s)
      BY DEF Leaves, IsRelay, RelayFields
    <2> HIDE DEF s
    <2>3. Leaves(r, q)
      BY <2>2 DEF Leaves, IsRelay, RelayFields
    <2> HIDE DEF q
    <2>4. Leaves(r, e)
      BY <1>1, <2>3
    <2> HIDE DEF e
    <2>5. Leaves(r, n)
      BY <2>4 DEF Leaves, IsRelay, RelayFields
    <2> QED
      BY <2>1, <2>2, <2>5
  <1>4. Leaves(r, HeldLong(r))
    <2> DEFINE a == [r EXCEPT !.startEdge = FALSE, !.run = TRUE]
               b == [r EXCEPT !.startEdge = FALSE, !.edge = "OFF", !.userStop = TRUE,
                              !.skip = TRUE, !.run = FALSE]
               v == RevertPress(r)
               e == [v EXCEPT !.gesture = FALSE]
               z == [r EXCEPT !.rinseAsked = TRUE, !.rinseSent = TRUE, !.gesture = FALSE]
    <2>1. v \in {DisqualifiedPress(a, TRUE), DisqualifiedPress(b, FALSE)}
      BY DEF RevertPress
    <2>2. HeldLong(r) \in {z, e, r}
      BY DEF HeldLong
    <2>3. Leaves(r, a) /\ Leaves(r, b) /\ Leaves(r, z) /\ Leaves(r, r)
      BY DEF Leaves, IsRelay, RelayFields
    <2> HIDE DEF a, b, z, v
    <2>4. Leaves(r, v)
      <3>1. Leaves(r, DisqualifiedPress(a, TRUE))
        <4>1. IsRelay(a)
          BY <2>3 DEF Leaves
        <4>2. Leaves(a, DisqualifiedPress(a, TRUE))
          BY Zenon, <4>1, BeliefsLeave
        <4> QED
          BY <2>3, <4>2, LeavesComposes
      <3>2. Leaves(r, DisqualifiedPress(b, FALSE))
        <4>1. IsRelay(b)
          BY <2>3 DEF Leaves
        <4>2. Leaves(b, DisqualifiedPress(b, FALSE))
          BY Zenon, <4>1, BeliefsLeave
        <4> QED
          BY <2>3, <4>2, LeavesComposes
      <3> QED
        BY <2>1, <3>1, <3>2
    <2>5. Leaves(r, e)
      BY <2>4 DEF Leaves, IsRelay, RelayFields
    <2> QED
      BY <2>2, <2>3, <2>5
  <1>5. ASSUME NEW long PROVE Leaves(r, Released(r, long))
    <2> DEFINE q == [r EXCEPT !.held = FALSE, !.gesture = FALSE]
    <2>1. Released(r, long) \in {q, StartStopEdge(q)}
      BY DEF Released
    <2>2. Leaves(r, q)
      BY DEF Leaves, IsRelay, RelayFields
    <2> HIDE DEF q
    <2> QED
      BY <1>1, <2>1, <2>2
  <1> QED
    BY <1>2, <1>3, <1>4, <1>5

\* machineSampleInput: the button may go up under a closed contact; the drive that
\* follows in the same section opens it.
LEMMA SampleMinds ==
  ASSUME IsRelay(m), NEW down, NEW long, NEW blocked, NEW n \in Sample(down, long, blocked)
  PROVE  IsRelay(n) /\ Reasoned(n)
  <1> DEFINE x == m.session # "NONE" \/ ~blocked
             s == [m EXCEPT !.edge = "NONE", !.userStop = FALSE, !.startEdge = FALSE,
                            !.rinseAsked = FALSE, !.down = down, !.allowed = x]
  <1>1. PICK r \in Drive(s) :
          n = CASE down /\ ~m.down -> Pressed(r)
                [] down /\ m.down /\ long -> HeldLong(r)
                [] ~down /\ m.down -> Released(r, long)
                [] OTHER -> r
    BY DEF Sample
  <1> HIDE DEF x
  <1>2. IsRelay(s)
    BY DEF IsRelay, RelayFields
  <1> HIDE DEF s
  <1>3. IsRelay(r) /\ Reasoned(r)
    BY <1>1, <1>2, DriveMinds
  <1>4. n \in {Pressed(r), HeldLong(r), Released(r, long), r}
    BY <1>1
  <1> QED
    BY <1>3, <1>4, ButtonLeaves DEF Leaves, Reasoned

\* A command of a page or of the console.
LEMMA CommandMinds ==
  ASSUME IsRelay(m), NEW command, NEW n \in ServeCommand(m, command)
  PROVE  Minds(m, n)
  <1> DEFINE s == [m EXCEPT !.skip = FALSE]
             o == IF Flow THEN SettleOff(m) ELSE m
             q == [m EXCEPT !.stopAck = FALSE, !.startAck = FALSE, !.orphan = FALSE,
                            !.armed = FALSE, !.settling = FALSE, !.noFlow = FALSE,
                            !.run = TRUE, !.coffee = TRUE]
  <1>1. \/ n = m \/ n \in RequestWebStop(s) \/ n \in Finalize(s, "web", TRUE)
        \/ n \in QueuePulse(m, "FORCED") \/ n = o \/ n \in Finalize(o, "web", FALSE)
        \/ n = Confirmed(q) \/ n \in BeginCycle(m, TRUE) \/ n \in EnterRinse(m, TRUE)
    BY Zenon DEF ServeCommand
  <1>2. Leaves(m, s) /\ Leaves(m, q) /\ Leaves(m, m)
    BY DEF Leaves, IsRelay, RelayFields
  <1>3. Leaves(m, o)
    BY <1>2, BeliefsLeave
  <1> HIDE DEF s, o, q
  <1>4. Minds(m, m) /\ Minds(m, o) /\ Minds(m, s) /\ Minds(m, Confirmed(q))
    BY <1>2, <1>3, BeliefsLeave, LeavesComposes, MindsComposes DEF Leaves
  <1>5. CASE n \in RequestWebStop(s) \/ n \in Finalize(s, "web", TRUE)
             \/ n \in Finalize(o, "web", FALSE)
    <2>1. IsRelay(s) /\ IsRelay(o)
      BY <1>4 DEF Minds
    <2>2. n \in RequestWebStop(s) \/ n \in Finalize(s, "web", TRUE) => Minds(s, n)
      BY <2>1, RequestsMind, FinalizeMinds
    <2>3. n \in Finalize(o, "web", FALSE) => Minds(o, n)
      BY <2>1, FinalizeMinds
    <2> QED
      BY <1>4, <1>5, <2>2, <2>3, MindsComposes
  <1>6. CASE n \in QueuePulse(m, "FORCED") \/ n \in BeginCycle(m, TRUE) \/ n \in EnterRinse(m, TRUE)
    BY <1>6, RequestsMind, StartsMind
  <1> QED
    BY <1>1, <1>4, <1>5, <1>6

(* Between two steps the contact that the machine hears as its button is closed
   only while a pulse runs or the button is held. *)
THEOREM ContactsHaveReasons == MomentarySpec => []K1HasReason
  <1> DEFINE Inv == IsRelay(m) /\ Reasoned(m)
  <1>1. MomentaryInit => Inv
    <2> SUFFICES ASSUME MomentaryInit PROVE Inv
      OBVIOUS
    <2>1. m.k1 = FALSE
      BY DEF MomentaryInit
    <2>2. IsRelay(m)
      BY Zenon DEF MomentaryInit, IsRelay, RelayFields
    <2> QED
      BY <2>1, <2>2 DEF Reasoned
  <1>2. Inv /\ [MomentaryNext]_momentaryVars => Inv'
    <2> SUFFICES ASSUME Inv, [MomentaryNext]_momentaryVars PROVE Inv'
      OBVIOUS
    <2>1. ASSUME NEW r, IsRelay(r), Reasoned(r), MachineBecomes(r)
          PROVE  Inv'
      <3>1. m' = [r EXCEPT !.taps = 0]
        BY <2>1 DEF MachineBecomes
      <3>2. Leaves(r, m')
        BY <2>1, <3>1 DEF Leaves, IsRelay, RelayFields
      <3> QED
        BY <2>1, <3>2 DEF Leaves, Reasoned, IsRelay
    <2>2. CASE SampleInput
      <3>1. PICK down, long, blocked : \E r \in Sample(down, long, blocked) : MachineBecomes(r)
        BY <2>2 DEF SampleInput
      <3> QED
        BY <2>1, <3>1, SampleMinds
    <2>3. CASE Service
      <3>1. PICK o, reedDue, wallDue : \E r \in ServiceMachine(o, reedDue, wallDue) : MachineBecomes(r)
        BY <2>3 DEF Service
      <3> QED
        BY <2>1, <3>1, ServiceMinds DEF Minds
    <2>4. CASE Control
      <3>1. PICK s \in CutSettlements : \E cutDue \in BOOLEAN :
              \E r \in Act(s, cutDue) : MachineBecomes(CycleOutcome(r))
        BY <2>4 DEF Control
      <3>2. PICK cutDue \in BOOLEAN : \E r \in Act(s, cutDue) : MachineBecomes(CycleOutcome(r))
        BY <3>1
      <3>3. PICK r \in Act(s, cutDue) : MachineBecomes(CycleOutcome(r))
        BY <3>2
      <3>4. Leaves(m, s)
        <4>1. s = m \/ s = [m EXCEPT !.armed = FALSE]
          BY <3>1 DEF CutSettlements
        <4> QED
          BY <4>1 DEF Leaves, IsRelay, RelayFields
      <3>5. IsRelay(r) /\ Reasoned(r)
        BY <3>3, <3>4, ActMinds DEF Leaves, Minds, Reasoned
      <3>6. IsRelay(CycleOutcome(r)) /\ Reasoned(CycleOutcome(r))
        BY <3>5, ButtonLeaves DEF Leaves, Reasoned
      <3> QED
        BY <2>1, <3>3, <3>6
    <2>5. CASE Commands
      <3>1. m' = m \/ \E command : \E r \in ServeCommand(m, command) : MachineBecomes(r)
        BY <2>5 DEF Commands
      <3>2. CASE m' = m
        BY <3>2 DEF IsRelay, Reasoned
      <3> QED
        BY <2>1, <3>1, <3>2, CommandMinds DEF Minds
    <2>6. CASE LimitCuts
      <3>1. Minds(m, m')
        BY <2>6, RelayMinds DEF LimitCuts
      <3> QED
        BY <3>1 DEF Minds, IsRelay, Reasoned
    <2>7. CASE ReedFollows
      <3>1. Leaves(m, m')
        BY <2>7 DEF ReedFollows, Leaves, IsRelay, RelayFields
      <3> QED
        BY <3>1 DEF Leaves, IsRelay, Reasoned
    <2>8. CASE m' = m
      BY <2>8 DEF IsRelay, Reasoned
    <2> QED
      BY <2>2, <2>3, <2>4, <2>5, <2>6, <2>7, <2>8 DEF MomentaryNext, GroupTurns, momentaryVars
  <1>3. Inv => K1HasReason
    BY DEF K1HasReason, Reasoned
  <1> QED
    BY <1>1, <1>2, <1>3, PTL DEF MomentarySpec

-----------------------------------------------------------------------------
(* The idle tare. *)

Weights == {"zero", "cup", "over", "under", "negative"}
Samples == [reading : Weights, after : BOOLEAN, break : BOOLEAN]
TareSlots == [id : Nat, phase : Phases, gen : Nat]
Entries == [id : Nat, gen : Nat]
Tares == [req : Nat, gen : Nat, eligible : BOOLEAN, absent : BOOLEAN, still : BOOLEAN,
          notified : BOOLEAN, unchanged : BOOLEAN, deferred : BOOLEAN, present : BOOLEAN,
          reference : {"untared", "tared", "uncertain"}, plateau : Weights, accessory : BOOLEAN,
          tracked : BOOLEAN, next : Nat \ {0}, seen : Nat]
Pans == [cup : BOOLEAN, item : BOOLEAN, zeroed : BOOLEAN, base : BOOLEAN, moves : Nat, apart : BOOLEAN]
Notices == [event : {"none", "done", "failed"}, count : Nat]
Pairs == [slot : TareSlots, tare : Tares]

IdleTareTypeOK ==
    /\ pan \in Pans /\ notice \in Notices
    /\ air \in [frame : {"none", "weight", "noise"}, reading : Weights, after : BOOLEAN,
                fresh : BOOLEAN, noise : Nat]
    /\ window \in Seq(Samples) /\ approval \in [approved : BOOLEAN, granted : BOOLEAN]
    /\ gen \in Nat \ {0} /\ slot \in TareSlots /\ pending \in Seq(Entries) /\ tare \in Tares
    /\ worker \in [pc : {"idle", "admit", "write", "finish"}, id : Nat, gen : Nat, ok : BOOLEAN]
    /\ shot \in [active : BOOLEAN, count : Nat]

\* One cup, put on the scale once: what ReferenceMatchesScale speaks of.
OneCup == pan.moves <= 1

\* And it was not zeroed in a way that the control task is not told of.
Quiet == OneCup /\ ~pan.apart

-----------------------------------------------------------------------------
(* The slot and the record of the control task. *)

\* The slot that is in use is the one of the request in progress.
Owned(c) ==
    /\ c.slot.phase = "NONE" => c.slot = NoSlot
    /\ c.slot.phase # "NONE" =>
           c.slot.id # 0 /\ c.slot.id = c.tare.req /\ c.slot.id < c.tare.next
    /\ c.slot.gen <= gen /\ c.tare.seen <= gen
    /\ c.slot.phase # "NONE" /\ c.slot.gen = gen => c.tare.gen = gen

\* Before the cup came nothing was asked for, and a tare that is known of was done: the
\* request is of the cup, not of an item that was laid on it.
Founded(c) ==
    /\ pan.moves = 0 => ~c.tare.present /\ c.tare.req = 0 /\ c.tare.reference = "untared"
    /\ c.tare.reference = "tared" \/ c.slot.phase = "SUCCEEDED" => pan.zeroed
    /\ ~c.tare.accessory /\ c.tare.plateau = "cup"

\* A scale that was zeroed, and said so, was zeroed for the request in progress, or the
\* control task knows of it; and a request that is being written, or was, is of a cup
\* that stood still for as long as its connection.
Believed(c) ==
    /\ ~c.tare.unchanged
    /\ c.slot.phase \in {"WRITING", "SUCCEEDED"} /\ c.slot.gen = gen
          /\ c.tare.present /\ c.tare.seen = gen => c.tare.still
    /\ pan.zeroed /\ c.tare.req # 0 => c.slot.phase \in {"WRITING", "SUCCEEDED"}
    /\ pan.zeroed /\ c.tare.present /\ c.tare.seen = gen =>
           IF c.tare.req = 0 THEN c.tare.reference # "untared" ELSE c.slot.gen = gen

Fitting(c) == c \in Pairs /\ Owned(c) /\ (OneCup => Founded(c)) /\ (Quiet => Believed(c))

\* What the control task does to the slot: it takes a request back, unless it is
\* being written.
ComesFrom(c, d) ==
    /\ d.slot \in {c.slot, NoSlot} /\ (c.slot.phase = "WRITING" => d.slot = c.slot)
    /\ d.tare.next = c.tare.next /\ d.tare.seen = c.tare.seen

-----------------------------------------------------------------------------
(* The invariant. *)

\* Each request is in the queue or with the worker at most once, and one that
\* succeeded is in neither.
Single ==
    /\ \A i \in 1..Len(pending) :
         /\ pending[i].id # 0 /\ pending[i].id < tare.next
         /\ worker.pc # "idle" => pending[i].id # worker.id
         /\ slot.phase = "SUCCEEDED" => pending[i].id # slot.id
         /\ pending[i].id = slot.id => pending[i].gen = slot.gen
         /\ \A j \in 1..Len(pending) : i # j => pending[i].id # pending[j].id
    /\ worker.pc # "idle" =>
         /\ worker.id # 0 /\ worker.id < tare.next
         /\ slot.phase = "SUCCEEDED" => worker.id # slot.id
         /\ worker.id = slot.id => worker.gen = slot.gen

\* While a request is written the worker reads nothing, and the window is empty.
Written ==
    /\ slot.phase = "WRITING" =>
         worker.pc \in {"write", "finish"} /\ worker.id = slot.id /\ window = <<>>
    /\ worker.pc = "write" \/ (worker.pc = "finish" /\ worker.ok) => slot.phase = "WRITING"
    /\ worker.pc \in {"admit", "write"} => ~worker.ok
    /\ air.fresh => air.frame = "none"
    /\ approval.approved => window = <<>>

\* A request is not granted to a shot, nor for a cup that moved.
Granted ==
    slot.phase = "QUEUED" /\ (shot.active \/ ~tare.still) => ~(approval.granted /\ air.fresh)

\* A sample reads zero, or weighs the cup, which is not there at first; a tare that was
\* done, for a request or for the debug page, zeroed the cup.
Weighed ==
    /\ pan.moves = 0 =>
         /\ ~pan.cup /\ ~pan.zeroed /\ ~pan.apart /\ pending = <<>> /\ worker.pc = "idle"
         /\ \A i \in 1..Len(window) : window[i].reading = "zero"
         /\ air.frame = "weight" => air.reading = "zero"
    /\ pan.moves = 1 => pan.cup
    /\ ~pan.item /\ ~pan.base
    /\ \A i \in 1..Len(window) : window[i].reading \in {"zero", "cup"}
    /\ air.frame = "weight" => air.reading \in {"zero", "cup"}
    /\ worker.pc = "finish" /\ worker.ok => pan.zeroed
    /\ notice.event = "done" /\ tare.present => pan.zeroed

\* After the zeroing every sample reads zero, and the request that zeroed is done.
Settled ==
    /\ pan.zeroed =>
         /\ \A i \in 1..Len(window) : window[i].reading = "zero"
         /\ air.frame = "weight" => air.reading = "zero"
    /\ slot.phase = "WRITING" /\ pan.zeroed => worker.pc = "finish" /\ worker.ok

IdleTareInv ==
    /\ IdleTareTypeOK /\ Fitting(Now) /\ Single /\ Written /\ Granted
    /\ (OneCup => Weighed) /\ (Quiet => Settled)

-----------------------------------------------------------------------------
(* The operators of the control task. *)

\* A pair is made of a slot and a record of the control task.
LEMMA PairsAre ==
    /\ \A c \in Pairs : c = [slot |-> c.slot, tare |-> c.tare] /\ c.slot \in TareSlots /\ c.tare \in Tares
    /\ NoSlot \in TareSlots /\ NoSlot.phase = "NONE" /\ NoSlot.id = 0 /\ NoSlot.gen = 0
    /\ \A s \in TareSlots, t \in Tares : [slot |-> s, tare |-> t] \in Pairs
  BY DEF Pairs, NoSlot, TareSlots, Phases

\* A slot that is released leaves a pair that fits.
LEMMA ReleaseFits ==
    ASSUME IdleTareTypeOK, NEW c, Fitting(c), c.tare.req # 0, NEW old \in BOOLEAN
    PROVE  /\ Fitting(Release(c, old)) /\ ComesFrom(c, Release(c, old))
           /\ Release(c, old).slot.phase # "QUEUED"
           /\ Release(c, old).tare.gen = c.tare.gen /\ Release(c, old).tare.present = c.tare.present
           /\ Release(c, old).tare.req \in {0, c.tare.req}
  <1> DEFINE d == Release(c, old)
  <1>1. c \in Pairs /\ c.slot \in TareSlots /\ c.tare \in Tares /\ Owned(c) /\ c.slot.phase \in Phases
    BY PairsAre DEF Fitting, TareSlots
  <1>2. CASE c.slot.id = c.tare.req /\ c.slot.phase = "WRITING"
    <2> DEFINE t == [c.tare EXCEPT !.deferred = TRUE]
    <2>1. d = [slot |-> c.slot, tare |-> t] /\ t \in Tares
      BY <1>1, <1>2 DEF Release, Pairs, Tares
    <2>2. /\ t.req = c.tare.req /\ t.next = c.tare.next /\ t.seen = c.tare.seen /\ t.gen = c.tare.gen
          /\ t.present = c.tare.present /\ t.reference = c.tare.reference /\ t.still = c.tare.still
          /\ t.unchanged = c.tare.unchanged
          /\ t.accessory = c.tare.accessory /\ t.plateau = c.tare.plateau
      BY <1>1 DEF Tares
    <2> HIDE DEF t
    <2>3. Fitting(d)
      BY <1>1, <2>1, <2>2 DEF Fitting, Owned, Founded, Believed, Quiet, Pairs
    <2> QED
      BY <1>2, <2>1, <2>2, <2>3 DEF ComesFrom
  <1>3. CASE ~(c.slot.id = c.tare.req /\ c.slot.phase = "WRITING")
    <2> DEFINE mine == c.slot.id = c.tare.req
               released == IF mine THEN c.slot.phase ELSE "NONE"
               ref == ReferenceAfter(c.tare, released, old)
               track == c.tare.tracked \/ TracksAfter(c.tare, released)
               t == [c.tare EXCEPT !.reference = ref, !.tracked = track, !.accessory = FALSE,
                                   !.req = 0, !.notified = FALSE, !.still = FALSE,
                                   !.unchanged = FALSE, !.deferred = FALSE]
               s == IF mine THEN NoSlot ELSE c.slot
    <2>1. ref \in {c.tare.reference, "tared", "untared", "uncertain"}
      BY DEF ReferenceAfter
    <2>2. d = [slot |-> s, tare |-> t] /\ track \in BOOLEAN
      <3>1. d = [slot |-> s, tare |-> t]
        BY <1>1, <1>3 DEF Release, Tares
      <3>2. track \in BOOLEAN
        BY <1>1 DEF TracksAfter, Tares
      <3> QED
        BY <3>1, <3>2
    <2>3. s = NoSlot /\ (~mine => c.slot.phase = "NONE")
      BY <1>1 DEF Owned
    <2>4. c.slot.phase # "WRITING"
      BY <1>1, <1>3 DEF Owned
    <2>5. /\ OneCup /\ ref = "tared" => pan.zeroed
          /\ Quiet /\ pan.zeroed /\ c.tare.present /\ c.tare.seen = gen => ref # "untared"
      <3>1. (OneCup => Founded(c)) /\ (Quiet => Believed(c)) /\ pan.zeroed \in BOOLEAN
        BY DEF Fitting, IdleTareTypeOK, Pans
      <3>2. ref = "tared" /\ ~c.tare.accessory => released = "SUCCEEDED" \/ c.tare.reference = "tared"
        BY DEF ReferenceAfter
      <3>3. released = "SUCCEEDED" => c.slot.phase = "SUCCEEDED"
        OBVIOUS
      <3>4. ASSUME Quiet, pan.zeroed, c.tare.present, c.tare.seen = gen
            PROVE  ref # "untared"
        <4>1. /\ c.slot.phase = "SUCCEEDED" /\ c.slot.gen = gen /\ c.tare.still /\ ~c.tare.unchanged
          BY <2>4, <3>1, <3>4 DEF Believed
        <4>2. released = "SUCCEEDED"
          BY <4>1, <2>3
        <4> HIDE DEF released
        <4> QED
          BY <4>1, <4>2 DEF ReferenceAfter
      <3> HIDE DEF released, ref
      <3> QED
        BY <3>1, <3>2, <3>3, <3>4 DEF Founded
    <2> HIDE DEF ref, s, track
    <2>6. /\ t \in Tares /\ t.req = 0 /\ t.next = c.tare.next /\ t.seen = c.tare.seen /\ t.gen = c.tare.gen
          /\ t.present = c.tare.present /\ t.reference = ref /\ ~t.unchanged
          /\ ~t.accessory /\ t.plateau = c.tare.plateau
      BY <1>1, <2>1, <2>2 DEF Tares
    <2> HIDE DEF t
    <2>7. d \in Pairs /\ d.slot = NoSlot /\ d.tare = t
      BY <2>2, <2>3, <2>6, PairsAre
    <2> HIDE DEF d
    <2>8. Owned(d)
      BY <1>1, <2>6, <2>7, PairsAre DEF Owned, IdleTareTypeOK
    <2>9. (OneCup => Founded(d)) /\ (Quiet => Believed(d))
      BY <2>5, <2>6, <2>7, PairsAre DEF Fitting, Founded, Believed
    <2> QED
      BY <2>4, <2>6, <2>7, <2>8, <2>9, PairsAre DEF Fitting, ComesFrom, d
  <1> QED
    BY <1>2, <1>3

\* A change of eligibility or of the connection.
LEMMA ChangedFits ==
    ASSUME IdleTareTypeOK, NEW c, Fitting(c), NEW eligible \in BOOLEAN
    PROVE  LET d == Changed(c, eligible) IN
           /\ Fitting(d) /\ ComesFrom(c, d) /\ d.tare.gen = gen /\ d.tare.present = c.tare.present
  <1> DEFINE moved == gen # c.tare.gen
             t == [c.tare EXCEPT !.eligible = eligible, !.gen = gen, !.absent = FALSE,
                                 !.tracked = FALSE, !.still = @ /\ ~moved]
             d == [c EXCEPT !.tare = t]
  <1>1. c \in Pairs /\ c.slot \in TareSlots /\ c.tare \in Tares /\ Owned(c)
    BY PairsAre DEF Fitting
  <1>2. /\ t \in Tares /\ t.req = c.tare.req /\ t.next = c.tare.next /\ t.seen = c.tare.seen
        /\ t.present = c.tare.present /\ t.reference = c.tare.reference
        /\ t.unchanged = c.tare.unchanged /\ t.gen = gen
        /\ t.accessory = c.tare.accessory /\ t.plateau = c.tare.plateau
        /\ t.still <=> c.tare.still /\ ~moved
    <2>1. gen \in Nat
      BY DEF IdleTareTypeOK
    <2> QED
      BY <1>1, <2>1 DEF Tares
  <1>3. Changed(c, eligible) =
          IF eligible = c.tare.eligible /\ ~moved THEN c
          ELSE IF t.req # 0 /\ (moved \/ c.slot.phase = "QUEUED") THEN Release(d, FALSE) ELSE d
    BY DEF Changed
  <1> HIDE DEF t
  <1>4. d = [slot |-> c.slot, tare |-> t] /\ d \in Pairs /\ d.slot = c.slot /\ d.tare = t
    BY <1>1, <1>2, PairsAre DEF Pairs
  <1> HIDE DEF d
  <1>5. Fitting(d) /\ ComesFrom(c, d) /\ d.tare.gen = gen /\ d.tare.present = c.tare.present
    BY <1>1, <1>2, <1>4 DEF Fitting, Owned, Founded, Believed, ComesFrom
  <1>6. d.tare.req # 0 => /\ Fitting(Release(d, FALSE)) /\ ComesFrom(d, Release(d, FALSE))
                          /\ Release(d, FALSE).tare.gen = gen
                          /\ Release(d, FALSE).tare.present = c.tare.present
    BY <1>5, ReleaseFits
  <1>7. d.tare.req # 0 => ComesFrom(c, Release(d, FALSE))
    BY <1>5, <1>6, PairsAre DEF ComesFrom
  <1>8. Fitting(c) /\ ComesFrom(c, c) /\ (~moved => c.tare.gen = gen)
    BY DEF ComesFrom
  <1> QED
    BY <1>3, <1>4, <1>5, <1>6, <1>7, <1>8

\* The check of the request: one that stays in the queue stands still.
LEMMA CheckedFits ==
    ASSUME IdleTareTypeOK, NEW c, Fitting(c), NEW old \in BOOLEAN, NEW late \in BOOLEAN
    PROVE  LET d == Checked(c, old, late) IN
           /\ Fitting(d) /\ ComesFrom(c, d) /\ d.tare.gen = c.tare.gen
           /\ d.tare.present = c.tare.present /\ (d.slot.phase = "QUEUED" => d.tare.still)
  <1> DEFINE t == [c.tare EXCEPT !.still = @ /\ c.tare.present]
             d == [c EXCEPT !.tare = t]
             failed == c.slot.id # t.req \/ c.slot.phase \in {"NONE", "FAILED"}
             ends == \/ failed \/ ~t.still \/ late
                     \/ c.slot.phase = "SUCCEEDED" /\ t.notified
                     \/ c.slot.phase = "QUEUED" /\ old
  <1>1. c \in Pairs /\ c.slot \in TareSlots /\ c.tare \in Tares /\ Owned(c)
    BY PairsAre DEF Fitting
  <1>2. /\ t \in Tares /\ t.req = c.tare.req /\ t.next = c.tare.next /\ t.seen = c.tare.seen
        /\ t.present = c.tare.present /\ t.reference = c.tare.reference
        /\ t.unchanged = c.tare.unchanged /\ t.gen = c.tare.gen
        /\ t.accessory = c.tare.accessory /\ t.plateau = c.tare.plateau
        /\ t.still <=> c.tare.still /\ c.tare.present
    BY <1>1 DEF Tares
  <1>3. Checked(c, old, late) = IF t.req = 0 THEN c ELSE IF ends THEN Release(d, old) ELSE d
    BY DEF Checked
  <1>4. ~ends => t.still
    OBVIOUS
  <1> HIDE DEF t, ends
  <1>5. d = [slot |-> c.slot, tare |-> t] /\ d \in Pairs /\ d.slot = c.slot /\ d.tare = t
    BY <1>1, <1>2, PairsAre DEF Pairs
  <1> HIDE DEF d
  <1>6. Fitting(d) /\ ComesFrom(c, d)
    BY <1>1, <1>2, <1>5 DEF Fitting, Owned, Founded, Believed, ComesFrom
  <1>7. t.req # 0 => /\ Fitting(Release(d, old)) /\ ComesFrom(d, Release(d, old))
                     /\ Release(d, old).tare.gen = c.tare.gen /\ Release(d, old).slot.phase # "QUEUED"
                     /\ Release(d, old).tare.present = c.tare.present
    BY <1>2, <1>5, <1>6, ReleaseFits
  <1>8. t.req # 0 => ComesFrom(c, Release(d, old))
    BY <1>6, <1>7, PairsAre DEF ComesFrom
  <1>9. CASE t.req = 0
    <2>1. c.slot.phase # "QUEUED"
      BY <1>1, <1>2, <1>9 DEF Owned
    <2> QED
      BY <1>3, <1>9, <2>1 DEF ComesFrom
  <1>10. CASE t.req # 0
    BY <1>2, <1>3, <1>4, <1>5, <1>6, <1>7, <1>8, <1>10
  <1> QED
    BY <1>9, <1>10

\* A pass over the slot leaves one.
Passed(c, d) ==
    /\ Fitting(d) /\ ComesFrom(c, d) /\ d.tare.gen = gen
    /\ d.tare.present = c.tare.present /\ (d.slot.phase = "QUEUED" => d.tare.still)

LEMMA ServicedPasses ==
    ASSUME IdleTareTypeOK, NEW c, Fitting(c), NEW active \in BOOLEAN, NEW old \in BOOLEAN, NEW late \in BOOLEAN
    PROVE  Passed(c, Serviced(c, active, old, late))
  <1> DEFINE b == Changed(c, ~active)
             d == Checked(b, old, late)
  <1>1. Fitting(b) /\ ComesFrom(c, b) /\ b.tare.gen = gen /\ b.tare.present = c.tare.present
    BY ChangedFits
  <1> HIDE DEF b
  <1>2. /\ Fitting(d) /\ ComesFrom(b, d) /\ d.tare.gen = b.tare.gen
        /\ d.tare.present = b.tare.present /\ (d.slot.phase = "QUEUED" => d.tare.still)
    BY <1>1, CheckedFits
  <1> HIDE DEF d
  <1>3. ComesFrom(c, d)
    BY <1>1, <1>2, PairsAre DEF ComesFrom
  <1> QED
    BY <1>1, <1>2, <1>3 DEF Serviced, Passed, b, d

\* The same, with nothing of age or of time.
LEMMA ServicedFits ==
    ASSUME IdleTareTypeOK, NEW c, Fitting(c), NEW active \in BOOLEAN
    PROVE  LET d == Serviced(c, active, FALSE, FALSE) IN
           /\ Fitting(d) /\ ComesFrom(c, d) /\ d.tare.gen = gen
           /\ d.tare.present = c.tare.present /\ (d.slot.phase = "QUEUED" => d.tare.still)
  BY ServicedPasses DEF Passed

\* A sample of the window, with nothing being written.
LEMMA ObservedFits ==
    ASSUME IdleTareTypeOK, NEW c, Fitting(c), c.slot.phase # "WRITING", c.slot.phase = "QUEUED" => c.tare.still,
           NEW s \in Samples, Quiet /\ pan.zeroed => s.reading = "zero"
    PROVE  LET d == Observed(c, s) IN
           /\ Fitting(d) /\ ComesFrom(c, d) /\ d.tare.gen = c.tare.gen
           /\ d.slot.phase = "QUEUED" => d.tare.still
  <1> DEFINE near == s.reading = "zero"
             ref == IF ~c.tare.notified /\ near /\ c.tare.present THEN "tared" ELSE c.tare.reference
             t == [c.tare EXCEPT !.unchanged = s.reading = c.tare.plateau, !.notified = @ \/ near,
                                 !.reference = ref]
             seen == [slot |-> c.slot, tare |-> t]
             d == Observed(c, s)
  <1>1. c \in Pairs /\ c.slot \in TareSlots /\ c.tare \in Tares /\ Owned(c)
    BY PairsAre DEF Fitting
  <1>2. /\ t \in Tares /\ t.req = c.tare.req /\ t.next = c.tare.next /\ t.seen = c.tare.seen
        /\ t.present = c.tare.present /\ t.gen = c.tare.gen /\ t.still = c.tare.still
        /\ t.unchanged <=> s.reading = c.tare.plateau
        /\ t.accessory = c.tare.accessory /\ t.plateau = c.tare.plateau
        /\ t.reference = ref
    BY <1>1 DEF Tares
  <1>3. \/ d = c
        \/ /\ c.tare.req # 0 /\ d = Release(c, FALSE)
        \/ /\ c.tare.req # 0 /\ c.slot.phase = "SUCCEEDED" /\ d \in {seen, Release(seen, FALSE)}
    <2>1. [c EXCEPT !.tare = t] = seen
      BY <1>1 DEF Pairs
    <2> HIDE DEF t
    <2> QED
      BY <2>1 DEF Observed, t
  <1> SUFFICES /\ Fitting(d) /\ ComesFrom(c, d) /\ d.tare.gen = c.tare.gen
               /\ d.slot.phase = "QUEUED" => d.tare.still
    OBVIOUS
  <1> HIDE DEF t, ref, d
  <1>4. seen \in Pairs /\ seen.slot = c.slot /\ seen.tare = t
    BY <1>1, <1>2, PairsAre
  <1> HIDE DEF seen
  <1>5. ASSUME c.slot.phase = "SUCCEEDED" PROVE Fitting(seen) /\ ComesFrom(c, seen)
    <2>1. Owned(seen) /\ ComesFrom(c, seen)
      BY <1>1, <1>2, <1>4 DEF Owned, ComesFrom
    <2>2. ASSUME OneCup PROVE Founded(seen)
      <3>1. Founded(c) /\ pan.zeroed /\ (ref = c.tare.reference \/ c.tare.present)
        BY <1>5, <2>2 DEF Fitting, Founded, ref
      <3> QED
        BY <1>2, <1>4, <3>1 DEF Founded
    <2>3. ASSUME Quiet PROVE Believed(seen)
      <3>1. /\ Believed(c) /\ pan.zeroed /\ s.reading = "zero" /\ c.tare.plateau = "cup"
            /\ ref = "untared" => c.tare.reference = "untared"
        BY <1>5, <2>3 DEF Fitting, Founded, Quiet, ref
      <3> QED
        BY <1>2, <1>4, <1>5, <3>1 DEF Believed, ref
    <2> QED
      BY <1>4, <2>1, <2>2, <2>3 DEF Fitting
  <1>6. CASE d = c
    BY <1>6 DEF ComesFrom
  <1>7. CASE c.tare.req # 0 /\ d = Release(c, FALSE)
    BY <1>7, ReleaseFits
  <1>8. CASE c.slot.phase = "SUCCEEDED" /\ d = seen
    BY <1>2, <1>4, <1>5, <1>8
  <1>9. CASE c.tare.req # 0 /\ c.slot.phase = "SUCCEEDED" /\ d = Release(seen, FALSE)
    <2>1. /\ Fitting(d) /\ ComesFrom(seen, d) /\ d.slot.phase # "QUEUED" /\ d.tare.gen = c.tare.gen
      BY <1>2, <1>4, <1>5, <1>9, ReleaseFits
    <2> QED
      BY <1>5, <1>9, <2>1, PairsAre DEF ComesFrom
  <1> QED
    BY <1>3, <1>6, <1>7, <1>8, <1>9

\* A cup that is away leaves one.
LEMMA AbsentFits ==
    ASSUME NEW c, Fitting(c), NEW b \in BOOLEAN
    PROVE  LET d == [c EXCEPT !.tare.absent = b] IN
           /\ Fitting(d) /\ ComesFrom(c, d) /\ d.slot = c.slot
           /\ d.tare.gen = c.tare.gen /\ d.tare.still = c.tare.still
           /\ d.tare.present = c.tare.present /\ d.tare.req = c.tare.req
  <1> DEFINE t == [c.tare EXCEPT !.absent = b]
             d == [c EXCEPT !.tare.absent = b]
  <1>1. c \in Pairs /\ c.slot \in TareSlots /\ c.tare \in Tares
    BY PairsAre DEF Fitting
  <1>2. /\ t \in Tares /\ t.req = c.tare.req /\ t.next = c.tare.next /\ t.seen = c.tare.seen
        /\ t.present = c.tare.present /\ t.gen = c.tare.gen /\ t.still = c.tare.still
        /\ t.unchanged = c.tare.unchanged /\ t.reference = c.tare.reference
        /\ t.accessory = c.tare.accessory /\ t.plateau = c.tare.plateau
    BY <1>1 DEF Tares
  <1>3. d = [slot |-> c.slot, tare |-> t]
    BY <1>1 DEF Pairs
  <1> HIDE DEF t, d
  <1>4. d \in Pairs /\ d.slot = c.slot /\ d.tare = t
    BY <1>1, <1>2, <1>3, PairsAre
  <1>5. Fitting(d) /\ ComesFrom(c, d)
    BY <1>2, <1>4 DEF Fitting, Owned, Founded, Believed, ComesFrom
  <1> QED
    BY <1>2, <1>4, <1>5 DEF d

\* A request that is still in the queue is taken back.
LEMMA WithdrawnFits ==
    ASSUME IdleTareTypeOK, NEW c, Fitting(c)
    PROVE  LET d == Withdrawn(c) IN
           /\ Fitting(d) /\ ComesFrom(c, d) /\ d.tare.gen = c.tare.gen
           /\ d.tare.present = c.tare.present /\ d.slot.phase # "QUEUED"
  <1>1. c.tare.req # 0 => LET d == Release(c, FALSE) IN
          /\ Fitting(d) /\ ComesFrom(c, d) /\ d.tare.gen = c.tare.gen
          /\ d.tare.present = c.tare.present /\ d.slot.phase # "QUEUED"
    BY ReleaseFits
  <1>2. c.tare.req = 0 => c.slot.phase # "QUEUED"
    BY DEF Fitting, Owned
  <1>3. ComesFrom(c, c)
    BY DEF ComesFrom
  <1>4. Withdrawn(c) = IF c.tare.req # 0 /\ c.slot.phase = "QUEUED" THEN Release(c, FALSE) ELSE c
    BY DEF Withdrawn
  <1>5. CASE c.tare.req # 0 /\ c.slot.phase = "QUEUED"
    BY <1>1, <1>4, <1>5
  <1>6. CASE ~(c.tare.req # 0 /\ c.slot.phase = "QUEUED")
    BY <1>2, <1>3, <1>4, <1>6
  <1> QED
    BY <1>5, <1>6

\* A break in the samples takes the request back.
LEMMA BrokenFits ==
    ASSUME IdleTareTypeOK, NEW c, Fitting(c), NEW s
    PROVE  LET d == Broken(c, s) IN
           /\ Fitting(d) /\ ComesFrom(c, d) /\ d.tare.gen = c.tare.gen
           /\ d.tare.present = c.tare.present
           /\ d.slot.phase = "QUEUED" => d = c
  <1> DEFINE b == Voided(c)
             d == Withdrawn(b)
  <1>1. Fitting(b) /\ ComesFrom(c, b) /\ b.tare.gen = c.tare.gen /\ b.tare.present = c.tare.present
    BY AbsentFits DEF Voided
  <1> HIDE DEF b
  <1>2. /\ Fitting(d) /\ ComesFrom(b, d) /\ d.tare.gen = b.tare.gen
        /\ d.tare.present = b.tare.present /\ d.slot.phase # "QUEUED"
    BY <1>1, WithdrawnFits
  <1> HIDE DEF d
  <1>3. ComesFrom(c, d) /\ ComesFrom(c, c)
    BY <1>1, <1>2, PairsAre DEF ComesFrom
  <1>4. Broken(c, s) = IF s.break THEN d ELSE c
    BY DEF Broken, b, d
  <1>5. CASE s.break
    BY <1>1, <1>2, <1>3, <1>4, <1>5
  <1>6. CASE ~s.break
    BY <1>3, <1>4, <1>6
  <1> QED
    BY <1>5, <1>6

\* A cup that the control task forgets leaves one.
LEMMA LiftedFits ==
    ASSUME NEW c, Fitting(c), NEW t, t \in {[c.tare EXCEPT !.present = FALSE, !.reference = "untared"],
           [c.tare EXCEPT !.present = FALSE, !.reference = "untared", !.still = FALSE],
           [c.tare EXCEPT !.present = FALSE, !.reference = "untared", !.still = FALSE, !.tracked = FALSE]}
    PROVE  LET d == [c EXCEPT !.tare = t] IN
           /\ Fitting(d) /\ ComesFrom(c, d) /\ ~d.tare.present /\ d.slot = c.slot
           /\ d.tare.gen = c.tare.gen /\ d.tare.req = c.tare.req
  <1> DEFINE d == [c EXCEPT !.tare = t]
  <1>1. c \in Pairs /\ c.slot \in TareSlots /\ c.tare \in Tares
    BY PairsAre DEF Fitting
  <1>2. /\ t \in Tares /\ t.req = c.tare.req /\ t.next = c.tare.next /\ t.seen = c.tare.seen
        /\ ~t.present /\ t.gen = c.tare.gen /\ t.unchanged = c.tare.unchanged
        /\ t.accessory = c.tare.accessory /\ t.plateau = c.tare.plateau
        /\ t.reference = "untared"
    BY <1>1 DEF Tares
  <1>3. d = [slot |-> c.slot, tare |-> t]
    BY <1>1 DEF Pairs
  <1> HIDE DEF d
  <1>4. d \in Pairs /\ d.slot = c.slot /\ d.tare = t
    BY <1>1, <1>2, <1>3, PairsAre
  <1>5. Fitting(d) /\ ComesFrom(c, d)
    BY <1>2, <1>4 DEF Fitting, Owned, Founded, Believed, ComesFrom
  <1> QED
    BY <1>2, <1>4, <1>5 DEF d

\* The three ways to forget it.
LEMMA LiftedIs ==
    ASSUME NEW c, Fitting(c)
    PROVE  /\ Lifted(c) = [c EXCEPT !.tare = [c.tare EXCEPT !.present = FALSE, !.reference = "untared"]]
           /\ [Lifted(c) EXCEPT !.tare.still = FALSE] =
                [c EXCEPT !.tare = [c.tare EXCEPT !.present = FALSE, !.reference = "untared", !.still = FALSE]]
           /\ [Lifted(c) EXCEPT !.tare.still = FALSE, !.tare.tracked = FALSE] =
                [c EXCEPT !.tare = [c.tare EXCEPT !.present = FALSE, !.reference = "untared",
                                                  !.still = FALSE, !.tracked = FALSE]]
  <1>1. c \in Pairs /\ c.slot \in TareSlots /\ c.tare \in Tares
    BY PairsAre DEF Fitting
  <1> QED
    BY <1>1 DEF Lifted, Pairs, Tares

\* A cup that is taken off leaves one.
LEMMA RemovedFits ==
    ASSUME IdleTareTypeOK, NEW c, Fitting(c)
    PROVE  /\ Fitting(Removed(c)) /\ ComesFrom(c, Removed(c)) /\ Removed(c).slot.phase # "QUEUED"
           /\ Removed(c).tare.req \in {0, c.tare.req}
  <1> DEFINE d == [Lifted(c) EXCEPT !.tare.still = FALSE, !.tare.tracked = FALSE]
             r == IF c.tare.req # 0 THEN Release(d, FALSE) ELSE d
  <1>1. Removed(c) = [r EXCEPT !.tare.absent = r.tare.eligible]
    BY DEF Removed
  <1>2. /\ Fitting(d) /\ ComesFrom(c, d) /\ d.slot = c.slot /\ d.tare.req = c.tare.req
    BY LiftedIs, LiftedFits
  <1> HIDE DEF d
  <1>3. c.tare.req = 0 => d.slot.phase # "QUEUED"
    BY <1>2 DEF Fitting, Owned
  <1>4. c.tare.req # 0 => /\ Fitting(Release(d, FALSE)) /\ ComesFrom(d, Release(d, FALSE))
                          /\ Release(d, FALSE).slot.phase # "QUEUED"
                          /\ Release(d, FALSE).tare.req \in {0, c.tare.req}
    BY <1>2, ReleaseFits
  <1>5. /\ Fitting(r) /\ ComesFrom(c, r) /\ r.slot.phase # "QUEUED" /\ r.tare.eligible \in BOOLEAN
        /\ r.tare.req \in {0, c.tare.req}
    <2>1. /\ Fitting(r) /\ ComesFrom(c, r) /\ r.slot.phase # "QUEUED" /\ r.tare.req \in {0, c.tare.req}
      BY <1>2, <1>3, <1>4, PairsAre DEF ComesFrom
    <2> QED
      BY <2>1, PairsAre DEF Fitting, Tares
  <1> HIDE DEF r
  <1> DEFINE e == [r EXCEPT !.tare.absent = r.tare.eligible]
  <1>6. Fitting(e) /\ ComesFrom(r, e) /\ e.slot = r.slot /\ e.tare.req = r.tare.req
    BY <1>5, AbsentFits
  <1> HIDE DEF e
  <1>7. ComesFrom(c, e)
    BY <1>5, <1>6, PairsAre DEF ComesFrom
  <1> QED
    BY <1>1, <1>5, <1>6, <1>7 DEF e

\* A cup is only seen to come by a sample that weighs one.
LEMMA PlacedFits ==
    ASSUME IdleTareTypeOK, NEW c, Fitting(c), c.slot.phase # "WRITING", OneCup => pan.moves # 0,
           Quiet => ~pan.zeroed
    PROVE  LET d == Placed(c) IN
           /\ Fitting(d) /\ ComesFrom(c, d) /\ d.slot = c.slot /\ d.tare.next = c.tare.next
           /\ d.tare.gen = c.tare.gen /\ d.tare.still = c.tare.still /\ d.tare.req = c.tare.req
  <1> DEFINE t == [c.tare EXCEPT !.present = TRUE, !.reference = "untared", !.absent = FALSE]
             d == Placed(c)
  <1>1. c \in Pairs /\ c.slot \in TareSlots /\ c.tare \in Tares
    BY PairsAre DEF Fitting
  <1>2. /\ t \in Tares /\ t.req = c.tare.req /\ t.next = c.tare.next /\ t.seen = c.tare.seen
        /\ t.gen = c.tare.gen /\ t.unchanged = c.tare.unchanged
        /\ t.reference = "untared" /\ t.still = c.tare.still
        /\ t.accessory = c.tare.accessory /\ t.plateau = c.tare.plateau
    BY <1>1 DEF Tares
  <1> HIDE DEF t
  <1>3. d = [slot |-> c.slot, tare |-> t]
    BY <1>1 DEF Placed, Pairs, t
  <1> HIDE DEF d
  <1>4. d \in Pairs /\ d.slot = c.slot /\ d.tare = t
    BY <1>1, <1>2, <1>3, PairsAre
  <1>5. Fitting(d) /\ ComesFrom(c, d)
    BY <1>2, <1>4 DEF Fitting, Owned, Founded, Believed, Quiet, ComesFrom
  <1> QED
    BY <1>2, <1>4, <1>5 DEF d

\* A request takes the free slot, with a number that no other has.
LEMMA EnqueuedFits ==
    ASSUME IdleTareTypeOK, NEW c, Fitting(c), c.tare.gen = gen, c.tare.req = 0, NEW s \in Samples,
           NEW accessory \in BOOLEAN, OneCup => pan.moves # 0 /\ ~accessory /\ s.reading = "cup",
           Quiet => ~pan.zeroed
    PROVE  LET d == Enqueued(c, s, accessory) IN
           /\ Fitting(d) /\ d.tare.next = c.tare.next + 1 /\ d.tare.seen = c.tare.seen
           /\ \/ d.slot = c.slot /\ d.tare.req = 0 /\ d.tare.still = c.tare.still
              \/ /\ d.slot = [id |-> c.tare.next, phase |-> "QUEUED", gen |-> gen]
                 /\ d.tare.req = c.tare.next /\ d.tare.still
  <1> DEFINE d == Enqueued(c, s, accessory)
             t == [c.tare EXCEPT !.next = @ + 1]
             u == [c.tare EXCEPT !.req = c.tare.next, !.next = @ + 1, !.still = TRUE,
                                 !.notified = FALSE, !.unchanged = FALSE, !.deferred = FALSE,
                                 !.plateau = s.reading, !.accessory = accessory]
             q == [id |-> c.tare.next, phase |-> "QUEUED", gen |-> gen]
  <1>1. c \in Pairs /\ c.slot \in TareSlots /\ c.tare \in Tares /\ gen \in Nat /\ c.tare.next \in Nat \ {0}
    BY PairsAre DEF Fitting, IdleTareTypeOK, Tares
  <1>2. CASE d = [c EXCEPT !.tare.next = @ + 1]
    <2>1. d = [slot |-> c.slot, tare |-> t]
      BY <1>1, <1>2 DEF Pairs, Tares
    <2>2. /\ t \in Tares /\ t.req = c.tare.req /\ t.next = c.tare.next + 1 /\ t.seen = c.tare.seen
          /\ t.present = c.tare.present /\ t.gen = c.tare.gen /\ t.still = c.tare.still
          /\ t.unchanged = c.tare.unchanged /\ t.reference = c.tare.reference
          /\ t.accessory = c.tare.accessory /\ t.plateau = c.tare.plateau
      BY <1>1 DEF Tares
    <2> HIDE DEF t, d
    <2>3. d \in Pairs /\ d.slot = c.slot /\ d.tare = t
      BY <1>1, <2>1, <2>2, PairsAre
    <2>4. Fitting(d)
      BY <1>1, <2>2, <2>3 DEF Fitting, Owned, Founded, Believed, TareSlots
    <2> QED
      BY <2>2, <2>3, <2>4 DEF d
  <1>3. CASE d = [slot |-> q, tare |-> u]
    <2>0. u \in Tares
      <3> DEFINE v == [c.tare EXCEPT !.req = c.tare.next, !.next = @ + 1]
      <3>1. c.tare.next + 1 \in Nat \ {0} /\ c.tare.next \in Nat
        BY <1>1
      <3>2. v \in Tares
        BY <1>1, <3>1 DEF Tares
      <3>3. u = [v EXCEPT !.still = TRUE, !.notified = FALSE, !.unchanged = FALSE, !.deferred = FALSE,
                          !.plateau = s.reading, !.accessory = accessory]
        BY <1>1 DEF Tares
      <3>4. s.reading \in Weights
        BY DEF Samples
      <3> HIDE DEF u, v
      <3> QED
        BY <3>2, <3>3, <3>4 DEF Tares
    <2>1. /\ u \in Tares /\ u.req = c.tare.next /\ u.next = c.tare.next + 1 /\ u.seen = c.tare.seen
          /\ u.present = c.tare.present /\ u.gen = c.tare.gen /\ u.still
          /\ ~u.unchanged /\ u.reference = c.tare.reference
          /\ u.accessory = accessory /\ u.plateau = s.reading
      <3>1. u.present = c.tare.present /\ u.gen = c.tare.gen /\ u.reference = c.tare.reference
        BY <1>1 DEF Tares
      <3>2. u.req = c.tare.next /\ u.next = c.tare.next + 1 /\ u.seen = c.tare.seen
        BY <1>1 DEF Tares
      <3>3. u.still /\ ~u.unchanged /\ u.accessory = accessory /\ u.plateau = s.reading
        BY <1>1 DEF Tares
      <3> QED
        BY <2>0, <3>1, <3>2, <3>3
    <2>2. q \in TareSlots /\ q.id = c.tare.next /\ q.phase = "QUEUED" /\ q.gen = gen
      BY <1>1 DEF TareSlots, Phases
    <2> HIDE DEF u, q, d
    <2>3. d \in Pairs /\ d.slot = q /\ d.tare = u
      BY <1>3, <2>1, <2>2, PairsAre
    <2>4. Owned(d)
      BY <1>1, <2>1, <2>2, <2>3 DEF Fitting, Owned
    <2>5. (OneCup => Founded(d)) /\ (Quiet => Believed(d))
      BY <1>1, <2>1, <2>2, <2>3 DEF Fitting, Founded, Believed
    <2> QED
      BY <2>1, <2>3, <2>4, <2>5 DEF Fitting, q, d
  <1> QED
    BY <1>2, <1>3 DEF Enqueued

-----------------------------------------------------------------------------
(* The scale and the worker. *)

\* The invariant holds at power on.
LEMMA TareInit == Init => IdleTareInv
  <1> SUFFICES ASSUME Init PROVE IdleTareInv
    OBVIOUS
  <1>1. IdleTareTypeOK
    <2>1. slot \in TareSlots
      BY DEF Init, NoSlot, TareSlots, Phases
    <2>2. tare \in Tares
      <3>1. NoTare \in Tares
        BY DEF NoTare, Tares, Weights
      <3> QED
        BY <3>1 DEF Init, Tares
    <2>3. window \in Seq(Samples) /\ pending \in Seq(Entries)
      BY DEF Init
    <2>4. /\ pan \in Pans /\ notice \in Notices
          /\ air \in [frame : {"none", "weight", "noise"}, reading : Weights, after : BOOLEAN,
                      fresh : BOOLEAN, noise : Nat]
      BY DEF Init, Weights, Pans, Notices
    <2>5. /\ approval \in [approved : BOOLEAN, granted : BOOLEAN] /\ gen \in Nat \ {0}
          /\ shot \in [active : BOOLEAN, count : Nat]
          /\ worker \in [pc : {"idle", "admit", "write", "finish"}, id : Nat, gen : Nat, ok : BOOLEAN]
      BY DEF Init, NoWork
    <2> QED
      BY <2>1, <2>2, <2>3, <2>4, <2>5 DEF IdleTareTypeOK
  <1>2. Now = [slot |-> slot, tare |-> tare] /\ Now \in Pairs /\ Now.slot = slot /\ Now.tare = tare
    BY <1>1, PairsAre DEF Now, IdleTareTypeOK
  <1>3. Fitting(Now)
    BY <1>2 DEF Init, Fitting, Owned, Founded, Believed, OneCup, Quiet, NoSlot, NoTare
  <1>4. Single /\ Written /\ Granted
    BY DEF Init, Single, Written, Granted, NoSlot, NoWork
  <1>5. Weighed /\ Settled
    BY DEF Init, Weighed, Settled, NoSlot, NoWork
  <1> QED
    BY <1>1, <1>3, <1>4, <1>5 DEF IdleTareInv

\* The pair of this moment.
LEMMA NowIs ==
    IdleTareTypeOK => Now \in Pairs /\ Now.slot = slot /\ Now.tare = tare
  BY PairsAre DEF Now, IdleTareTypeOK

\* The pair fits on: neither the scale nor the link nor the pair changed.
LEMMA SamePair ==
    ASSUME IdleTareInv, IdleTareTypeOK', UNCHANGED <<pan, gen, slot, tare>>
    PROVE  Fitting(Now)'
  <1>1. Now' \in Pairs /\ Now'.slot = slot /\ Now'.tare = tare
    BY PairsAre DEF Now, IdleTareTypeOK
  <1>2. Fitting(Now) /\ Now.slot = slot /\ Now.tare = tare
    BY NowIs DEF IdleTareInv
  <1> QED
    BY <1>1, <1>2 DEF Fitting, Owned, Founded, Believed, OneCup, Quiet

\* What the scale is after something on it changed.
LEMMA PansAre ==
    ASSUME IdleTareTypeOK
    PROVE  /\ pan.cup \in BOOLEAN /\ pan.item \in BOOLEAN /\ pan.zeroed \in BOOLEAN /\ pan.base \in BOOLEAN
           /\ pan.moves \in Nat /\ pan.apart \in BOOLEAN
           /\ Zeroed(pan) \in Pans /\ Zeroed(pan).moves = pan.moves /\ Zeroed(pan).cup = pan.cup
           /\ Zeroed(pan).zeroed = pan.cup /\ Zeroed(pan).item = pan.item /\ Zeroed(pan).base = pan.item
           /\ Zeroed(pan).apart = pan.apart
           /\ ZeroedUnheard(pan) \in Pans /\ ZeroedUnheard(pan).moves = pan.moves
           /\ ZeroedUnheard(pan).cup = pan.cup /\ ZeroedUnheard(pan).zeroed = pan.cup
           /\ ZeroedUnheard(pan).item = pan.item /\ ZeroedUnheard(pan).base = pan.item
           /\ ZeroedUnheard(pan).apart = pan.cup
  BY DEF IdleTareTypeOK, Pans, Zeroed, ZeroedUnheard

\* Somebody puts a cup on or takes it off.
LEMMA MoveStep == ASSUME IdleTareInv, MoveCup PROVE IdleTareInv'
  <1>1. /\ pan' = [cup |-> ~pan.cup, item |-> FALSE, zeroed |-> pan.cup /\ pan.zeroed, base |-> FALSE,
                   moves |-> pan.moves + 1, apart |-> pan.cup /\ pan.apart]
        /\ UNCHANGED <<air, window, approval, gen, slot, pending, worker, notice, tare, shot>>
    BY DEF MoveCup
  <1>2. IdleTareTypeOK /\ pan.moves \in Nat /\ pan.cup \in BOOLEAN /\ pan.zeroed \in BOOLEAN /\ pan.apart \in BOOLEAN
    BY PansAre DEF IdleTareInv
  <1>3. /\ pan' \in Pans /\ pan'.moves = pan.moves + 1 /\ (pan'.cup <=> ~pan.cup)
        /\ ~pan'.item /\ ~pan'.base /\ (~pan.cup => ~pan'.zeroed /\ ~pan'.apart)
    <2>1. (~pan.cup) \in BOOLEAN /\ (pan.cup /\ pan.zeroed) \in BOOLEAN /\ (pan.cup /\ pan.apart) \in BOOLEAN
      OBVIOUS
    <2> DEFINE b == ~pan.cup
               z == pan.cup /\ pan.zeroed
               a == pan.cup /\ pan.apart
               n == pan.moves + 1
    <2>2. b \in BOOLEAN /\ z \in BOOLEAN /\ a \in BOOLEAN /\ n \in Nat
      BY <1>2, <2>1
    <2>3. (b <=> ~pan.cup) /\ (~pan.cup => ~z /\ ~a)
      OBVIOUS
    <2>4. pan' = [cup |-> b, item |-> FALSE, zeroed |-> z, base |-> FALSE, moves |-> n, apart |-> a]
      BY <1>1
    <2>5. n = pan.moves + 1
      OBVIOUS
    <2> HIDE DEF b, z, a, n
    <2>6. /\ pan'.moves = n /\ pan'.cup = b /\ pan'.zeroed = z /\ pan'.apart = a
          /\ pan'.item = FALSE /\ pan'.base = FALSE
      BY <2>4
    <2>7. pan' \in Pans
      BY <2>2, <2>4 DEF Pans
    <2> QED
      BY <2>3, <2>5, <2>6, <2>7
  <1>4. IdleTareTypeOK'
    BY <1>1, <1>2, <1>3 DEF IdleTareTypeOK
  <1>5. OneCup' => /\ pan.moves = 0 /\ OneCup /\ Quiet /\ pan'.moves = 1 /\ ~pan'.zeroed /\ pan'.cup
                   /\ Weighed
    <2> SUFFICES ASSUME OneCup' PROVE /\ pan.moves = 0 /\ OneCup /\ Quiet /\ pan'.moves = 1
                                      /\ ~pan'.zeroed /\ pan'.cup /\ Weighed
      OBVIOUS
    <2>1. pan.moves = 0 /\ OneCup /\ pan'.moves = 1
      BY <1>2, <1>3 DEF OneCup
    <2>2. Weighed /\ ~pan.cup /\ ~pan.apart
      BY <2>1 DEF IdleTareInv, Weighed
    <2> QED
      BY <1>3, <2>1, <2>2 DEF Quiet
  <1>6. Now' = Now /\ Fitting(Now) /\ Now.slot = slot /\ Now.tare = tare
    BY <1>1, <1>2, NowIs DEF IdleTareInv, Now
  <1>7. Fitting(Now)'
    <2>1. Owned(Now)'
      BY <1>1, <1>6 DEF Fitting, Owned
    <2>2. ASSUME OneCup' PROVE Founded(Now)' /\ Believed(Now)'
      <3>1. /\ pan.moves = 0 /\ pan'.moves = 1 /\ ~pan'.zeroed /\ gen' = gen
            /\ Founded(Now) /\ Believed(Now)
        BY <1>1, <1>5, <1>6, <2>2 DEF Fitting
      <3>2. slot.phase = "NONE" \/ slot.phase \in {"QUEUED", "FAILED", "WRITING", "SUCCEEDED"}
        BY <1>2 DEF IdleTareTypeOK, TareSlots, Phases
      <3>3. slot.phase = "NONE"
        BY <1>6, <3>1, <3>2 DEF Fitting, Owned, Founded
      <3> QED
        BY <1>6, <3>1, <3>3 DEF Founded, Believed
    <2> QED
      BY <1>6, <2>1, <2>2 DEF Fitting, Quiet
  <1>8. OneCup' => Weighed' /\ Settled'
    <2> SUFFICES ASSUME OneCup' PROVE Weighed' /\ Settled'
      OBVIOUS
    <2>1. worker.pc = "idle" /\ pan'.moves = 1 /\ ~pan'.zeroed /\ pan'.cup
      BY <1>5 DEF Weighed
    <2>2. ~tare.present
      BY <1>5, <1>6 DEF Fitting, Founded
    <2>3. Weighed'
      BY <1>1, <1>3, <1>5, <2>1, <2>2 DEF Weighed
    <2> QED
      BY <2>1, <2>3 DEF Settled
  <1>9. Single' /\ Written' /\ Granted'
    BY <1>1 DEF IdleTareInv, Single, Written, Granted
  <1> QED
    BY <1>4, <1>7, <1>8, <1>9 DEF IdleTareInv, Quiet

\* An item is laid on the cup, or taken off it: more than one cup put on once.
LEMMA ItemStep == ASSUME IdleTareInv, MoveItem PROVE IdleTareInv'
  <1>1. /\ pan' = [pan EXCEPT !.item = ~@, !.moves = @ + 1] /\ pan.cup
        /\ UNCHANGED <<air, window, approval, gen, slot, pending, worker, notice, tare, shot>>
    BY DEF MoveItem
  <1>2. IdleTareTypeOK /\ pan.moves \in Nat /\ pan \in Pans
    BY DEF IdleTareInv, IdleTareTypeOK, Pans
  <1>3. pan' \in Pans /\ pan'.moves = pan.moves + 1
    <2> DEFINE b == ~pan.item
               n == pan.moves + 1
    <2>1. b \in BOOLEAN /\ n \in Nat
      BY <1>2
    <2>2. pan' = [pan EXCEPT !.item = b, !.moves = n] /\ n = pan.moves + 1
      BY <1>1
    <2> HIDE DEF b, n
    <2> QED
      BY <1>2, <2>1, <2>2 DEF Pans
  <1>4. IdleTareTypeOK'
    BY <1>1, <1>2, <1>3 DEF IdleTareTypeOK
  <1>5. ~OneCup' /\ ~Quiet'
    <2>1. OneCup => pan.moves # 0
      BY <1>1 DEF IdleTareInv, Weighed
    <2>2. pan.moves # 0
      BY <1>2, <2>1 DEF OneCup
    <2> QED
      BY <1>2, <1>3, <2>2 DEF OneCup, Quiet
  <1>6. Now' = Now /\ Fitting(Now)
    BY <1>1 DEF IdleTareInv, Now
  <1>7. Fitting(Now)'
    BY <1>1, <1>5, <1>6 DEF Fitting, Owned
  <1>8. Single' /\ Written' /\ Granted'
    BY <1>1 DEF IdleTareInv, Single, Written, Granted
  <1> QED
    BY <1>4, <1>5, <1>7, <1>8 DEF IdleTareInv

\* The debug page zeroes the scale, or tries to: a cup that was zeroed so is apart.
LEMMA DebugStep == ASSUME IdleTareInv, DebugTare PROVE IdleTareInv'
  <1>1. /\ worker.pc = "idle" /\ notice.event = "none"
        /\ UNCHANGED <<air, window, approval, gen, slot, pending, worker, tare, shot>>
    BY DEF DebugTare
  <1>2. PICK ok \in BOOLEAN :
          /\ pan' \in {ZeroedUnheard(pan)} \cup (IF ok THEN {} ELSE {pan})
          /\ notice' = [event |-> IF ok THEN "done" ELSE "failed", count |-> notice.count + 1]
    BY DEF DebugTare
  <1>3. IdleTareTypeOK /\ pan \in Pans /\ notice.count \in Nat
    BY DEF IdleTareInv, IdleTareTypeOK, Notices
  <1>4. /\ notice' \in Notices /\ (ok => notice'.event = "done") /\ (~ok => notice'.event = "failed")
    BY <1>2, <1>3 DEF Notices
  <1>5. /\ pan' = ZeroedUnheard(pan) \/ (~ok /\ pan' = pan)
        /\ pan' \in Pans /\ pan'.moves = pan.moves
    BY <1>2, <1>3, PansAre
  <1>6. IdleTareTypeOK'
    BY <1>1, <1>3, <1>4, <1>5 DEF IdleTareTypeOK
  <1>7. Now' = Now /\ Fitting(Now) /\ Now.slot = slot /\ Now.tare = tare
    BY <1>1, <1>3, NowIs DEF IdleTareInv, Now
  <1>8. OneCup' => OneCup
    BY <1>5 DEF OneCup
  <1>9. Single' /\ Written' /\ Granted'
    BY <1>1 DEF IdleTareInv, Single, Written, Granted
  <1>10. CASE pan' = pan /\ ~ok
    <2>1. Fitting(Now)'
      BY <1>1, <1>6, <1>10, SamePair
    <2>2. (OneCup' => Weighed') /\ (Quiet' => Settled')
      BY <1>1, <1>4, <1>10 DEF IdleTareInv, OneCup, Quiet, Weighed, Settled
    <2> QED
      BY <1>6, <1>9, <2>1, <2>2 DEF IdleTareInv
  <1>11. CASE pan' = ZeroedUnheard(pan)
    <2>1. /\ pan'.cup = pan.cup /\ pan'.zeroed = pan.cup /\ pan'.apart = pan.cup /\ pan'.item = pan.item
          /\ pan'.base = pan.item /\ pan.cup \in BOOLEAN /\ pan.moves \in Nat
      BY <1>3, <1>11, PansAre
    <2>2. OneCup => \/ pan.moves = 0 /\ ~pan.cup /\ ~pan.zeroed /\ ~pan.apart
                    \/ pan.moves = 1 /\ pan.cup
      BY <2>1 DEF IdleTareInv, Weighed, OneCup
    <2>3. OneCup => Founded(Now)'
      BY <1>1, <1>5, <1>7, <2>1, <2>2 DEF Fitting, Founded
    <2>4. Quiet' => Quiet /\ Believed(Now)'
      <3>1. Quiet' => pan.moves = 0 /\ ~pan.cup /\ ~pan.zeroed /\ Quiet
        BY <1>8, <2>1, <2>2 DEF Quiet
      <3> QED
        BY <1>1, <1>7, <2>1, <3>1 DEF Fitting, Believed
    <2>5. Fitting(Now)'
      <3>1. Owned(Now)'
        BY <1>1, <1>7 DEF Fitting, Owned
      <3> QED
        BY <1>7, <1>8, <2>3, <2>4, <3>1 DEF Fitting
    <2>6. OneCup' => Weighed'
      <3>1. OneCup /\ tare.present => pan.moves # 0
        BY <1>7 DEF Fitting, Founded
      <3> QED
        BY <1>1, <1>5, <1>8, <2>1, <2>2, <3>1 DEF IdleTareInv, Weighed
    <2>7. Quiet' => Settled'
      <3>1. Quiet' => ~pan'.zeroed
        BY <2>1 DEF Quiet
      <3> QED
        BY <3>1 DEF Settled
    <2> QED
      BY <1>6, <1>9, <2>5, <2>6, <2>7 DEF IdleTareInv
  <1> QED
    BY <1>5, <1>10, <1>11

\* The scale sends a weight, or something that is none.
LEMMA NotifyStep == ASSUME IdleTareInv, NEW f \in {"weight", "noise"}, Notify(f) PROVE IdleTareInv'
  <1>1. /\ air.frame = "none"
        /\ air' = [frame |-> f, reading |-> Reading,
                   after |-> slot.phase \in {"WRITING", "SUCCEEDED"}, fresh |-> FALSE,
                   noise |-> IF f = "noise" THEN air.noise + 1 ELSE air.noise]
        /\ UNCHANGED <<pan, window, approval, gen, slot, pending, worker, notice, tare, shot>>
    BY DEF Notify
  <1>2. /\ Reading \in Weights
        /\ ~pan.cup /\ ~pan.zeroed => Reading = "zero"
        /\ ~pan.item /\ ~pan.base /\ pan.cup /\ pan.zeroed => Reading = "zero"
        /\ ~pan.item /\ ~pan.base /\ (pan.cup \/ ~pan.zeroed) => Reading \in {"zero", "cup"}
    <2>1. Reading \in Weights
      BY DEF Reading, Weights
    <2>2. ~pan.cup /\ ~pan.zeroed => Reading = "zero"
      BY DEF Reading
    <2>3. pan.item \in BOOLEAN /\ pan.base \in BOOLEAN
      BY PansAre DEF IdleTareInv
    <2>4. ~pan.item /\ ~pan.base => pan.item = pan.base
      BY <2>3
    <2>5. ~pan.item /\ ~pan.base /\ pan.cup /\ pan.zeroed => Reading = "zero"
      BY <2>4 DEF Reading
    <2>6. pan.cup /\ ~pan.zeroed => Reading = "cup"
      BY DEF Reading
    <2> QED
      BY <2>1, <2>2, <2>5, <2>6
  <1>3. IdleTareTypeOK'
    BY <1>1, <1>2 DEF IdleTareInv, IdleTareTypeOK
  <1>4. OneCup => pan.moves = 0 \/ pan.moves = 1
    BY PansAre DEF IdleTareInv, OneCup
  <1>5. (OneCup' => Weighed') /\ (Quiet' => Settled')
    <2>1. air'.reading = Reading
      BY <1>1
    <2>2. OneCup' => OneCup /\ Weighed
      BY <1>1 DEF IdleTareInv, OneCup
    <2>3. Quiet' => OneCup /\ Quiet /\ Settled
      BY <1>1 DEF IdleTareInv, OneCup, Quiet
    <2>4. OneCup' => Weighed'
      BY <1>1, <1>2, <1>4, <2>1, <2>2 DEF Weighed
    <2>5. Quiet' => Settled'
      BY <1>1, <1>2, <1>4, <2>1, <2>2, <2>3 DEF IdleTareInv, Weighed, Settled
    <2> QED
      BY <2>4, <2>5
  <1>6. Single' /\ Written' /\ Granted'
    BY <1>1 DEF IdleTareInv, Single, Written, Granted
  <1> QED
    BY <1>1, <1>3, <1>5, <1>6, SamePair DEF IdleTareInv

\* The link comes back.
LEMMA ReconnectStep == ASSUME IdleTareInv, Reconnect PROVE IdleTareInv'
  <1>1. /\ gen' = gen + 1 /\ window' = <<>>
        /\ air' = [air EXCEPT !.frame = "none", !.fresh = FALSE]
        /\ approval' = [approved |-> FALSE, granted |-> FALSE]
        /\ notice' = [notice EXCEPT !.event = "none"]
        /\ UNCHANGED <<pan, slot, pending, worker, tare, shot>>
    BY DEF Reconnect
  <1>2. IdleTareTypeOK'
    <2>1. IdleTareTypeOK /\ gen' \in Nat \ {0} /\ window' \in Seq(Samples)
      BY <1>1 DEF IdleTareInv, IdleTareTypeOK
    <2>2. air' \in [frame : {"none", "weight", "noise"}, reading : Weights, after : BOOLEAN,
                    fresh : BOOLEAN, noise : Nat]
      BY <1>1, <2>1 DEF IdleTareTypeOK
    <2>3. approval' \in [approved : BOOLEAN, granted : BOOLEAN]
      BY <1>1
    <2>4. notice' \in Notices
      BY <1>1, <2>1 DEF IdleTareTypeOK, Notices
    <2> QED
      BY <1>1, <2>1, <2>2, <2>3, <2>4 DEF IdleTareTypeOK
  <1>3. Now' = Now /\ Fitting(Now) /\ Now.slot = slot /\ Now.tare = tare
    BY <1>1, NowIs DEF IdleTareInv, Now
  <1>4. gen \in Nat /\ slot.gen \in Nat /\ tare.seen \in Nat /\ slot.gen <= gen /\ tare.seen <= gen
    BY <1>3 DEF IdleTareInv, IdleTareTypeOK, TareSlots, Tares, Fitting, Owned
  <1>5. slot.gen # gen' /\ tare.seen # gen' /\ slot.gen <= gen' /\ tare.seen <= gen'
    BY <1>1, <1>4
  <1>6. Fitting(Now)'
    BY <1>1, <1>3, <1>5 DEF Fitting, Owned, Founded, Believed, OneCup, Quiet
  <1>7. (OneCup' => Weighed') /\ (Quiet' => Settled')
    <2>1. notice'.event = "none" /\ air'.frame = "none" /\ Len(window') = 0
      BY <1>1 DEF IdleTareInv, IdleTareTypeOK, Notices
    <2> QED
      BY <1>1, <2>1 DEF IdleTareInv, OneCup, Quiet, Weighed, Settled
  <1>8. Single' /\ Written' /\ Granted'
    BY <1>1 DEF IdleTareInv, Single, Written, Granted, IdleTareTypeOK
  <1> QED
    BY <1>2, <1>6, <1>7, <1>8 DEF IdleTareInv

\* A frame is read while nothing is being written, and revokes what was approved.
LEMMA ReadStep == ASSUME IdleTareInv, Poll \/ Capture PROVE IdleTareInv'
  <1>1. /\ ReadFrame /\ worker.pc \in {"idle", "admit"} /\ air.frame # "none"
        /\ UNCHANGED <<pan, gen, slot, pending, worker, notice, tare, shot>>
    BY DEF Poll, Capture
  <1>2. IdleTareTypeOK
    BY DEF IdleTareInv
  <1>3. slot.phase # "WRITING"
    BY <1>1 DEF IdleTareInv, Written
  <1>4. CASE air.frame = "weight"
    <2>1. /\ window' = Published(window)
          /\ air' = [air EXCEPT !.frame = "none", !.fresh = TRUE]
          /\ approval' = [approved |-> FALSE, granted |-> FALSE]
      BY <1>1, <1>4 DEF ReadFrame
    <2>2. ASSUME NEW b \in BOOLEAN PROVE WeightSample(b) \in Samples /\ WeightSample(b).reading = air.reading
      BY <1>2 DEF IdleTareTypeOK, WeightSample, Samples
    <2> DEFINE ws == window
    <2>3. window' = <<WeightSample(TRUE)>> \/ window' = Append(ws, WeightSample(FALSE))
      BY <2>1 DEF Published
    <2>4. ws \in Seq(Samples)
      BY <1>2 DEF IdleTareTypeOK
    <2>5. /\ window' \in Seq(Samples)
          /\ \A i \in 1..Len(window') :
               window'[i].reading = air.reading \/ (i \in 1..Len(ws) /\ window'[i] = ws[i])
      <3>1. CASE window' = <<WeightSample(TRUE)>>
        <4> DEFINE x == WeightSample(TRUE)
        <4>0. x \in Samples /\ window' = <<x>>
          BY <2>2, <3>1
        <4> HIDE DEF x
        <4>1. window' \in Seq(Samples) /\ Len(window') = 1 /\ window'[1] = x
          BY <4>0
        <4> USE DEF x
        <4>2. \A i \in 1..Len(window') : i = 1
          BY <4>1
        <4> QED
          BY <2>2, <4>1, <4>2
      <3>2. CASE window' = Append(ws, WeightSample(FALSE))
        <4> DEFINE x == WeightSample(FALSE)
        <4>0. x \in Samples
          BY <2>2
        <4> HIDE DEF x, ws
        <4>1. /\ window' \in Seq(Samples) /\ Len(window') = Len(ws) + 1
              /\ window'[Len(ws) + 1] = x
              /\ \A i \in 1..Len(ws) : window'[i] = ws[i]
          <5>1. window' = Append(ws, x)
            BY <3>2 DEF x
          <5> QED
            BY <2>4, <4>0, <5>1
        <4> USE DEF x
        <4>2. \A i \in 1..Len(window') : i = Len(ws) + 1 \/ i \in 1..Len(ws)
          BY <2>4, <4>1
        <4> QED
          BY <2>2, <4>1, <4>2
      <3> QED
        BY <2>3, <3>1, <3>2
    <2>6. IdleTareTypeOK'
      BY <1>1, <1>2, <2>1, <2>5 DEF IdleTareTypeOK
    <2>7. (OneCup' => Weighed') /\ (Quiet' => Settled')
      <3>1. air'.frame = "none"
        BY <1>2, <2>1 DEF IdleTareTypeOK
      <3>2. OneCup' => OneCup /\ Weighed
        BY <1>1 DEF IdleTareInv, OneCup
      <3>3. Quiet' => Quiet /\ Settled
        BY <1>1 DEF IdleTareInv, OneCup, Quiet
      <3>4. OneCup' => Weighed'
        BY <1>1, <1>4, <2>5, <3>1, <3>2 DEF Weighed
      <3>5. Quiet' => Settled'
        BY <1>1, <1>4, <2>5, <3>1, <3>3 DEF Settled
      <3> QED
        BY <3>4, <3>5
    <2>8. Single' /\ Written' /\ Granted'
      BY <1>1, <1>2, <1>3, <2>1 DEF IdleTareInv, Single, Written, Granted, IdleTareTypeOK
    <2> QED
      BY <1>1, <2>6, <2>7, <2>8, SamePair DEF IdleTareInv
  <1>5. CASE air.frame # "weight"
    <2>1. air' = [air EXCEPT !.frame = "none"] /\ UNCHANGED <<window, approval>>
      BY <1>1, <1>5 DEF ReadFrame
    <2>2. IdleTareTypeOK'
      BY <1>1, <1>2, <2>1 DEF IdleTareTypeOK
    <2>3. air'.frame = "none" /\ air'.fresh = air.fresh
      BY <1>2, <2>1 DEF IdleTareTypeOK
    <2>4. (OneCup' => Weighed') /\ (Quiet' => Settled')
      BY <1>1, <2>1, <2>3 DEF IdleTareInv, OneCup, Quiet, Weighed, Settled
    <2>5. Single' /\ Written' /\ Granted'
      BY <1>1, <2>1, <2>3 DEF IdleTareInv, Single, Written, Granted
    <2> QED
      BY <1>1, <2>2, <2>4, <2>5, SamePair DEF IdleTareInv
  <1> QED
    BY <1>4, <1>5

\* What waits in the queue is a request.
LEMMA Entry == \A i \in 1..Len(pending) : IdleTareTypeOK => pending[i] \in Entries
  BY DEF IdleTareTypeOK

\* The worker takes a request.
LEMMA TakeStep == ASSUME IdleTareInv, TakeCommand PROVE IdleTareInv'
  <1> DEFINE h == Head(pending)
             p == Tail(pending)
  <1>1. /\ worker.pc = "idle" /\ pending # <<>> /\ pending' = p
        /\ worker' = [pc |-> IF h.gen = gen THEN "admit" ELSE "finish", id |-> h.id, gen |-> h.gen,
                      ok |-> FALSE]
        /\ UNCHANGED <<pan, air, window, approval, gen, slot, notice, tare, shot>>
    BY DEF TakeCommand
  <1>2. IdleTareTypeOK /\ pending \in Seq(Entries)
    BY DEF IdleTareInv, IdleTareTypeOK
  <1>3. /\ p \in Seq(Entries) /\ h \in Entries /\ h = pending[1] /\ 1 \in 1..Len(pending)
        /\ \A i \in 1..Len(p) : i + 1 \in 1..Len(pending) /\ i + 1 # 1 /\ p[i] = pending[i + 1]
    BY <1>1, <1>2
  <1> HIDE DEF h, p
  <1>4. IdleTareTypeOK'
    BY <1>1, <1>2, <1>3 DEF IdleTareTypeOK, Entries
  <1>5. Single'
    <2>1. worker'.id = h.id /\ worker'.gen = h.gen /\ worker'.pc # "idle"
      BY <1>1
    <2>2. /\ h.id # 0 /\ h.id < tare.next /\ (slot.phase = "SUCCEEDED" => h.id # slot.id)
          /\ h.id = slot.id => h.gen = slot.gen
      BY <1>3 DEF IdleTareInv, Single
    <2>3. ASSUME NEW i \in 1..Len(p)
          PROVE  /\ p[i].id # 0 /\ p[i].id < tare.next /\ p[i].id # h.id
                 /\ slot.phase = "SUCCEEDED" => p[i].id # slot.id
                 /\ p[i].id = slot.id => p[i].gen = slot.gen
                 /\ \A j \in 1..Len(p) : i # j => p[i].id # p[j].id
      <3>1. i + 1 \in 1..Len(pending) /\ i + 1 # 1 /\ p[i] = pending[i + 1]
        BY <1>3
      <3>2. ASSUME NEW j \in 1..Len(p), i # j PROVE p[i].id # p[j].id
        <4>1. j + 1 \in 1..Len(pending) /\ p[j] = pending[j + 1] /\ i + 1 # j + 1
          BY <1>3, <3>2
        <4> QED
          BY <3>1, <4>1 DEF IdleTareInv, Single
      <3> QED
        BY <1>3, <3>1, <3>2 DEF IdleTareInv, Single
    <2> QED
      BY <1>1, <2>1, <2>2, <2>3 DEF Single
  <1>6. worker'.pc \in {"admit", "finish"} /\ ~worker'.ok /\ slot.phase # "WRITING"
    BY <1>1 DEF IdleTareInv, Written
  <1>7. Written' /\ Granted'
    BY <1>1, <1>6 DEF IdleTareInv, Written, Granted
  <1>8. (OneCup' => Weighed') /\ (Quiet' => Settled')
    <2>1. ASSUME OneCup PROVE pan.moves # 0
      BY <1>1, <2>1 DEF IdleTareInv, Weighed
    <2> QED
      BY <1>1, <1>6, <2>1 DEF IdleTareInv, OneCup, Quiet, Weighed, Settled
  <1> QED
    BY <1>1, <1>4, <1>5, <1>7, <1>8, SamePair DEF IdleTareInv

\* The worker moves the slot on, from a phase to another one.
LEMMA PhaseFits ==
    ASSUME IdleTareInv, NEW ph \in {"QUEUED", "WRITING", "SUCCEEDED", "FAILED"}, slot.phase # "NONE",
           slot' = [slot EXCEPT !.phase = ph], UNCHANGED <<pan, gen, tare>>,
           ph = "SUCCEEDED" => slot.phase = "WRITING" /\ (OneCup => pan.zeroed),
           ph = "WRITING" => tare.still,
           ph \in {"QUEUED", "FAILED"} => (Quiet => ~pan.zeroed)
    PROVE  /\ slot' \in TareSlots /\ slot'.phase = ph /\ slot'.id = slot.id /\ slot'.gen = slot.gen
           /\ Fitting(Now)'
  <1>1. /\ slot' \in TareSlots /\ slot'.phase = ph /\ slot'.id = slot.id /\ slot'.gen = slot.gen
    BY DEF IdleTareInv, IdleTareTypeOK, TareSlots, Phases
  <1>2. tare' \in Tares /\ tare' = tare /\ gen' = gen /\ pan' = pan
    BY DEF IdleTareInv, IdleTareTypeOK
  <1>3. Now' \in Pairs /\ Now'.slot = slot' /\ Now'.tare = tare
    BY <1>1, <1>2, PairsAre DEF Now
  <1>4. Fitting(Now) /\ Now.slot = slot /\ Now.tare = tare
    BY NowIs DEF IdleTareInv
  <1>5. Owned(Now)'
    BY <1>1, <1>2, <1>3, <1>4 DEF Fitting, Owned
  <1>6. OneCup' => Founded(Now)'
    BY <1>1, <1>2, <1>3, <1>4 DEF Fitting, Founded, OneCup
  <1>7. Quiet' => Believed(Now)'
    BY <1>1, <1>2, <1>3, <1>4 DEF Fitting, Believed, OneCup, Quiet
  <1> QED
    BY <1>1, <1>3, <1>5, <1>6, <1>7 DEF Fitting

\* While a scale that was zeroed has a request, it is the one that zeroed it.
LEMMA OneZeroing ==
    ASSUME IdleTareInv, Quiet, pan.zeroed, slot.phase # "NONE"
    PROVE  slot.phase = "SUCCEEDED" \/ (slot.phase = "WRITING" /\ worker.pc = "finish" /\ worker.ok)
  <1>1. Fitting(Now) /\ Now.slot = slot /\ Now.tare = tare
    BY NowIs DEF IdleTareInv
  <1>2. tare.req # 0
    BY <1>1 DEF Fitting, Owned
  <1> QED
    BY <1>1, <1>2 DEF IdleTareInv, Fitting, Believed, Settled

\* A slot with the number of the request in hand is waiting for it.
LEMMA SlotOfWorker ==
    ASSUME IdleTareInv, worker.pc # "idle", slot.id = worker.id
    PROVE  slot.phase \in {"QUEUED", "WRITING", "FAILED"}
  <1>1. Fitting(Now) /\ Now.slot = slot
    BY NowIs DEF IdleTareInv
  <1>2. slot.phase \in Phases /\ worker.id # 0 /\ slot.phase # "SUCCEEDED"
    BY DEF IdleTareInv, IdleTareTypeOK, TareSlots, Single
  <1>3. slot.phase # "NONE"
    BY <1>1, <1>2, PairsAre DEF Fitting, Owned
  <1> QED
    BY <1>2, <1>3 DEF Phases

\* A request that is put off leaves the worker free.
LEMMA DeferredStep ==
    ASSUME IdleTareInv, worker.pc \in {"admit", "write"}, Deferred(slot), worker' = NoWork,
           slot.phase = "WRITING" => ~air.fresh,
           UNCHANGED <<pan, air, window, approval, gen, notice, tare, shot>>
    PROVE  IdleTareInv'
  <1> DEFINE e == [id |-> worker.id, gen |-> worker.gen]
             put == [slot EXCEPT !.phase = "QUEUED"]
  <1>1. IdleTareTypeOK /\ slot \in TareSlots /\ slot.phase \in Phases /\ pending \in Seq(Entries) /\ e \in Entries
    BY DEF IdleTareInv, IdleTareTypeOK, TareSlots, Entries
  <1>2. NoWork.pc = "idle" /\ ~NoWork.ok
        /\ NoWork \in [pc : {"idle", "admit", "write", "finish"}, id : Nat, gen : Nat, ok : BOOLEAN]
    BY DEF NoWork
  <1>3. slot.phase = "WRITING" => slot.id = worker.id /\ worker.pc = "write"
    BY DEF IdleTareInv, Written
  <1>4. slot.phase = "QUEUED" => put = slot
    BY <1>1 DEF TareSlots
  <1>5. \/ slot' = slot /\ pending' = pending /\ slot.phase # "WRITING"
        \/ /\ slot.id = worker.id /\ slot.phase \in {"QUEUED", "WRITING"}
           /\ \/ slot' = put /\ pending' = Append(pending, e)
              \/ slot' = [put EXCEPT !.phase = "FAILED"] /\ pending' = pending
    <2>1. BackInQueue(slot, worker.id) = IF slot.phase = "WRITING" THEN put ELSE slot
      BY <1>3 DEF BackInQueue
    <2>2. put.id = slot.id /\ put.phase = "QUEUED"
      BY <1>1 DEF TareSlots
    <2> HIDE DEF put, e
    <2> QED
      BY <1>3, <1>4, <2>1, <2>2 DEF Deferred, e
  <1>6. [put EXCEPT !.phase = "FAILED"] = [slot EXCEPT !.phase = "FAILED"]
    BY <1>1 DEF TareSlots
  <1> HIDE DEF e
  <1>7. slot.phase # "NONE" => (Quiet => slot.phase \in {"SUCCEEDED"} \/ ~pan.zeroed)
    BY <1>3, OneZeroing
  <1>8. CASE slot' = slot /\ pending' = pending /\ slot.phase # "WRITING"
    <2>1. IdleTareTypeOK'
      BY <1>1, <1>2, <1>8 DEF IdleTareTypeOK
    <2>2. (OneCup' => Weighed') /\ (Quiet' => Settled')
      BY <1>2, <1>8 DEF IdleTareInv, OneCup, Quiet, Weighed, Settled
    <2>3. Single' /\ Written' /\ Granted'
      BY <1>2, <1>8 DEF IdleTareInv, Single, Written, Granted
    <2> QED
      BY <1>8, <2>1, <2>2, <2>3, SamePair DEF IdleTareInv
  <1>9. CASE /\ slot.id = worker.id /\ slot.phase \in {"QUEUED", "WRITING"}
             /\ slot' = put /\ pending' = Append(pending, e)
    <2>1. /\ slot' \in TareSlots /\ slot'.phase = "QUEUED" /\ slot'.id = slot.id /\ slot'.gen = slot.gen
          /\ Fitting(Now)'
      BY <1>7, <1>9, PhaseFits
    <2>2. IdleTareTypeOK'
      BY <1>1, <1>2, <1>9, <2>1 DEF IdleTareTypeOK
    <2>3. /\ Len(pending') = Len(pending) + 1 /\ pending'[Len(pending) + 1] = e
          /\ \A i \in 1..Len(pending) : pending'[i] = pending[i]
          /\ \A i \in 1..Len(pending') : i = Len(pending) + 1 \/ i \in 1..Len(pending)
      BY <1>1, <1>9
    <2>4. /\ e.id = worker.id /\ e.gen = worker.gen /\ worker.id # 0 /\ worker.id < tare.next
          /\ worker.gen = slot.gen
      BY <1>9 DEF IdleTareInv, Single, e
    <2>5. Single'
      BY <1>2, <1>9, <2>1, <2>3, <2>4 DEF IdleTareInv, Single
    <2>6. Written'
      BY <1>2, <2>1 DEF IdleTareInv, Written
    <2>7. Granted'
      BY <1>9, <2>1 DEF IdleTareInv, Granted
    <2>8. (OneCup' => Weighed') /\ (Quiet' => Settled')
      <3>1. OneCup => pan.moves # 0
        BY DEF IdleTareInv, Weighed
      <3> QED
        BY <1>2, <1>9, <2>1, <3>1 DEF IdleTareInv, OneCup, Quiet, Weighed, Settled
    <2> QED
      BY <2>1, <2>2, <2>5, <2>6, <2>7, <2>8 DEF IdleTareInv
  <1>10. CASE /\ slot.id = worker.id /\ slot.phase \in {"QUEUED", "WRITING"}
              /\ slot' = [put EXCEPT !.phase = "FAILED"] /\ pending' = pending
    <2>1. /\ slot' \in TareSlots /\ slot'.phase = "FAILED" /\ slot'.id = slot.id /\ slot'.gen = slot.gen
          /\ Fitting(Now)'
      BY <1>6, <1>7, <1>10, PhaseFits
    <2>2. IdleTareTypeOK'
      BY <1>1, <1>2, <1>10, <2>1 DEF IdleTareTypeOK
    <2>3. Single' /\ Written' /\ Granted'
      BY <1>2, <1>10, <2>1 DEF IdleTareInv, Single, Written, Granted
    <2>4. (OneCup' => Weighed') /\ (Quiet' => Settled')
      BY <1>2, <1>10, <2>1 DEF IdleTareInv, OneCup, Quiet, Weighed, Settled
    <2> QED
      BY <2>1, <2>2, <2>3, <2>4 DEF IdleTareInv
  <1> QED
    BY <1>5, <1>8, <1>9, <1>10

\* The worker admits the request, or puts it off.
LEMMA AdmitStep == ASSUME IdleTareInv, Admit PROVE IdleTareInv'
  <1>1. /\ worker.pc = "admit" /\ air.frame = "none"
        /\ UNCHANGED <<pan, air, approval, gen, notice, tare, shot>>
    BY DEF Admit
  <1>2. CASE /\ Claimable /\ slot' = [slot EXCEPT !.phase = "WRITING"]
             /\ window' = BeforeBoundary(window)
             /\ worker' = [worker EXCEPT !.pc = "write"] /\ UNCHANGED pending
    <2>1. /\ slot.id = worker.id /\ slot.phase = "QUEUED" /\ approval.approved /\ approval.granted
          /\ air.fresh
      BY <1>2 DEF Claimable
    <2>2. window = <<>> /\ tare.still /\ ~shot.active
      BY <2>1 DEF IdleTareInv, Written, Granted
    <2>3. window' = <<>>
      BY <1>2, <2>2 DEF BeforeBoundary
    <2>4. /\ slot' \in TareSlots /\ slot'.phase = "WRITING" /\ slot'.id = slot.id /\ slot'.gen = slot.gen
          /\ Fitting(Now)'
      BY <1>1, <1>2, <2>1, <2>2, PhaseFits
    <2>5. /\ worker' \in [pc : {"idle", "admit", "write", "finish"}, id : Nat, gen : Nat, ok : BOOLEAN]
          /\ worker'.pc = "write" /\ worker'.id = worker.id /\ worker'.gen = worker.gen
          /\ worker'.ok = worker.ok
      BY <1>2 DEF IdleTareInv, IdleTareTypeOK
    <2>6. IdleTareTypeOK'
      BY <1>1, <1>2, <2>3, <2>4, <2>5 DEF IdleTareInv, IdleTareTypeOK
    <2>7. Single' /\ Written' /\ Granted'
      BY <1>1, <1>2, <2>1, <2>3, <2>4, <2>5 DEF IdleTareInv, Single, Written, Granted
    <2>8. Quiet => ~pan.zeroed
      BY <2>1, OneZeroing
    <2>9. (OneCup' => Weighed') /\ (Quiet' => Settled')
      <3>1. OneCup => pan.moves # 0
        BY <1>1 DEF IdleTareInv, Weighed
      <3>2. Len(window') = 0 /\ worker'.pc = "write"
        BY <2>3, <2>5
      <3> QED
        BY <1>1, <1>2, <2>8, <3>1, <3>2 DEF IdleTareInv, OneCup, Quiet, Weighed, Settled
    <2> QED
      BY <2>4, <2>6, <2>7, <2>9 DEF IdleTareInv
  <1>3. CASE Deferred(slot) /\ worker' = NoWork /\ UNCHANGED window
    <2>1. slot.phase # "WRITING"
      BY <1>1 DEF IdleTareInv, Written
    <2> QED
      BY <1>1, <1>3, <2>1, DeferredStep
  <1> QED
    BY <1>2, <1>3 DEF Admit

\* A result for the slot of the request, or for none.
LEMMA FinishedStep ==
    ASSUME IdleTareInv, NEW ok \in BOOLEAN, slot' = Finished(slot, worker.id, ok), worker' = NoWork,
           worker.pc \in {"admit", "finish"}, ok <=> worker.pc = "finish" /\ worker.ok,
           UNCHANGED <<pan, air, window, approval, gen, pending, notice, tare, shot>>
    PROVE  IdleTareInv'
  <1>1. /\ IdleTareTypeOK /\ NoWork.pc = "idle" /\ ~NoWork.ok
        /\ NoWork \in [pc : {"idle", "admit", "write", "finish"}, id : Nat, gen : Nat, ok : BOOLEAN]
    BY DEF IdleTareInv, NoWork
  <1>2. /\ slot.phase = "WRITING" => slot.id = worker.id
        /\ ok => slot.phase = "WRITING"
    BY DEF IdleTareInv, Written
  <1>3. CASE slot.id # worker.id
    <2>1. slot' = slot /\ slot.phase # "WRITING"
      BY <1>2, <1>3 DEF Finished
    <2>2. IdleTareTypeOK'
      BY <1>1, <2>1 DEF IdleTareTypeOK
    <2>3. (OneCup' => Weighed') /\ (Quiet' => Settled')
      BY <1>1, <2>1 DEF IdleTareInv, OneCup, Quiet, Weighed, Settled
    <2>4. Single' /\ Written' /\ Granted'
      BY <1>1, <2>1 DEF IdleTareInv, Single, Written, Granted
    <2> QED
      BY <2>1, <2>2, <2>3, <2>4, SamePair DEF IdleTareInv
  <1>4. CASE slot.id = worker.id
    <2> DEFINE ph == IF ok THEN "SUCCEEDED" ELSE "FAILED"
    <2>1. slot' = [slot EXCEPT !.phase = ph]
      BY <1>4 DEF Finished
    <2>2. slot.phase \in {"QUEUED", "WRITING", "FAILED"}
      BY <1>4, SlotOfWorker
    <2>3. ok => (OneCup => pan.zeroed)
      BY DEF IdleTareInv, Weighed
    <2>4. ~ok => (Quiet => ~pan.zeroed)
      BY <2>2, OneZeroing
    <2>5. /\ slot' \in TareSlots /\ slot'.phase = ph /\ slot'.id = slot.id /\ slot'.gen = slot.gen
          /\ Fitting(Now)'
      BY <1>2, <2>1, <2>2, <2>3, <2>4, PhaseFits
    <2>6. slot'.phase \in {"SUCCEEDED", "FAILED"}
      BY <2>5
    <2> HIDE DEF ph
    <2>7. IdleTareTypeOK'
      BY <1>1, <2>5 DEF IdleTareTypeOK
    <2>8. Single'
      BY <1>1, <1>4, <2>5 DEF IdleTareInv, Single
    <2>9. Written' /\ Granted'
      BY <1>1, <2>6 DEF IdleTareInv, Written, Granted
    <2>10. (OneCup' => Weighed') /\ (Quiet' => Settled')
      BY <1>1, <2>6 DEF IdleTareInv, OneCup, Quiet, Weighed, Settled
    <2> QED
      BY <2>5, <2>7, <2>8, <2>9, <2>10 DEF IdleTareInv
  <1> QED
    BY <1>3, <1>4

\* The worker ends the request, with a result or without.
LEMMA ResultStep == ASSUME IdleTareInv, Expire \/ Finish PROVE IdleTareInv'
  <1>1. CASE Expire
    BY <1>1, FinishedStep DEF Expire
  <1>2. CASE Finish
    <2>1. worker.ok \in BOOLEAN
      BY DEF IdleTareInv, IdleTareTypeOK
    <2> QED
      BY <1>2, <2>1, FinishedStep DEF Finish
  <1> QED
    BY <1>1, <1>2

\* The scale is zeroed when nothing is in the window or on its way: what it weighs
\* from now on is zero.
LEMMA WriteStep == ASSUME IdleTareInv, Write PROVE IdleTareInv'
  <1>1. /\ worker.pc = "write" /\ UNCHANGED <<air, window, approval, gen, notice, tare, shot>>
        /\ slot.phase = "WRITING" /\ slot.id = worker.id /\ window = <<>> /\ worker.gen = slot.gen
        /\ ~worker.ok
    BY DEF Write, IdleTareInv, Written, Single
  <1>2. CASE worker.gen = gen /\ ~Submitted
    BY <1>1, <1>2, DeferredStep DEF Write, Submitted
  <1>3. CASE ~(worker.gen = gen /\ ~Submitted)
    <2>1. /\ UNCHANGED <<slot, pending>>
          /\ \/ /\ worker.gen = gen /\ pan' = Zeroed(pan)
                /\ worker' = [worker EXCEPT !.pc = "finish", !.ok = TRUE]
             \/ /\ worker.gen = gen /\ pan' = ZeroedUnheard(pan)
                /\ worker' = [worker EXCEPT !.pc = "finish"]
             \/ pan' = pan /\ worker' = [worker EXCEPT !.pc = "finish"]
      BY <1>3 DEF Write
    <2>2. IdleTareTypeOK /\ Fitting(Now) /\ Now.slot = slot /\ Now.tare = tare /\ Now' = Now
      BY <1>1, <2>1, NowIs DEF IdleTareInv, Now
    <2>3. /\ pan.cup \in BOOLEAN /\ pan.moves \in Nat
          /\ OneCup => pan.moves = 1 /\ pan.cup /\ ~pan.item /\ ~pan.base
          /\ Quiet => ~pan.zeroed
      <3>1. OneCup => pan.moves # 0 /\ (pan.moves = 1 => pan.cup) /\ ~pan.item /\ ~pan.base
        BY <1>1 DEF IdleTareInv, Weighed
      <3>2. Quiet => ~pan.zeroed
        BY <1>1, OneZeroing
      <3> QED
        BY <2>2, <3>1, <3>2, PansAre DEF OneCup
    <2>4. /\ worker' \in [pc : {"idle", "admit", "write", "finish"}, id : Nat, gen : Nat, ok : BOOLEAN]
          /\ worker'.pc = "finish" /\ worker'.id = worker.id /\ worker'.gen = worker.gen
      BY <2>1, <2>2 DEF IdleTareTypeOK
    <2>5. /\ pan' \in Pans /\ pan'.moves = pan.moves /\ pan'.cup = pan.cup
          /\ pan'.item = pan.item /\ (pan'.base = pan.base \/ pan'.base = pan.item)
          /\ \/ pan' = pan /\ ~worker'.ok
             \/ worker.gen = gen /\ air.fresh /\ pan'.zeroed = pan.cup /\ pan'.apart = pan.apart /\ worker'.ok
             \/ pan'.zeroed = pan.cup /\ pan'.apart = pan.cup /\ ~worker'.ok
      <3>1. CASE pan' = pan /\ worker' = [worker EXCEPT !.pc = "finish"]
        BY <1>1, <2>2, <3>1 DEF IdleTareTypeOK
      <3>2. CASE /\ worker.gen = gen /\ pan' = Zeroed(pan)
                 /\ worker' = [worker EXCEPT !.pc = "finish", !.ok = TRUE]
        <4>1. air.fresh
          BY <1>3, <3>2 DEF Submitted
        <4>2. worker'.ok
          BY <2>2, <3>2 DEF IdleTareTypeOK
        <4> QED
          BY <2>2, <3>2, <4>1, <4>2, PansAre
      <3>3. CASE pan' = ZeroedUnheard(pan) /\ worker' = [worker EXCEPT !.pc = "finish"]
        <4>1. ~worker'.ok
          BY <1>1, <2>2, <3>3 DEF IdleTareTypeOK
        <4> QED
          BY <2>2, <3>3, <4>1, PansAre
      <3> QED
        BY <2>1, <3>1, <3>2, <3>3
    <2>6. IdleTareTypeOK'
      BY <1>1, <2>1, <2>2, <2>4, <2>5 DEF IdleTareTypeOK
    <2>7. tare.req # 0
      BY <1>1, <2>2 DEF Fitting, Owned
    <2>8. /\ OneCup' => OneCup
          /\ Quiet' => \/ pan' = pan /\ ~worker'.ok /\ Quiet
                       \/ worker.gen = gen /\ air.fresh /\ pan'.zeroed /\ worker'.ok /\ Quiet
      <3>1. OneCup' => OneCup
        BY <2>5 DEF OneCup
      <3> QED
        BY <2>3, <2>5, <3>1 DEF Quiet
    <2>9. Fitting(Now)'
      <3>1. Owned(Now)'
        BY <1>1, <2>2 DEF Fitting, Owned
      <3>2. OneCup' => Founded(Now)'
        <4>1. OneCup => Founded(Now) /\ (pan.zeroed => pan'.zeroed)
          BY <2>2, <2>3, <2>5 DEF Fitting
        <4> QED
          BY <1>1, <2>2, <2>5, <2>8, <4>1 DEF Founded
      <3>3. Quiet' => Believed(Now)'
        <4>1. Quiet => Believed(Now)
          BY <2>2 DEF Fitting
        <4> QED
          BY <1>1, <2>2, <2>3, <2>7, <2>8, <4>1 DEF Believed
      <3> QED
        BY <2>2, <3>1, <3>2, <3>3 DEF Fitting
    <2>10. Single' /\ Granted'
      BY <1>1, <2>1, <2>4 DEF IdleTareInv, Single, Granted
    <2>11. Written'
      BY <1>1, <2>1, <2>4 DEF IdleTareInv, Written
    <2>12. OneCup' => Weighed'
      <3>1. OneCup => (pan.zeroed => pan'.zeroed) /\ (worker'.ok => pan'.zeroed)
        BY <2>3, <2>5
      <3>2. OneCup => pan'.moves = 1 /\ pan'.cup /\ ~pan'.item /\ ~pan'.base
        BY <2>3, <2>5
      <3> QED
        BY <1>1, <2>8, <3>1, <3>2 DEF IdleTareInv, Weighed
    <2>13. Quiet' => Settled'
      <3>1. air.fresh => air.frame = "none"
        BY DEF IdleTareInv, Written
      <3>2. ASSUME NEW i \in 1..Len(window) PROVE FALSE
        BY <1>1
      <3> QED
        BY <1>1, <2>3, <2>4, <2>8, <3>1, <3>2 DEF Settled
    <2> QED
      BY <2>6, <2>9, <2>10, <2>11, <2>12, <2>13 DEF IdleTareInv
  <1> QED
    BY <1>2, <1>3

-----------------------------------------------------------------------------
(* The control task. *)

\* The control task begins no write.
NoClaim == slot'.phase = "WRITING" => slot.phase = "WRITING"

\* A step of the control task that asks for nothing: it may take a request back,
\* and a sample out of the window.
LEMMA ControlKeeps ==
    ASSUME IdleTareInv, NEW d, Fitting(d), Take(d), d.slot \in {slot, NoSlot},
           slot.phase = "WRITING" => d.slot = slot, d.tare.next >= tare.next,
           UNCHANGED <<pan, air, gen, pending, worker>>,
           notice' \in Notices, notice'.event = "done" => notice' = notice /\ (d.tare.present => tare.present),
           window' = window \/ (window # <<>> /\ window' = Tail(window)),
           approval' \in [approved : BOOLEAN, granted : BOOLEAN], approval'.approved => window' = <<>>,
           shot' \in [active : BOOLEAN, count : Nat], Granted'
    PROVE  IdleTareInv' /\ NoClaim
  <1>1. /\ slot' = d.slot /\ tare' = d.tare /\ d \in Pairs /\ d.slot \in TareSlots /\ d.tare \in Tares
        /\ d = [slot |-> d.slot, tare |-> d.tare]
    BY PairsAre DEF Take, Fitting
  <1>2. IdleTareTypeOK
    BY DEF IdleTareInv
  <1>3. /\ window \in Seq(Samples) /\ window' \in Seq(Samples)
        /\ \A i \in 1..Len(window') : \E j \in 1..Len(window) : window'[i] = window[j]
        /\ window = <<>> => window' = <<>>
    <2>1. window \in Seq(Samples)
      BY <1>2 DEF IdleTareTypeOK
    <2>2. CASE window' = window
      BY <2>1, <2>2
    <2>3. CASE window # <<>> /\ window' = Tail(window)
      <3>1. /\ window' \in Seq(Samples)
            /\ \A i \in 1..Len(window') : i + 1 \in 1..Len(window) /\ window'[i] = window[i + 1]
        BY <2>1, <2>3
      <3> QED
        BY <2>1, <2>3, <3>1
    <2> QED
      BY <2>2, <2>3
  <1>4. IdleTareTypeOK'
    BY <1>1, <1>2, <1>3 DEF IdleTareTypeOK
  <1>5. Fitting(Now)'
    <2>1. Now' = d /\ gen' = gen /\ pan' = pan
      BY <1>1 DEF Now
    <2> QED
      BY <2>1 DEF Fitting, Owned, Founded, Believed, OneCup, Quiet
  <1>6. Single'
    <2>1. /\ tare.next \in Nat /\ tare'.next \in Nat /\ tare'.next >= tare.next /\ pending \in Seq(Entries)
          /\ worker.id \in Nat /\ \A i \in 1..Len(pending) : pending[i].id \in Nat
      <3>1. /\ tare.next \in Nat /\ tare'.next \in Nat /\ tare'.next >= tare.next
            /\ pending \in Seq(Entries) /\ worker.id \in Nat
        BY <1>1, <1>2 DEF IdleTareTypeOK, Tares
      <3>2. ASSUME NEW i \in 1..Len(pending) PROVE pending[i].id \in Nat
        BY <1>2, Entry DEF Entries
      <3> QED
        BY <3>1, <3>2
    <2>2. slot' = slot \/ (slot'.id = 0 /\ slot'.phase = "NONE")
      BY <1>1, PairsAre
    <2>3. ASSUME NEW i \in 1..Len(pending)
          PROVE  /\ pending[i].id \in Nat /\ pending[i].id # 0 /\ pending[i].id < tare'.next
                 /\ worker.pc # "idle" => pending[i].id # worker.id
                 /\ slot'.phase = "SUCCEEDED" => pending[i].id # slot'.id
                 /\ pending[i].id = slot'.id => pending[i].gen = slot'.gen
                 /\ \A j \in 1..Len(pending) : i # j => pending[i].id # pending[j].id
      <3>1. /\ pending[i].id # 0 /\ pending[i].id < tare.next
            /\ worker.pc # "idle" => pending[i].id # worker.id
            /\ slot.phase = "SUCCEEDED" => pending[i].id # slot.id
            /\ pending[i].id = slot.id => pending[i].gen = slot.gen
            /\ \A j \in 1..Len(pending) : i # j => pending[i].id # pending[j].id
        BY DEF IdleTareInv, Single
      <3> QED
        BY <2>1, <2>2, <3>1
    <2>4. worker.pc # "idle" =>
            /\ worker.id # 0 /\ worker.id < tare'.next
            /\ slot'.phase = "SUCCEEDED" => worker.id # slot'.id
            /\ worker.id = slot'.id => worker.gen = slot'.gen
      <3>1. worker.pc # "idle" =>
              /\ worker.id # 0 /\ worker.id < tare.next
              /\ slot.phase = "SUCCEEDED" => worker.id # slot.id
              /\ worker.id = slot.id => worker.gen = slot.gen
        BY DEF IdleTareInv, Single
      <3> QED
        BY <2>1, <2>2, <3>1
    <2> QED
      BY <2>3, <2>4 DEF Single
  <1>7. Written'
    <2>1. slot' = slot \/ (slot'.phase = "NONE" /\ slot.phase # "WRITING")
      BY <1>1, PairsAre
    <2> QED
      BY <1>3, <2>1 DEF IdleTareInv, Written
  <1>8. (OneCup' => Weighed') /\ (Quiet' => Settled')
    <2>1. slot'.phase = "WRITING" => slot.phase = "WRITING"
      BY <1>1, PairsAre
    <2>2. notice'.event = "done" /\ tare'.present => notice.event = "done" /\ tare.present
      BY <1>1
    <2>3. (OneCup' => OneCup /\ Weighed) /\ (Quiet' => Quiet /\ Settled)
      BY DEF IdleTareInv, OneCup, Quiet
    <2>4. OneCup' => Weighed'
      BY <1>3, <2>2, <2>3 DEF Weighed
    <2>5. Quiet' => Settled'
      BY <1>3, <2>1, <2>3 DEF Settled
    <2> QED
      BY <2>4, <2>5
  <1>9. NoClaim
    BY <1>1, PairsAre DEF NoClaim
  <1> QED
    BY <1>4, <1>5, <1>6, <1>7, <1>8, <1>9 DEF IdleTareInv

\* Control serves the slot.
LEMMA ServiceStep ==
    ASSUME IdleTareInv, NEW old \in BOOLEAN, NEW late \in BOOLEAN, ServiceIdleTare(old, late)
    PROVE  IdleTareInv' /\ NoClaim
  <1> DEFINE d == Serviced(Now, shot.active, old, late)
  <1>1. IdleTareTypeOK /\ Fitting(Now) /\ Now.slot = slot /\ Now.tare = tare /\ shot.active \in BOOLEAN
    BY NowIs DEF IdleTareInv, IdleTareTypeOK
  <1>2. Take(d) /\ UNCHANGED <<pan, air, window, approval, gen, pending, worker, notice, shot>>
    BY DEF ServiceIdleTare
  <1>3. /\ Fitting(d) /\ ComesFrom(Now, d) /\ (d.slot.phase = "QUEUED" => d.tare.still)
        /\ d.tare.present = tare.present
    <2>1. Passed(Now, d)
      BY <1>1, ServicedPasses
    <2> HIDE DEF d
    <2> QED
      BY <1>1, <2>1 DEF Passed
  <1> HIDE DEF d
  <1>4. /\ d.slot \in {slot, NoSlot} /\ (slot.phase = "WRITING" => d.slot = slot)
        /\ d.tare.next >= tare.next
    BY <1>1, <1>3 DEF ComesFrom, IdleTareTypeOK, Tares
  <1>5. Granted'
    BY <1>2, <1>3, <1>4, PairsAre DEF Take, IdleTareInv, Granted
  <1>6. /\ approval' \in [approved : BOOLEAN, granted : BOOLEAN] /\ (approval'.approved => window' = <<>>)
        /\ shot' \in [active : BOOLEAN, count : Nat] /\ notice' \in Notices
    BY <1>1, <1>2 DEF IdleTareTypeOK, IdleTareInv, Written
  <1> QED
    BY <1>2, <1>3, <1>4, <1>5, <1>6, ControlKeeps

\* A start leaves no request in the queue.
LEMMA StartKeeps ==
    ASSUME IdleTareInv, NEW d, Fitting(d), ComesFrom(Now, d), d.slot.phase # "QUEUED", Take(d),
           d.tare.present = tare.present,
           UNCHANGED <<pan, air, window, approval, gen, pending, worker, notice>>,
           shot' \in [active : BOOLEAN, count : Nat]
    PROVE  IdleTareInv' /\ NoClaim
  <1>1. IdleTareTypeOK /\ Now.slot = slot /\ Now.tare = tare
    BY NowIs DEF IdleTareInv
  <1>2. /\ d.slot \in {slot, NoSlot} /\ (slot.phase = "WRITING" => d.slot = slot)
        /\ d.tare.next >= tare.next
    BY <1>1 DEF ComesFrom, IdleTareTypeOK, Tares
  <1>3. Granted'
    BY DEF Take, Granted
  <1>4. /\ approval' \in [approved : BOOLEAN, granted : BOOLEAN] /\ (approval'.approved => window' = <<>>)
        /\ notice' \in Notices
    BY <1>1 DEF IdleTareTypeOK, IdleTareInv, Written
  <1> QED
    BY <1>2, <1>3, <1>4, ControlKeeps

\* Without a request there is no slot.
LEMMA NoRequestNoSlot ==
    ASSUME NEW c, Fitting(c), c.tare.req = 0 PROVE c.slot.phase = "NONE"
  BY DEF Fitting, Owned

\* A shot that begins at the paddle leaves no claim.
LEMMA PaddleStep == ASSUME IdleTareInv, PaddleStart PROVE IdleTareInv' /\ NoClaim
  <1> DEFINE b == [Now EXCEPT !.tare.deferred = @ \/ tare.req # 0]
             c == Serviced(b, FALSE, FALSE, FALSE)
             d == IF c.tare.req # 0 THEN Release(c, FALSE) ELSE c
             e == Serviced(d, TRUE, FALSE, FALSE)
  <1>1. /\ Take(e) /\ shot' = [active |-> TRUE, count |-> shot.count + 1]
        /\ UNCHANGED <<pan, air, window, approval, gen, pending, worker, notice>>
    BY DEF PaddleStart
  <1>2. IdleTareTypeOK /\ Fitting(Now) /\ Now.slot = slot /\ Now.tare = tare /\ Now \in Pairs
    BY NowIs DEF IdleTareInv
  <1>3. Fitting(b) /\ ComesFrom(Now, b) /\ b.tare.present = tare.present
    <2> DEFINE t == [tare EXCEPT !.deferred = @ \/ tare.req # 0]
    <2>1. /\ t \in Tares /\ t.req = tare.req /\ t.next = tare.next /\ t.seen = tare.seen
          /\ t.present = tare.present /\ t.gen = tare.gen /\ t.still = tare.still
          /\ t.unchanged = tare.unchanged /\ t.reference = tare.reference
          /\ t.accessory = tare.accessory /\ t.plateau = tare.plateau
      BY <1>2 DEF IdleTareTypeOK, Tares
    <2>2. b = [slot |-> slot, tare |-> t]
      BY DEF Now
    <2> HIDE DEF t, b
    <2>3. b \in Pairs /\ b.slot = slot /\ b.tare = t
      BY <1>2, <2>1, <2>2, PairsAre DEF IdleTareTypeOK
    <2> QED
      BY <1>2, <2>1, <2>3 DEF Fitting, Owned, Founded, Believed, ComesFrom
  <1> HIDE DEF b
  <1>4. Fitting(c) /\ ComesFrom(b, c) /\ c.tare.present = tare.present
    BY <1>2, <1>3, ServicedFits
  <1> HIDE DEF c
  <1>5. Fitting(d) /\ ComesFrom(c, d) /\ d.slot.phase # "QUEUED" /\ d.tare.present = tare.present
    <2>1. CASE c.tare.req # 0
      BY <1>2, <1>4, <2>1, ReleaseFits
    <2>2. CASE c.tare.req = 0
      BY <1>4, <2>2, NoRequestNoSlot DEF ComesFrom
    <2> QED
      BY <2>1, <2>2
  <1> HIDE DEF d
  <1>6. Fitting(e) /\ ComesFrom(d, e) /\ e.tare.present = tare.present
    BY <1>2, <1>5, ServicedFits
  <1> HIDE DEF e
  <1>7. ComesFrom(Now, e) /\ e.slot.phase # "QUEUED"
    BY <1>3, <1>4, <1>5, <1>6, PairsAre DEF ComesFrom
  <1>8. shot' \in [active : BOOLEAN, count : Nat]
    BY <1>1, <1>2 DEF IdleTareTypeOK
  <1> QED
    BY <1>1, <1>6, <1>7, <1>8, StartKeeps

\* A shot that begins on a page leaves none, or does not begin.
LEMMA WebStep == ASSUME IdleTareInv, WebStart PROVE IdleTareInv' /\ NoClaim
  <1> DEFINE c == Serviced(Now, FALSE, FALSE, FALSE)
             d == Serviced(c, TRUE, FALSE, FALSE)
             e == Withdrawn(c)
  <1>1. /\ UNCHANGED <<pan, air, window, approval, gen, pending, worker, notice>>
        /\ \/ c.tare.req = 0 /\ Take(d) /\ shot' = [active |-> TRUE, count |-> shot.count + 1]
           \/ c.tare.req # 0 /\ Take(e) /\ shot' = shot
    BY DEF WebStart
  <1>2. IdleTareTypeOK /\ Fitting(Now) /\ Now.slot = slot /\ Now.tare = tare /\ Now \in Pairs
    BY NowIs DEF IdleTareInv
  <1>3. Fitting(c) /\ ComesFrom(Now, c) /\ c.tare.present = tare.present
    BY <1>2, ServicedFits
  <1>4. shot' \in [active : BOOLEAN, count : Nat]
    <2>1. shot \in [active : BOOLEAN, count : Nat] /\ shot.count + 1 \in Nat
      BY <1>2 DEF IdleTareTypeOK
    <2>2. [active |-> TRUE, count |-> shot.count + 1] \in [active : BOOLEAN, count : Nat]
      BY <2>1
    <2> QED
      BY <1>1, <2>1, <2>2
  <1> HIDE DEF c
  <1>5. Fitting(d) /\ ComesFrom(c, d) /\ d.tare.present = tare.present
    BY <1>2, <1>3, ServicedFits
  <1>6. Fitting(e) /\ ComesFrom(c, e) /\ e.slot.phase # "QUEUED" /\ e.tare.present = tare.present
    BY <1>2, <1>3, WithdrawnFits
  <1> HIDE DEF d, e
  <1>7. CASE c.tare.req = 0
    <2>1. ComesFrom(Now, d) /\ d.slot.phase # "QUEUED"
      BY <1>3, <1>5, <1>7, NoRequestNoSlot, PairsAre DEF ComesFrom
    <2> QED
      BY <1>1, <1>4, <1>5, <1>7, <2>1, StartKeeps
  <1>8. CASE c.tare.req # 0
    <2>1. ComesFrom(Now, e)
      BY <1>3, <1>6, <1>8, PairsAre DEF ComesFrom
    <2> QED
      BY <1>1, <1>4, <1>6, <1>8, <2>1, StartKeeps
  <1> QED
    BY <1>7, <1>8

\* A shot ends.
LEMMA EndStep == ASSUME IdleTareInv, EndShot PROVE IdleTareInv' /\ NoClaim
  <1>1. /\ shot' = [shot EXCEPT !.active = FALSE]
        /\ UNCHANGED <<pan, air, window, approval, gen, slot, pending, worker, notice, tare>>
    BY DEF EndShot
  <1>2. IdleTareTypeOK
    BY DEF IdleTareInv
  <1>3. shot' \in [active : BOOLEAN, count : Nat] /\ ~shot'.active
    BY <1>1, <1>2 DEF IdleTareTypeOK
  <1>4. IdleTareTypeOK'
    BY <1>1, <1>2, <1>3 DEF IdleTareTypeOK
  <1>5. Single' /\ Written' /\ Granted'
    BY <1>1, <1>3 DEF IdleTareInv, Single, Written, Granted
  <1>6. (OneCup' => Weighed') /\ (Quiet' => Settled')
    BY <1>1 DEF IdleTareInv, OneCup, Quiet, Weighed, Settled
  <1> QED
    BY <1>1, <1>4, <1>5, <1>6, SamePair DEF IdleTareInv, NoClaim

\* Control forgets the cup of another scale.
LEMMA ForgetStep == ASSUME IdleTareInv, ForgetCup PROVE IdleTareInv' /\ NoClaim
  <1> DEFINE t == [tare EXCEPT !.seen = gen, !.present = FALSE, !.reference = "untared"]
             d == [slot |-> slot, tare |-> t]
  <1>1. tare' = t /\ UNCHANGED <<pan, air, window, approval, gen, slot, pending, worker, notice, shot>>
    BY DEF ForgetCup
  <1>2. IdleTareTypeOK /\ Fitting(Now) /\ Now.slot = slot /\ Now.tare = tare /\ slot \in TareSlots /\ tare \in Tares
        /\ gen \in Nat
    BY NowIs DEF IdleTareInv, IdleTareTypeOK
  <1>3. /\ t \in Tares /\ t.req = tare.req /\ t.next = tare.next /\ t.seen = gen
        /\ ~t.present /\ t.gen = tare.gen /\ t.still = tare.still
        /\ t.unchanged = tare.unchanged /\ t.reference = "untared"
        /\ t.accessory = tare.accessory /\ t.plateau = tare.plateau
    BY <1>2 DEF Tares
  <1> HIDE DEF t
  <1>4. d \in Pairs /\ d.slot = slot /\ d.tare = t
    BY <1>2, <1>3, PairsAre
  <1> HIDE DEF d
  <1>5. Fitting(d)
    BY <1>2, <1>3, <1>4 DEF Fitting, Owned, Founded, Believed
  <1>6. Granted' /\ Take(d) /\ d.tare.next >= tare.next
    <2>1. t.next >= tare.next
      BY <1>2, <1>3 DEF Tares
    <2> QED
      BY <1>1, <1>3, <1>4, <2>1 DEF IdleTareInv, Granted, Take
  <1>7. /\ approval' \in [approved : BOOLEAN, granted : BOOLEAN] /\ (approval'.approved => window' = <<>>)
        /\ shot' \in [active : BOOLEAN, count : Nat] /\ notice' \in Notices
    BY <1>1, <1>2 DEF IdleTareTypeOK, IdleTareInv, Written
  <1> QED
    BY <1>1, <1>3, <1>4, <1>5, <1>6, <1>7, ControlKeeps

\* After the last sample the window is empty.
LEMMA LastSample == \A ws \in Seq(Samples) : Len(ws) = 1 => Tail(ws) = <<>>
  <1> SUFFICES ASSUME NEW ws \in Seq(Samples), Len(ws) = 1 PROVE Tail(ws) = <<>>
    OBVIOUS
  <1>1. Tail(ws) \in Seq(Samples) /\ Len(Tail(ws)) = 0
    OBVIOUS
  <1> QED
    BY <1>1, EmptySeq

\* What the sample shows, before its effect on the cup: nothing is being written while
\* there are samples to read, and a sample weighs the cup only before the zeroing.
LEMMA SampleIs ==
    ASSUME IdleTareInv, window # <<>>
    PROVE  /\ Head(window) \in Samples /\ Head(window) = window[1] /\ slot.phase # "WRITING"
           /\ Quiet /\ pan.zeroed => Head(window).reading = "zero"
           /\ OneCup => Head(window).reading \in {"zero", "cup"}
           /\ Head(window).reading = "cup" => (OneCup => pan.moves # 0) /\ (Quiet => ~pan.zeroed)
  <1>1. window \in Seq(Samples) /\ Len(window) \in Nat
    BY DEF IdleTareInv, IdleTareTypeOK
  <1>2. Head(window) \in Samples /\ Head(window) = window[1] /\ 1 \in 1..Len(window)
    BY <1>1
  <1>3. slot.phase # "WRITING"
    BY DEF IdleTareInv, Written
  <1>4. /\ OneCup /\ pan.moves = 0 => Head(window).reading = "zero"
        /\ OneCup => Head(window).reading \in {"zero", "cup"}
        /\ Quiet /\ pan.zeroed => Head(window).reading = "zero"
    BY <1>2 DEF IdleTareInv, Weighed, Settled
  <1> QED
    BY <1>2, <1>3, <1>4

\* What a sample shows of the cup leaves a pair that fits.
LEMMA EvidenceFits ==
    ASSUME IdleTareInv, window # <<>>
    PROVE  LET c == Evidence(Head(window)) IN
           /\ Fitting(c) /\ ComesFrom(Now, c)
           /\ ~shot.active => c.tare.gen = gen /\ (c.slot.phase = "QUEUED" => c.tare.still)
  <1> DEFINE s == Head(window)
             a == Broken(Now, s)
             b == Serviced(a, FALSE, FALSE, FALSE)
             o == Observed(b, s)
             c == Evidence(s)
  <1>1. IdleTareTypeOK /\ Fitting(Now) /\ Now.slot = slot /\ Now.tare = tare
    BY NowIs DEF IdleTareInv
  <1>2. s \in Samples /\ slot.phase # "WRITING" /\ (Quiet /\ pan.zeroed => s.reading = "zero")
    BY SampleIs
  <1>3. c = IF shot.active THEN a ELSE o
    BY DEF Evidence
  <1> HIDE DEF s, c
  <1>4. Fitting(a) /\ ComesFrom(Now, a)
    BY <1>1, BrokenFits
  <1> HIDE DEF a
  <1>5. /\ Fitting(b) /\ ComesFrom(a, b) /\ b.tare.gen = gen
        /\ b.slot.phase = "QUEUED" => b.tare.still
    BY <1>1, <1>4, ServicedFits
  <1> HIDE DEF b
  <1>6. b.slot.phase # "WRITING"
    BY <1>1, <1>2, <1>4, <1>5, PairsAre DEF ComesFrom
  <1>7. /\ Fitting(o) /\ ComesFrom(b, o) /\ o.tare.gen = gen
        /\ o.slot.phase = "QUEUED" => o.tare.still
    BY <1>1, <1>2, <1>5, <1>6, ObservedFits
  <1> HIDE DEF o
  <1>8. ComesFrom(Now, o)
    BY <1>4, <1>5, <1>7, PairsAre DEF ComesFrom
  <1>9. /\ Fitting(c) /\ ComesFrom(Now, c)
        /\ ~shot.active => c.tare.gen = gen /\ (c.slot.phase = "QUEUED" => c.tare.still)
    <2>1. CASE shot.active
      BY <1>3, <1>4, <2>1
    <2>2. CASE ~shot.active
      BY <1>3, <1>7, <1>8, <2>2
    <2> QED
      BY <2>1, <2>2
  <1> QED
    BY <1>9 DEF c, s

\* The request of a cup that is seen to come.
LEMMA RequestStep ==
    ASSUME IdleTareInv, window # <<>>, NEW d, Fitting(d), Take(d), NEW id \in Nat \ {0}, id >= tare.next,
           d.slot = [id |-> id, phase |-> "QUEUED", gen |-> gen], d.tare.next = id + 1,
           d.tare.still, ~shot.active, slot.phase # "WRITING", OneCup => pan.moves # 0, Quiet => ~pan.zeroed,
           pending' = Append(pending, [id |-> id, gen |-> gen]), window' = Tail(window),
           approval' \in [approved : BOOLEAN, granted : BOOLEAN], approval'.approved => window' = <<>>,
           notice.event # "done", UNCHANGED <<pan, air, gen, worker, notice, shot>>
    PROVE  IdleTareInv' /\ NoClaim
  <1> DEFINE e == [id |-> id, gen |-> gen]
  <1>1. /\ slot' = d.slot /\ tare' = d.tare /\ d \in Pairs /\ d.slot \in TareSlots /\ d.tare \in Tares
        /\ d = [slot |-> d.slot, tare |-> d.tare]
    BY PairsAre DEF Take, Fitting
  <1>2. IdleTareTypeOK /\ e \in Entries
    BY DEF IdleTareInv, IdleTareTypeOK, Entries
  <1>3. slot'.id = id /\ slot'.phase = "QUEUED" /\ slot'.gen = gen /\ e.id = id /\ e.gen = gen
    BY <1>1
  <1> HIDE DEF e
  <1>4. /\ window' \in Seq(Samples)
        /\ \A i \in 1..Len(window') : \E j \in 1..Len(window) : window'[i] = window[j]
    <2>1. /\ window \in Seq(Samples) /\ window' \in Seq(Samples)
          /\ \A i \in 1..Len(window') : i + 1 \in 1..Len(window) /\ window'[i] = window[i + 1]
      BY <1>2 DEF IdleTareTypeOK
    <2> QED
      BY <2>1
  <1>5. /\ pending \in Seq(Entries) /\ pending' \in Seq(Entries) /\ pending' # <<>>
        /\ Len(pending') = Len(pending) + 1 /\ pending'[Len(pending) + 1] = e
        /\ \A i \in 1..Len(pending) : pending'[i] = pending[i]
        /\ \A i \in 1..Len(pending') : i = Len(pending) + 1 \/ i \in 1..Len(pending)
    <2>1. pending' = Append(pending, e) /\ pending \in Seq(Entries)
      BY <1>2 DEF IdleTareTypeOK, e
    <2> QED
      BY <1>2, <2>1
  <1>6. IdleTareTypeOK'
    BY <1>1, <1>2, <1>4, <1>5 DEF IdleTareTypeOK
  <1>7. Fitting(Now)'
    <2>1. Now' = d /\ gen' = gen /\ pan' = pan
      BY <1>1 DEF Now
    <2> QED
      BY <2>1 DEF Fitting, Owned, Founded, Believed, OneCup, Quiet
  <1>8. Single'
    <2>1. tare.next \in Nat /\ tare'.next = id + 1 /\ id >= tare.next /\ worker.id \in Nat
      BY <1>1, <1>2 DEF IdleTareTypeOK, Tares
    <2>2. ASSUME NEW i \in 1..Len(pending)
          PROVE  /\ pending[i].id \in Nat /\ pending[i].id # 0 /\ pending[i].id < tare.next
                 /\ pending[i].id # id /\ pending[i].id < tare'.next
                 /\ worker.pc # "idle" => pending[i].id # worker.id
                 /\ \A j \in 1..Len(pending) : i # j => pending[i].id # pending[j].id
      <3>1. pending[i].id \in Nat
        BY <1>2, Entry DEF Entries
      <3>2. /\ pending[i].id # 0 /\ pending[i].id < tare.next
            /\ worker.pc # "idle" => pending[i].id # worker.id
            /\ \A j \in 1..Len(pending) : i # j => pending[i].id # pending[j].id
        BY DEF IdleTareInv, Single
      <3> QED
        BY <2>1, <3>1, <3>2
    <2>3. worker.pc # "idle" => worker.id # 0 /\ worker.id < tare.next /\ worker.id # id
                                /\ worker.id < tare'.next
      <3>1. worker.pc # "idle" => worker.id # 0 /\ worker.id < tare.next
        BY DEF IdleTareInv, Single
      <3> QED
        BY <2>1, <3>1
    <2>4. ASSUME NEW i \in 1..Len(pending')
          PROVE  /\ pending'[i].id # 0 /\ pending'[i].id < tare'.next
                 /\ worker.pc # "idle" => pending'[i].id # worker.id
                 /\ pending'[i].id = id => pending'[i].gen = gen
                 /\ \A j \in 1..Len(pending') : i # j => pending'[i].id # pending'[j].id
      <3>1. CASE i = Len(pending) + 1
        <4>1. \A j \in 1..Len(pending') : i # j => j \in 1..Len(pending)
          BY <1>5, <3>1
        <4> QED
          BY <1>3, <1>5, <2>1, <2>2, <2>3, <3>1, <4>1
      <3>2. CASE i \in 1..Len(pending)
        BY <1>3, <1>5, <2>2, <3>2
      <3> QED
        BY <1>5, <3>1, <3>2
    <2> QED
      BY <1>3, <2>3, <2>4 DEF Single
  <1>9. Written' /\ Granted'
    BY <1>1, <1>3 DEF IdleTareInv, Written, Granted
  <1>10. (OneCup' => Weighed') /\ (Quiet' => Settled')
    <2>1. (OneCup' => OneCup /\ Weighed) /\ (Quiet' => Quiet /\ Settled)
      BY DEF IdleTareInv, OneCup, Quiet
    <2>2. OneCup' => Weighed'
      BY <1>4, <2>1 DEF Weighed
    <2>3. Quiet' => Settled'
      BY <1>3, <1>4, <2>1 DEF Settled
    <2> QED
      BY <2>2, <2>3
  <1> QED
    BY <1>3, <1>6, <1>7, <1>8, <1>9, <1>10 DEF IdleTareInv, NoClaim

\* Control takes the request that a sample asks for, or finds no room for it.
LEMMA AskStep ==
    ASSUME IdleTareInv, window # <<>>, notice.event = "none", ~shot.active, slot.phase # "WRITING",
           NEW e, Fitting(e), ComesFrom(Now, e), e.tare.gen = gen, e.tare.req = 0, NEW accessory \in BOOLEAN,
           NEW s \in Samples, OneCup => pan.moves # 0 /\ ~accessory /\ s.reading = "cup", Quiet => ~pan.zeroed,
           NEW d, d = Enqueued(e, s, accessory), Take(d), window' = Tail(window),
           pending' = IF d.tare.req # 0 THEN Append(pending, [id |-> d.tare.req, gen |-> gen]) ELSE pending,
           approval' \in [approved : BOOLEAN, granted : BOOLEAN], approval'.approved => window' = <<>>,
           UNCHANGED <<pan, air, gen, worker, notice, shot>>
    PROVE  IdleTareInv' /\ NoClaim
  <1>1. IdleTareTypeOK /\ Now.slot = slot /\ Now.tare = tare /\ Fitting(Now)
    BY NowIs DEF IdleTareInv
  <1>2. /\ Fitting(d) /\ d.tare.next = e.tare.next + 1
        /\ \/ d.slot = e.slot /\ d.tare.req = 0 /\ d.tare.still = e.tare.still
           \/ /\ d.slot = [id |-> e.tare.next, phase |-> "QUEUED", gen |-> gen]
              /\ d.tare.req = e.tare.next /\ d.tare.still
    BY <1>1, EnqueuedFits
  <1>3. e.tare.next = tare.next /\ tare.next \in Nat \ {0}
    BY <1>1 DEF ComesFrom, IdleTareTypeOK, Tares
  <1>4. notice' \in Notices /\ shot' \in [active : BOOLEAN, count : Nat]
    BY <1>1 DEF IdleTareTypeOK
  <1>5. CASE d.tare.req = 0
    <2>1. d.slot = e.slot /\ pending' = pending
      BY <1>2, <1>3, <1>5
    <2>2. d.slot \in {slot, NoSlot} /\ d.tare.next >= tare.next
      BY <1>1, <1>2, <1>3, <2>1 DEF ComesFrom
    <2>3. d.slot.phase # "QUEUED"
      BY <1>2, <1>5, NoRequestNoSlot
    <2>4. Granted'
      BY <2>3 DEF Granted, Take
    <2> QED
      BY <1>2, <1>4, <2>1, <2>2, <2>4, ControlKeeps
  <1>6. CASE d.tare.req # 0
    <2>1. /\ d.slot = [id |-> tare.next, phase |-> "QUEUED", gen |-> gen]
          /\ d.tare.req = tare.next /\ d.tare.still /\ d.tare.next = tare.next + 1
      BY <1>2, <1>3, <1>6
    <2>2. pending' = Append(pending, [id |-> tare.next, gen |-> gen]) /\ tare.next >= tare.next
      BY <1>3, <1>6, <2>1
    <2> QED
      BY <1>2, <1>3, <2>1, <2>2, RequestStep
  <1> QED
    BY <1>5, <1>6

\* Control reads a sample.
LEMMA SampleStep ==
    ASSUME IdleTareInv, NEW verdict \in Verdicts, ReadSample(verdict)
    PROVE  IdleTareInv' /\ NoClaim
  <1> DEFINE s == Head(window)
             newest == Len(window) = 1
             c == Evidence(s)
             done == Decided(c, s, verdict)
             asked == done.tare.req # 0 /\ done.tare.req # c.tare.req
             granted == newest /\ (Grants(c) \/ asked)
  <1>1. /\ window # <<>> /\ notice.event = "none" /\ Take(done) /\ window' = Tail(window)
        /\ Shown(verdict, c.tare, s)
        /\ pending' = IF asked THEN Append(pending, [id |-> done.tare.req, gen |-> gen]) ELSE pending
        /\ approval' = [approved |-> newest, granted |-> granted]
        /\ UNCHANGED <<pan, air, gen, worker, notice, shot>>
    BY DEF ReadSample, ReadsSample
  <1>2. IdleTareTypeOK /\ Now.slot = slot /\ Now.tare = tare
    BY NowIs DEF IdleTareInv
  <1>3. /\ Fitting(c) /\ ComesFrom(Now, c)
        /\ ~shot.active => c.tare.gen = gen /\ (c.slot.phase = "QUEUED" => c.tare.still)
    BY <1>1, EvidenceFits
  <1>4. /\ s \in Samples /\ slot.phase # "WRITING"
        /\ OneCup => s.reading \in {"zero", "cup"}
        /\ s.reading = "cup" => (OneCup => pan.moves # 0) /\ (Quiet => ~pan.zeroed)
    BY <1>1, SampleIs
  <1>5. Decided(c, s, verdict) =
          CASE verdict = "removed" -> IF shot.active THEN Lifted(c) ELSE Removed(c)
            [] verdict = "placed" -> IF Requests(c) THEN Enqueued(Placed(c), s, FALSE) ELSE Placed(c)
            [] verdict = "retare" -> Enqueued(c, s, TRUE)
            [] verdict = "empty" -> [c EXCEPT !.tare.absent = TRUE]
            [] OTHER -> c
    BY DEF Decided
  <1>6. newest => Tail(window) = <<>>
    BY <1>1, <1>2, LastSample DEF IdleTareTypeOK
  <1>7. newest \in BOOLEAN /\ granted \in BOOLEAN /\ (Grants(c) => ~shot.active)
    BY DEF Grants
  <1>8. shot' \in [active : BOOLEAN, count : Nat] /\ shot' = shot /\ notice' \in Notices
    BY <1>1, <1>2 DEF IdleTareTypeOK
  <1>9. c \in Pairs /\ c.slot \in TareSlots /\ c.tare \in Tares /\ c.slot.phase # "WRITING"
    BY <1>2, <1>3, <1>4, PairsAre DEF Fitting, ComesFrom
  <1>10. Shown(verdict, c.tare, s) =
      CASE verdict = "placed" -> ~c.tare.present /\ s.reading \in {"cup", "over"}
        [] verdict = "removed" ->
             /\ c.tare.present
             /\ s.reading \in {"negative", "under"} \/ (s.reading = "zero" /\ c.tare.reference = "untared")
        [] verdict = "empty" -> ~shot.active /\ ~c.tare.present /\ c.tare.eligible /\ s.reading = "zero"
        [] verdict = "retare" -> /\ ~shot.active /\ c.tare.present /\ c.tare.reference = "tared" /\ c.tare.tracked
                                 /\ c.tare.eligible /\ c.tare.req = 0 /\ c.tare.next <= MaxRequests
                                 /\ s.reading \in {"over", "under"}
        [] OTHER -> TRUE
    BY DEF Shown
  <1> HIDE DEF s, c, newest, granted
  <1>11. ASSUME NEW d, d = done, Fitting(d), ComesFrom(c, d), d.tare.req \in {0, c.tare.req},
                ~shot.active /\ d.slot.phase = "QUEUED" => d.tare.still
         PROVE  IdleTareInv' /\ NoClaim
    <2>1. ~asked
      BY <1>11
    <2> HIDE DEF done, asked
    <2>2. ComesFrom(Now, d)
      BY <1>3, <1>11, PairsAre DEF ComesFrom
    <2>3. d.slot \in {slot, NoSlot} /\ d.tare.next >= tare.next
      BY <1>2, <2>2 DEF ComesFrom, IdleTareTypeOK, Tares
    <2>4. granted => ~shot.active
      BY <1>7, <2>1 DEF granted
    <2>5. approval'.granted = granted /\ approval'.approved = newest
          /\ approval' \in [approved : BOOLEAN, granted : BOOLEAN]
      BY <1>1, <1>7
    <2>6. Granted'
      BY <1>1, <1>8, <1>11, <2>4, <2>5 DEF Granted, Take
    <2>7. pending' = pending /\ Take(d) /\ (approval'.approved => window' = <<>>)
      BY <1>1, <1>6, <1>11, <2>1, <2>5
    <2>8. notice'.event = "done" => notice' = notice /\ (d.tare.present => tare.present)
      BY <1>1
    <2>9. /\ UNCHANGED <<pan, air, gen, pending, worker>> /\ slot.phase # "WRITING"
          /\ window' = window \/ (window # <<>> /\ window' = Tail(window))
          /\ Fitting(d) /\ Take(d) /\ (approval'.approved => window' = <<>>)
      BY <1>1, <1>4, <1>11, <2>7
    <2> QED
      BY <1>8, <2>3, <2>5, <2>6, <2>8, <2>9, ControlKeeps
  <1>12. CASE verdict = "removed"
    <2>1. done = IF shot.active THEN Lifted(c) ELSE Removed(c)
      BY <1>5, <1>12
    <2> HIDE DEF done
    <2>2. CASE shot.active
      <3> DEFINE t == [c.tare EXCEPT !.present = FALSE, !.reference = "untared"]
      <3>1. Fitting(Lifted(c)) /\ ComesFrom(c, Lifted(c)) /\ Lifted(c).tare.req = c.tare.req
        <4>1. Lifted(c) = [c EXCEPT !.tare = t]
          BY <1>3, LiftedIs
        <4>2. LET e == [c EXCEPT !.tare = t] IN Fitting(e) /\ ComesFrom(c, e) /\ e.tare.req = c.tare.req
          BY <1>3, LiftedFits
        <4> HIDE DEF t
        <4> QED
          BY <4>1, <4>2
      <3> QED
        BY <1>11, <2>1, <2>2, <3>1
    <2>3. CASE ~shot.active
      <3>1. Fitting(Removed(c)) /\ ComesFrom(c, Removed(c)) /\ Removed(c).slot.phase # "QUEUED"
            /\ Removed(c).tare.req \in {0, c.tare.req}
        BY <1>2, <1>3, RemovedFits
      <3> QED
        BY <1>11, <2>1, <2>3, <3>1
    <2> QED
      BY <2>2, <2>3
  <1>13. CASE verdict = "empty"
    <2>1. done = [c EXCEPT !.tare.absent = TRUE]
      BY <1>5, <1>13
    <2> DEFINE d == [c EXCEPT !.tare.absent = TRUE]
    <2>2. /\ Fitting(d) /\ ComesFrom(c, d) /\ d.slot = c.slot
          /\ d.tare.still = c.tare.still /\ d.tare.req = c.tare.req
      BY <1>3, AbsentFits
    <2> HIDE DEF done, d
    <2>3. d = done
      BY <2>1 DEF d
    <2> QED
      BY <1>3, <1>11, <2>2, <2>3
  <1>14. CASE verdict = "none"
    <2>1. done = c
      BY <1>5, <1>14
    <2> HIDE DEF done
    <2> QED
      BY <1>3, <1>11, <2>1 DEF ComesFrom
  <1>15. ASSUME NEW e, NEW accessory \in BOOLEAN, done = Enqueued(e, s, accessory), Fitting(e), ComesFrom(c, e),
                e.tare.gen = gen, e.tare.req = 0, c.tare.req = 0, ~shot.active,
                OneCup => pan.moves # 0 /\ ~accessory /\ s.reading = "cup", Quiet => ~pan.zeroed
         PROVE  IdleTareInv' /\ NoClaim
    <2>1. ComesFrom(Now, e)
      BY <1>3, <1>15, PairsAre DEF ComesFrom
    <2>2. asked <=> done.tare.req # 0
      BY <1>15
    <2>3. pending' = IF done.tare.req # 0 THEN Append(pending, [id |-> done.tare.req, gen |-> gen]) ELSE pending
      BY <1>1, <2>2
    <2>4. /\ approval' \in [approved : BOOLEAN, granted : BOOLEAN]
          /\ approval'.approved => window' = <<>>
      BY <1>1, <1>6, <1>7
    <2> HIDE DEF done, asked
    <2> QED
      BY <1>1, <1>4, <1>15, <2>1, <2>3, <2>4, AskStep
  <1>16. CASE verdict = "placed"
    <2>1. /\ done = IF Requests(c) THEN Enqueued(Placed(c), s, FALSE) ELSE Placed(c)
          /\ s.reading \in {"cup", "over"}
      BY <1>1, <1>5, <1>10, <1>16
    <2>2. (OneCup => pan.moves # 0 /\ s.reading = "cup") /\ (Quiet => ~pan.zeroed)
      BY <1>4, <2>1 DEF Quiet
    <2> DEFINE e == Placed(c)
    <2>3. /\ Fitting(e) /\ ComesFrom(c, e) /\ e.slot = c.slot
          /\ e.tare.gen = c.tare.gen /\ e.tare.still = c.tare.still /\ e.tare.req = c.tare.req
      BY <1>2, <1>3, <1>9, <2>2, PlacedFits
    <2> HIDE DEF done, asked
    <2>4. CASE Requests(c)
      <3>1. ~shot.active /\ c.tare.req = 0
        BY <2>4 DEF Requests
      <3>2. done = Enqueued(e, s, FALSE)
        BY <2>1, <2>4
      <3> HIDE DEF e
      <3> QED
        BY <1>3, <1>15, <2>2, <2>3, <3>1, <3>2
    <2>5. CASE ~Requests(c)
      <3>1. e = done
        BY <2>1, <2>5
      <3> HIDE DEF e
      <3> QED
        BY <1>3, <1>11, <2>3, <3>1
    <2> QED
      BY <2>4, <2>5
  <1>17. CASE verdict = "retare"
    <2>1. /\ done = Enqueued(c, s, TRUE) /\ ~shot.active /\ c.tare.req = 0
          /\ s.reading \in {"over", "under"}
      BY <1>1, <1>5, <1>10, <1>17
    <2>2. ~OneCup /\ ~Quiet
      BY <1>4, <2>1 DEF Quiet
    <2>3. ComesFrom(c, c)
      BY DEF ComesFrom
    <2> HIDE DEF done, asked
    <2> QED
      BY <1>3, <1>15, <2>1, <2>2, <2>3
  <1> QED
    BY <1>12, <1>13, <1>14, <1>16, <1>17 DEF Verdicts

\* Control rejects a sample.
LEMMA RejectStep == ASSUME IdleTareInv, RejectSample PROVE IdleTareInv' /\ NoClaim
  <1> DEFINE c == Broken(Now, Head(window))
             b == Serviced(c, FALSE, FALSE, FALSE)
             v == Voided(b)
             wd == Withdrawn(v)
             d == IF shot.active THEN c ELSE wd
  <1>1. /\ window # <<>> /\ notice.event = "none" /\ window' = Tail(window) /\ Take(d)
        /\ approval' = [approval EXCEPT !.approved = FALSE]
        /\ UNCHANGED <<pan, air, gen, pending, worker, notice, shot>>
    BY DEF RejectSample, ReadsSample
  <1>2. IdleTareTypeOK /\ Fitting(Now) /\ Now.slot = slot /\ Now.tare = tare
    BY NowIs DEF IdleTareInv
  <1>3. Fitting(c) /\ ComesFrom(Now, c) /\ (c.slot.phase = "QUEUED" => c = Now)
    BY <1>2, BrokenFits
  <1> HIDE DEF c
  <1>4. Fitting(b) /\ ComesFrom(c, b)
    BY <1>2, <1>3, ServicedFits
  <1> HIDE DEF b
  <1>5. Fitting(v) /\ ComesFrom(b, v)
    BY <1>4, AbsentFits DEF Voided
  <1> HIDE DEF v
  <1>6. Fitting(wd) /\ ComesFrom(v, wd) /\ wd.slot.phase # "QUEUED"
    BY <1>2, <1>5, WithdrawnFits
  <1> HIDE DEF wd
  <1>7. Fitting(d) /\ ComesFrom(Now, d) /\ (d.slot.phase = "QUEUED" => shot.active /\ d = Now)
    <2>1. CASE shot.active
      BY <1>3, <2>1
    <2>2. CASE ~shot.active
      <3>1. ComesFrom(Now, wd)
        BY <1>3, <1>4, <1>5, <1>6, PairsAre DEF ComesFrom
      <3> QED
        BY <1>6, <2>2, <3>1
    <2> QED
      BY <2>1, <2>2
  <1> HIDE DEF d
  <1>8. /\ d.slot \in {slot, NoSlot} /\ d.tare.next >= tare.next /\ slot.phase # "WRITING"
    BY <1>1, <1>2, <1>7, SampleIs DEF ComesFrom, IdleTareTypeOK, Tares
  <1>9. /\ approval' \in [approved : BOOLEAN, granted : BOOLEAN] /\ ~approval'.approved
        /\ approval'.granted = approval.granted
        /\ shot' \in [active : BOOLEAN, count : Nat] /\ notice' \in Notices
    BY <1>1, <1>2 DEF IdleTareTypeOK
  <1>10. Granted'
    <2>1. slot'.phase = "QUEUED" => slot' = slot /\ tare' = tare /\ shot.active
      BY <1>1, <1>2, <1>7 DEF Take
    <2> QED
      BY <1>1, <1>9, <2>1 DEF IdleTareInv, Granted
  <1> QED
    BY <1>1, <1>7, <1>8, <1>9, <1>10, ControlKeeps

\* Control hears that the reference of the scale changed.
LEMMA NoticeStep == ASSUME IdleTareInv, ReadNotice PROVE IdleTareInv' /\ NoClaim
  <1> DEFINE lost == [Lifted(Now) EXCEPT !.tare.still = FALSE]
             d == IF tare.req # 0 THEN Release(lost, FALSE) ELSE Now
             ref == CASE ~d.tare.present -> d.tare.reference
                      [] d.tare.present /\ notice.event = "done" -> "tared"
                      [] OTHER -> "uncertain"
             f == [d EXCEPT !.tare.reference = ref]
             v == Voided(f)
  <1>1. /\ notice.event # "none" /\ Take(v) /\ notice' = [notice EXCEPT !.event = "none"]
        /\ UNCHANGED <<pan, air, window, approval, gen, pending, worker, shot>>
    BY DEF ReadNotice
  <1>2. IdleTareTypeOK /\ Fitting(Now) /\ Now.slot = slot /\ Now.tare = tare
    BY NowIs DEF IdleTareInv
  <1>3. Fitting(lost) /\ ComesFrom(Now, lost) /\ lost.tare.req = tare.req /\ ~lost.tare.present
    BY <1>2, LiftedIs, LiftedFits
  <1> HIDE DEF lost
  <1>4. /\ Fitting(d) /\ ComesFrom(Now, d) /\ d.slot.phase # "QUEUED"
        /\ d.tare.present => d = Now /\ tare.req = 0
    <2>1. CASE tare.req # 0
      <3>1. /\ Fitting(d) /\ ComesFrom(lost, d) /\ d.slot.phase # "QUEUED" /\ ~d.tare.present
        BY <1>2, <1>3, <2>1, ReleaseFits
      <3> QED
        BY <1>3, <3>1, PairsAre DEF ComesFrom
    <2>2. CASE tare.req = 0
      <3>1. slot.phase # "QUEUED"
        BY <1>2, <2>2, NoRequestNoSlot
      <3> QED
        BY <1>2, <2>2, <3>1 DEF ComesFrom
    <2> QED
      BY <2>1, <2>2
  <1>5. /\ ~d.tare.present => ref = d.tare.reference
        /\ d.tare.present => ref \in {"tared", "uncertain"}
        /\ d.tare.present /\ ref = "tared" => notice.event = "done"
    OBVIOUS
  <1> HIDE DEF d, ref
  <1>6. Fitting(f) /\ ComesFrom(Now, f) /\ f.slot = d.slot
    <2> DEFINE t == [d.tare EXCEPT !.reference = ref]
    <2>1. d \in Pairs /\ d.slot \in TareSlots /\ d.tare \in Tares
      BY <1>4, PairsAre DEF Fitting
    <2>2. ref \in {"untared", "tared", "uncertain"}
      BY <1>5, <2>1 DEF Tares
    <2>3. /\ t \in Tares /\ t.req = d.tare.req /\ t.next = d.tare.next /\ t.seen = d.tare.seen
          /\ t.present = d.tare.present /\ t.gen = d.tare.gen /\ t.still = d.tare.still
          /\ t.unchanged = d.tare.unchanged /\ t.accessory = d.tare.accessory
          /\ t.plateau = d.tare.plateau /\ t.reference = ref
      BY <2>1, <2>2 DEF Tares
    <2>4. f = [slot |-> d.slot, tare |-> t]
      BY <2>1 DEF Pairs
    <2> HIDE DEF t, f
    <2>5. f \in Pairs /\ f.slot = d.slot /\ f.tare = t
      BY <2>1, <2>3, <2>4, PairsAre
    <2>6. Owned(f) /\ ComesFrom(Now, f)
      BY <1>4, <2>3, <2>5 DEF Fitting, Owned, ComesFrom
    <2>7. OneCup => Founded(f)
      <3>1. OneCup => Founded(d) /\ (notice.event = "done" /\ tare.present => pan.zeroed)
        BY <1>4 DEF Fitting, IdleTareInv, Weighed
      <3>2. d.tare.present => tare.present
        BY <1>2, <1>4
      <3> QED
        BY <1>5, <2>3, <2>5, <3>1, <3>2 DEF Founded
    <2>8. Quiet => Believed(f)
      BY <1>4, <1>5, <2>3, <2>5 DEF Fitting, Believed
    <2> QED
      BY <2>5, <2>6, <2>7, <2>8 DEF Fitting
  <1> HIDE DEF f
  <1>7. Fitting(v) /\ ComesFrom(f, v) /\ v.slot = f.slot
    BY <1>6, AbsentFits DEF Voided
  <1> HIDE DEF v
  <1>8. ComesFrom(Now, v) /\ v.slot.phase # "QUEUED"
    BY <1>4, <1>6, <1>7, PairsAre DEF ComesFrom
  <1>9. /\ v.slot \in {slot, NoSlot} /\ (slot.phase = "WRITING" => v.slot = slot)
        /\ v.tare.next >= tare.next
    BY <1>2, <1>8 DEF ComesFrom, IdleTareTypeOK, Tares
  <1>10. /\ approval' \in [approved : BOOLEAN, granted : BOOLEAN] /\ (approval'.approved => window' = <<>>)
         /\ shot' \in [active : BOOLEAN, count : Nat] /\ notice' \in Notices /\ notice'.event = "none"
    BY <1>1, <1>2 DEF IdleTareTypeOK, IdleTareInv, Written, Notices
  <1>11. Granted'
    BY <1>1, <1>8 DEF Granted, Take
  <1> QED
    BY <1>1, <1>7, <1>9, <1>10, <1>11, ControlKeeps

\* Every step keeps the invariant.
LEMMA TareStep == IdleTareInv /\ [Next]_vars => IdleTareInv'
  <1> SUFFICES ASSUME IdleTareInv, [Next]_vars PROVE IdleTareInv'
    OBVIOUS
  <1>1. CASE WorkerStep
    BY <1>1, ReadStep, TakeStep, AdmitStep, ResultStep, WriteStep DEF WorkerStep
  <1>2. CASE ControlStep
    BY <1>2, ServiceStep, SampleStep, RejectStep, NoticeStep, PaddleStep, WebStep, EndStep, ForgetStep
       DEF ControlStep
  <1>3. CASE Environment
    BY <1>3, MoveStep, ItemStep, DebugStep, ReconnectStep, NotifyStep DEF Environment
  <1>4. CASE UNCHANGED vars
    <2>1. IdleTareTypeOK'
      BY <1>4 DEF IdleTareInv, IdleTareTypeOK, vars
    <2>2. Single' /\ Written' /\ Granted' /\ (OneCup' => Weighed') /\ (Quiet' => Settled')
      BY <1>4 DEF IdleTareInv, Single, Written, Granted, OneCup, Quiet, Weighed, Settled, vars
    <2>3. UNCHANGED <<pan, gen, slot, tare>>
      BY <1>4 DEF vars
    <2> QED
      BY <2>1, <2>2, <2>3, SamePair DEF IdleTareInv
  <1> QED
    BY <1>1, <1>2, <1>3, <1>4 DEF Next

-----------------------------------------------------------------------------
(* The invariant of the idle tare: whom the slot belongs to, what the queue and the worker
   hold of it, which sample approved it, and what the control task believes of the cup. *)
THEOREM TareInvariance == Spec => []IdleTareInv
  BY TareInit, TareStep, PTL DEF Spec

(* A slot that is in use belongs to the request in progress: releaseIdleTareRequest empties it
   with the request, and a late result of finishIdleScaleTare finds another number in it. *)
THEOREM SlotsAreOwned == Spec => []SlotIsOwned
  <1>1. IdleTareInv => SlotIsOwned
    <2> SUFFICES ASSUME IdleTareInv PROVE SlotIsOwned
      OBVIOUS
    <2>1. Fitting(Now) /\ Now.slot = slot /\ Now.tare = tare
      BY NowIs DEF IdleTareInv
    <2> QED
      BY <2>1 DEF Fitting, Owned, SlotIsOwned
  <1> QED
    BY <1>1, TareInvariance, PTL

(* The scale is not zeroed for a shot: a request that waits in the slot once a shot runs is
   not granted by a sample that is still the newest (recordWeightSampleWithProvenance,
   approveScaleWrite). *)
THEOREM NoClaimsInShots == Spec => NoClaimInShot
  <1> DEFINE Claimed == slot.phase # "WRITING" /\ slot'.phase = "WRITING" => ~shot.active
  <1>1. ASSUME IdleTareInv, [Next]_vars PROVE Claimed
    <2> SUFFICES ASSUME slot.phase # "WRITING", slot'.phase = "WRITING" PROVE ~shot.active
      OBVIOUS
    <2>1. IdleTareTypeOK /\ slot \in TareSlots /\ Fitting(Now) /\ Now.slot = slot /\ Now.tare = tare
      BY <1>1, NowIs DEF IdleTareInv, IdleTareTypeOK
    <2>2. CASE Admit /\ Claimable
      BY <1>1, <2>2 DEF Claimable, IdleTareInv, Granted
    <2>3. CASE Deferred(slot)
      <3>1. \A u \in TareSlots : /\ [u EXCEPT !.phase = "QUEUED"].phase = "QUEUED"
                             /\ [u EXCEPT !.phase = "FAILED"].phase = "FAILED"
                             /\ [u EXCEPT !.phase = "QUEUED"] \in TareSlots
        BY DEF TareSlots, Phases
      <3>2. BackInQueue(slot, worker.id) = slot
        BY DEF BackInQueue
      <3> QED
        BY <2>1, <2>3, <3>1, <3>2 DEF Deferred
    <2>4. CASE slot' = slot
      BY <2>4
    <2>5. CASE Expire \/ Finish
      <3>1. \A u \in TareSlots, ph \in {"SUCCEEDED", "FAILED"} : [u EXCEPT !.phase = ph].phase = ph
        BY DEF TareSlots
      <3> QED
        BY <2>1, <2>5, <3>1 DEF Expire, Finish, Finished
    <2>6. CASE ControlStep
      BY <1>1, <2>6, ServiceStep, SampleStep, RejectStep, NoticeStep, PaddleStep, WebStep, EndStep,
         ForgetStep DEF ControlStep, NoClaim
    <2>7. WorkerStep => \/ Admit /\ Claimable
                        \/ Deferred(slot) \/ slot' = slot \/ Expire \/ Finish
      BY DEF WorkerStep, Poll, TakeCommand, Capture, Admit, Write
    <2>8. Environment \/ UNCHANGED vars => slot' = slot
      BY DEF Environment, MoveCup, MoveItem, DebugTare, Reconnect, Notify, vars
    <2> QED
      BY <1>1, <2>2, <2>3, <2>4, <2>5, <2>6, <2>7, <2>8 DEF Next
  <1>2. Spec => [][Claimed]_vars
    BY <1>1, TareInvariance, PTL DEF Spec
  <1> QED
    BY <1>2, PTL DEF NoClaimInShot

(* Once no request is left, the reference of the cup that the control task believes in is
   the one of the scale: a tare it knows of was done, and one that was done is known or marked
   uncertain (releaseIdleTareRequest, handleIdleCupEvent), but for a cup that the scale zeroed
   while it reported a failure, or for the debug page. *)
THEOREM ReferencesMatchTheScale == Spec => []ReferenceMatchesScale
  <1>1. IdleTareInv => ReferenceMatchesScale
    <2> SUFFICES ASSUME IdleTareInv, tare.req = 0, tare.present, tare.seen = gen, pan.cup, pan.moves = 1
                 PROVE  /\ tare.reference = "tared" => pan.zeroed
                        /\ tare.reference = "untared" => ~pan.zeroed \/ pan.apart
      BY DEF ReferenceMatchesScale
    <2>1. Fitting(Now) /\ Now.slot = slot /\ Now.tare = tare /\ OneCup
      BY NowIs DEF IdleTareInv, OneCup
    <2>2. tare.reference = "tared" => pan.zeroed
      BY <2>1 DEF Fitting, Founded
    <2>3. tare.reference = "untared" => ~pan.zeroed \/ pan.apart
      BY <2>1 DEF Fitting, Believed, Quiet
    <2> QED
      BY <2>2, <2>3
  <1> QED
    BY <1>1, TareInvariance, PTL
=============================================================================
