------------------------------ MODULE WebAccess ------------------------------
(* The login of the Web UI: the sessions of the browsers, remembered ones that
   survive a restart and others that do not, the token of Home Assistant and the
   one request to pair with it, and the change of the device password that keeps
   the window that asked.  Request handlers run one at a time on the HTTP task;
   the network task applies password changes and writes the record; everything
   they share is read and written in sections under dataMux_.  A step is one
   section; a handler that needs the password has checked it, and whether the
   login is on, in an earlier one.  Left out: typing passwords, the admin unlock,
   labels, the notice, all but one of the sessions that are not remembered. *)
EXTENDS Naturals, Sequences, FiniteSets

CONSTANTS Devices,        \* the browsers
          Slots,          \* remembered sessions: WEB_ACCESS_REMEMBERED_SLOTS
          RememberDays,   \* WEB_ACCESS_REMEMBER_SEC, in days of WEB_ACCESS_RENEW_SEC
          MaxDay, MaxTokens, MaxPairs, MaxChangesQueued, MaxRestarts, MaxFailures

ASSUME WebAccessAssumption ==
    /\ Slots \in Nat \ {0} /\ RememberDays \in Nat \ {0}
    /\ {MaxDay, MaxTokens, MaxPairs, MaxChangesQueued, MaxRestarts, MaxFailures} \subseteq Nat

VARIABLES login,     \* g_webAccess: the stored record, the browser session, pairing, dirty
          writer,    \* serviceWebAccess, and the record in flash
          browsers,  \* the token each device holds
          change,    \* password changes on their way, and the session to keep
          assistant, \* Home Assistant, and the prompt a person looks at
          handler,   \* what a handler with a checked password is about to do
          day        \* the wall clock in days; 0 until it is synced

webAccessVars == <<login, writer, browsers, change, assistant, handler, day>>

Empty == [tok |-> 0, used |-> 0]
NoRecord == [enabled |-> FALSE, ha |-> 0, remembered |-> [s \in 1..Slots |-> Empty]]
NoPairing == [state |-> "none", id |-> 0]
NoTab == [tok |-> 0, live |-> FALSE, lapsed |-> FALSE]
Nothing == [does |-> "nothing", who |-> "none"]
NoChange == [queue |-> <<>>, keep |-> 0, req |-> 0, valid |-> FALSE, pc |-> "idle", rid |-> 0,
             next |-> 1, who |-> "none"]

WebAccessInit ==
    /\ login = [stored |-> NoRecord, tab |-> NoTab, pairing |-> NoPairing, dirty |-> FALSE, issued |-> 0]
    /\ writer = [pc |-> "idle", image |-> NoRecord, flash |-> NoRecord, factory |-> FALSE,
                 restarts |-> 0, failures |-> 0]
    /\ handler = Nothing
    /\ browsers = [d \in Devices |-> 0] /\ change = NoChange
    /\ assistant = [asked |-> 0, shown |-> 0, pairs |-> 0]
    /\ day = 0

-----------------------------------------------------------------------------
(* The record.  A session that is not live any more is as good as a free slot;
   a full table gives up the one with the oldest stamp. *)
RememberedLive(r, s) ==
    /\ r.remembered[s].tok # 0
    /\ day = 0 \/ day <= r.remembered[s].used \/ day - r.remembered[s].used < RememberDays
Stale(r) == {s \in 1..Slots : ~RememberedLive(r, s)}
Oldest(r) == {s \in 1..Slots : \A t \in 1..Slots : r.remembered[s].used <= r.remembered[t].used}
Lowest(S) == CHOOSE s \in S : \A t \in S : s <= t
Target(r) == IF Stale(r) # {} THEN Lowest(Stale(r)) ELSE Lowest(Oldest(r))
Recorded(l, r) == [l EXCEPT !.stored = r, !.dirty = TRUE]
IssueRemembered(l, tok) ==
    Recorded(l, [l.stored EXCEPT !.remembered[Target(l.stored)] = [tok |-> tok, used |-> day]])
Issue(l, tok, remember) ==
    LET n == [l EXCEPT !.issued = tok] IN
    IF remember THEN IssueRemembered(n, tok)
    ELSE [n EXCEPT !.tab = [tok |-> tok, live |-> TRUE, lapsed |-> FALSE]]

(* webAccessRevokeSessions: all but the kept one, or only the one. *)
Revoke(l, out) ==
    LET gone == {s \in 1..Slots : l.stored.remembered[s].tok \in out} IN
    [l EXCEPT !.tab = IF l.tab.live /\ l.tab.tok \in out THEN NoTab ELSE @,
              !.stored.remembered = [s \in 1..Slots |-> IF s \in gone THEN Empty ELSE @[s]],
              !.dirty = @ \/ gone # {}]
RevokeOthers(l, keep) == Revoke(l, (1..MaxTokens) \ {keep})
RevokeOnly(l, tok) == Revoke(l, {tok})
SetAssistant(l, tok) == Recorded(l, [l.stored EXCEPT !.ha = tok])
ForgetAssistant(l) == IF l.stored.ha = 0 THEN l ELSE Recorded(l, [l.stored EXCEPT !.ha = 0])
SwitchOff(l) ==
    LET f == [ForgetAssistant(RevokeOthers(l, 0)) EXCEPT !.pairing = NoPairing] IN
    IF f.stored.enabled THEN Recorded(f, [f.stored EXCEPT !.enabled = FALSE]) ELSE f

Holds(l, tok) ==
    /\ tok # 0
    /\ \/ l.tab.live /\ l.tab.tok = tok /\ ~l.tab.lapsed
       \/ \E s \in 1..Slots : l.stored.remembered[s].tok = tok /\ RememberedLive(l.stored, s)

-----------------------------------------------------------------------------
(* The handlers of the HTTP task. *)
NewToken(l) == l.issued + 1
MayIssue == login.issued < MaxTokens

HttpFree == handler = Nothing
Begins(does, d) ==
    /\ HttpFree /\ MayIssue
    /\ IF does = "turn on" THEN ~writer.factory ELSE login.stored.enabled
    /\ handler' = [does |-> does, who |-> d]
    /\ UNCHANGED <<login, writer, browsers, change, assistant, day>>
SignIn(d, remember) ==
    /\ handler = [does |-> "sign in", who |-> d]
    /\ login' = Issue(login, NewToken(login), remember)
    /\ browsers' = [browsers EXCEPT ![d] = NewToken(login)]
    /\ handler' = Nothing
    /\ UNCHANGED <<writer, change, assistant, day>>
TurnOn(d) ==
    /\ handler = [does |-> "turn on", who |-> d]
    /\ login' = Issue(Recorded(login, [login.stored EXCEPT !.enabled = TRUE]), NewToken(login), TRUE)
    /\ browsers' = [browsers EXCEPT ![d] = NewToken(login)]
    /\ handler' = Nothing
    /\ UNCHANGED <<writer, change, assistant, day>>
TurnOff ==
    /\ HttpFree /\ login.stored.enabled
    /\ login' = SwitchOff(login)
    /\ UNCHANGED <<writer, browsers, change, assistant, handler, day>>

(* webAccessSessionValid: a visit stamps the session, at most once a day, and
   removes one that has run out. *)
Visit(d) ==
    /\ HttpFree /\ login.stored.enabled /\ browsers[d] # 0
    /\ LET tok == browsers[d]
           S == {s \in 1..Slots : login.stored.remembered[s].tok = tok} IN
       login' =
         IF login.tab.live /\ login.tab.tok = tok
         THEN IF login.tab.lapsed THEN [login EXCEPT !.tab = NoTab] ELSE login
         ELSE IF S = {} THEN login
         ELSE LET s == Lowest(S)
                  used == login.stored.remembered[s].used IN
              IF ~RememberedLive(login.stored, s)
              THEN Recorded(login, [login.stored EXCEPT !.remembered[s] = Empty])
              ELSE IF day # 0 /\ day > used
              THEN Recorded(login, [login.stored EXCEPT !.remembered[s].used = day])
              ELSE login
    /\ browsers' = [browsers EXCEPT ![d] = IF Holds(login', @) THEN @ ELSE 0]
    /\ UNCHANGED <<writer, change, assistant, handler, day>>
SignOut(d) ==
    /\ HttpFree /\ browsers[d] # 0
    /\ login' = RevokeOnly(login, browsers[d])
    /\ browsers' = [browsers EXCEPT ![d] = 0]
    /\ UNCHANGED <<writer, change, assistant, handler, day>>
SignOutOthers(d) ==
    /\ HttpFree
    /\ login' = RevokeOthers(login, browsers[d])
    /\ UNCHANGED <<writer, browsers, change, assistant, handler, day>>
SignOutOne(tok) ==
    /\ HttpFree /\ login' = RevokeOnly(login, tok) /\ login' # login
    /\ UNCHANGED <<writer, browsers, change, assistant, handler, day>>

(* Home Assistant: with the password, or by a request a person approves. *)
Exchange ==
    /\ handler.does = "exchange" /\ handler' = Nothing
    /\ login' = [SetAssistant(login, NewToken(login)) EXCEPT !.issued = NewToken(login)]
    /\ UNCHANGED <<writer, browsers, change, assistant, day>>
ForgetHomeAssistant ==
    /\ HttpFree /\ login' = ForgetAssistant(login)
    /\ UNCHANGED <<writer, browsers, change, assistant, handler, day>>
StartPairing ==
    /\ HttpFree /\ login.stored.enabled /\ login.pairing.state = "none" /\ assistant.pairs < MaxPairs
    /\ login' = [login EXCEPT !.pairing = [state |-> "pending", id |-> assistant.pairs + 1]]
    /\ assistant' = [assistant EXCEPT !.pairs = @ + 1, !.asked = assistant.pairs + 1]
    /\ UNCHANGED <<writer, browsers, change, handler, day>>
(* webAccessTickPairing, when the time of the request's state is over. *)
PairingTimesOut ==
    /\ login.pairing.state # "none"
    /\ login' = [login EXCEPT !.pairing =
                   IF @.state = "pending" THEN [@ EXCEPT !.state = "expired"] ELSE NoPairing]
    /\ UNCHANGED <<writer, browsers, change, assistant, handler, day>>
ShowPrompt ==
    /\ login.pairing.state = "pending" /\ assistant.shown # login.pairing.id
    /\ assistant' = [assistant EXCEPT !.shown = login.pairing.id]
    /\ UNCHANGED <<login, writer, browsers, change, handler, day>>
DecidableMutantAnyId(p, id) == p.state = "pending"
Decidable(p, id) == p.state = "pending" /\ p.id = id
Answers(allow) ==
    /\ HttpFree /\ assistant.shown # 0 /\ MayIssue
    /\ LET tok == NewToken(login) IN
       login' = IF ~Decidable(login.pairing, assistant.shown) THEN login
                ELSE IF ~allow THEN [login EXCEPT !.pairing.state = "denied"]
                ELSE [SetAssistant(login, tok) EXCEPT !.issued = tok,
                        !.pairing = [state |-> "approved", id |-> login.pairing.id]]
    /\ assistant' = [assistant EXCEPT !.shown = 0]
    /\ UNCHANGED <<writer, browsers, change, handler, day>>
AskStatus ==
    /\ HttpFree /\ assistant.asked # 0 /\ login.pairing.id = assistant.asked
    /\ login.pairing.state = "approved"
    /\ assistant' = [assistant EXCEPT !.asked = 0]
    /\ login' = [login EXCEPT !.pairing = NoPairing]
    /\ UNCHANGED <<writer, browsers, change, handler, day>>

(* devicePasswordHandler: the session to keep is noted before the command is
   queued; a change over USB has none.  A full queue refuses the command. *)
AskChange(d) ==
    /\ HttpFree /\ (login.stored.enabled => Holds(login, browsers[d])) /\ change.next <= MaxChangesQueued
    /\ \E accepted \in BOOLEAN :
         change' = [change EXCEPT !.keep = browsers[d], !.req = change.next, !.valid = browsers[d] # 0,
                      !.next = @ + 1,
                      !.queue = IF accepted THEN Append(@, [rid |-> change.next, who |-> d]) ELSE @]
    /\ UNCHANGED <<login, writer, browsers, assistant, handler, day>>
ChangeOverUsb ==
    /\ change.next <= MaxChangesQueued
    /\ change' = [change EXCEPT !.next = @ + 1,
                    !.queue = Append(@, [rid |-> change.next, who |-> "usb"])]
    /\ UNCHANGED <<login, writer, browsers, assistant, handler, day>>

(* The network task applies a change: the session to keep is taken in one
   section, the others are revoked in the next. *)
NetworkIdle == writer.pc = "idle" /\ change.pc = "idle"
TakeKeep ==
    /\ NetworkIdle /\ change.queue # <<>>
    /\ LET c == Head(change.queue)
           mine == change.valid /\ change.req = c.rid IN
       change' = [change EXCEPT !.queue = Tail(@), !.pc = "revoke", !.valid = FALSE,
                    !.who = c.who, !.rid = IF mine THEN change.keep ELSE 0, !.keep = 0, !.req = 0]
    /\ writer' = [writer EXCEPT !.factory = FALSE]
    /\ UNCHANGED <<login, browsers, assistant, handler, day>>
RevokeForChange ==
    /\ change.pc = "revoke"
    /\ login' = RevokeOthers(login, change.rid)
    /\ change' = [change EXCEPT !.pc = "idle", !.rid = 0, !.who = "none"]
    /\ UNCHANGED <<writer, browsers, assistant, handler, day>>
(* RESET_DEVICE_PASSWORD, over USB: the factory password is saved first. *)
ResetPassword ==
    /\ NetworkIdle /\ ~writer.factory
    /\ writer' = [writer EXCEPT !.factory = TRUE] /\ change' = [change EXCEPT !.pc = "off"]
    /\ UNCHANGED <<login, browsers, assistant, handler, day>>
SignAllOut ==
    /\ change.pc = "off"
    /\ login' = SwitchOff(login) /\ change' = [change EXCEPT !.pc = "idle"]
    /\ UNCHANGED <<writer, browsers, assistant, handler, day>>

-----------------------------------------------------------------------------
(* serviceWebAccess: the copy clears the mark, and a failed write sets it. *)
CopyRecord ==
    /\ NetworkIdle /\ login.dirty
    /\ writer' = [writer EXCEPT !.pc = "write", !.image = login.stored]
    /\ login' = [login EXCEPT !.dirty = FALSE]
    /\ UNCHANGED <<browsers, change, assistant, handler, day>>
WriteRecord ==
    /\ writer.pc = "write"
    /\ writer' = [writer EXCEPT !.pc = "idle", !.flash = writer.image, !.image = NoRecord]
    /\ UNCHANGED <<login, browsers, change, assistant, handler, day>>
WriteFails ==
    /\ writer.pc = "write" /\ writer.failures < MaxFailures
    /\ writer' = [writer EXCEPT !.pc = "failed", !.image = NoRecord, !.failures = @ + 1]
    /\ UNCHANGED <<login, browsers, change, assistant, handler, day>>
MarkedMutantForgets(l) == l
Marked(l) == [l EXCEPT !.dirty = TRUE]
MarkAgain ==
    /\ writer.pc = "failed"
    /\ writer' = [writer EXCEPT !.pc = "idle"] /\ login' = Marked(login)
    /\ UNCHANGED <<browsers, change, assistant, handler, day>>

(* A restart loads the record; a factory password cannot back a login. *)
LoadsRecord ==
    /\ writer.restarts < MaxRestarts
    /\ writer' = [writer EXCEPT !.pc = "idle", !.image = NoRecord, !.restarts = @ + 1]
    /\ LET l == [login EXCEPT !.stored = writer.flash, !.tab = NoTab, !.pairing = NoPairing,
                              !.dirty = FALSE] IN
       login' = IF writer.factory THEN SwitchOff(l) ELSE l
    /\ change' = [NoChange EXCEPT !.next = change.next] /\ day' = 0
    /\ assistant' = [assistant EXCEPT !.shown = 0] /\ handler' = Nothing
    /\ UNCHANGED browsers
NextDay == /\ day < MaxDay /\ day' \in day+1..MaxDay
           /\ UNCHANGED <<login, writer, browsers, change, assistant, handler>>
TabLapses == /\ login.tab.live /\ ~login.tab.lapsed
             /\ login' = [login EXCEPT !.tab.lapsed = TRUE]
             /\ UNCHANGED <<writer, browsers, change, assistant, handler, day>>

WebAccessNext ==
    \/ \E d \in Devices :
          \/ \E what \in {"sign in", "turn on"} : Begins(what, d)
          \/ TurnOn(d) \/ Visit(d) \/ SignOut(d) \/ SignOutOthers(d) \/ AskChange(d)
          \/ \E r \in BOOLEAN : SignIn(d, r)
    \/ \E a \in BOOLEAN : Answers(a)
    \/ Begins("exchange", "none") \/ (\E tok \in 1..MaxTokens : SignOutOne(tok))
    \/ TurnOff \/ Exchange \/ ForgetHomeAssistant \/ StartPairing \/ PairingTimesOut \/ ShowPrompt \/ AskStatus
    \/ ChangeOverUsb \/ TakeKeep \/ RevokeForChange \/ ResetPassword \/ SignAllOut
    \/ CopyRecord \/ WriteRecord \/ WriteFails \/ MarkAgain \/ LoadsRecord \/ NextDay \/ TabLapses

WebAccessSpec == WebAccessInit /\ [][WebAccessNext]_webAccessVars

-----------------------------------------------------------------------------
(* What a restart would restore is what the sessions are, unless the record is
   marked or on its way: a change made while the record is being written, or
   while a write fails, is not forgotten. *)
UnmarkedIsSaved ==
    login.dirty \/ writer.pc = "failed"
    \/ login.stored = (IF writer.pc = "write" THEN writer.image ELSE writer.flash)

(* A person's answer to one request of Home Assistant does not approve another
   one that took its place while the prompt was on the screen. *)
ApprovesWhatWasShown ==
    [][\A i \in 1..MaxPairs :
         login'.pairing.state = "approved" /\ login.pairing.state # "approved" /\ login'.pairing.id = i
             => assistant.shown = i]_webAccessVars

(* "After the Web UI change only phone A stays signed in"
   (docs/MANUAL_TEST_PLAN.md:291, ACC-M03). *)
WhoAskedStays ==
    [][\A d \in Devices :
         change.pc = "revoke" /\ change'.pc = "idle" /\ writer' = writer /\ change.who = d
         /\ Holds(login, browsers[d])
             => Holds(login', browsers[d])]_webAccessVars
=============================================================================
