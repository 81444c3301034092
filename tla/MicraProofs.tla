----------------------------- MODULE MicraProofs -----------------------------
(***************************************************************************)
(* Proofs about MicraService for every set of targets and every number of  *)
(* attempts and events: a shot cancels the command at the cloud, nothing   *)
(* of another identity is published, and an accepted command is sent once. *)
(***************************************************************************)
EXTENDS MicraService, TLAPS

-----------------------------------------------------------------------------
(* Types. *)

Vals == Targets \cup Modes \cup {Nothing}
Kinds == Commands \cup {"observe", "connect", Nothing}
Exchange == {"list", "store", "read", "send", "answer", "note", "reading", "merge"}
Places == {"select", "gate", "session", "settle", "failed", "finish"} \cup Exchange
Copies == {"request", "configuration", "identity", "shot"}

Desires == [value : Vals, accepted : BOOLEAN, current : BOOLEAN, taken : BOOLEAN]
Answers == [target : Targets \cup {Nothing}, power : Powers \cup {"UNKNOWN"}]
Jobs == [pc : Places, kind : Kinds, value : Vals, holds : SUBSET Copies, accepted : BOOLEAN,
         tries : Nat, error : {"none", "retry", "auth", "rejected"}, attempted : BOOLEAN,
         fresh : SUBSET Stamp, answer : Answers, crossed : BOOLEAN, shown : BOOLEAN]
Published == [mine : BOOLEAN, target : Targets \cup {Nothing}, power : Powers \cup {"UNKNOWN"},
           state : {"idle", "pending", "failed", "confirmed"}]

EventTypeOK ==
  /\ conf \in [account : BOOLEAN, options : SUBSET Commands]
  /\ shot \in [on : BOOLEAN, seen : BOOLEAN, inhibit : BOOLEAN, scale : BOOLEAN]
  /\ up \in BOOLEAN /\ cleaning \in BOOLEAN /\ left \in Nat
RequestTypeOK ==
  /\ desired \in [Commands -> Desires]
  /\ posted \in [Commands -> Vals]
  /\ pending \in {Nothing, "observe", "connect"}
WorkerTypeOK ==
  /\ abort \in BOOLEAN /\ session \in {"none", "open", "clearing"}
  /\ published \in Published /\ candidate \in {"none", "current", "old"}
  /\ job \in Jobs
TypeOK == EventTypeOK /\ RequestTypeOK /\ WorkerTypeOK

-----------------------------------------------------------------------------
(* The inductive invariants. *)

\* A command that a shot has crossed waits for its answer: the shot still runs,
\* or has told the worker to abort.
CrossedIsCanceled ==
  job.crossed => /\ job.pc = "answer" /\ job.kind \in Commands
                 /\ abort \/ (shot.on /\ shot.inhibit)

\* An execution that copied another identity is told to abort; a stamp that is
\* fresh is of the identity that was copied.
Identity ==
  /\ job.pc # "select" => abort \/ "identity" \in job.holds
  /\ "identity" \in job.fresh => "identity" \in job.holds
  /\ job.pc \in {"list", "store"} => job.kind = "connect"
  /\ ShowsThisIdentity

\* What the cloud has accepted is known: it is remembered with the desire, about
\* to be, or of a shot that has passed; the execution that serves it knows too.
Remembering(k) ==
  /\ job.pc = "note" /\ job.kind = k /\ job.accepted
  /\ "request" \in job.holds /\ (k = "power" => "shot" \in job.holds)
Known(k) ==
  desired[k].taken => \/ desired[k].accepted
                      \/ k = "power" /\ ~desired[k].current
                      \/ Remembering(k)
Served(k) ==
  job.kind = k /\ "request" \in job.holds =>
    /\ desired[k].taken => job.accepted
    /\ k = "power" /\ "shot" \notin job.holds => ~desired[k].current
Acceptance ==
  /\ \A k \in Commands : Known(k) /\ Served(k) /\ (desired[k].taken => desired[k].value # Nothing)
  /\ job.pc = "send" => ~job.accepted /\ job.kind \in Commands
  /\ job.pc = "select" <=> job.kind = Nothing
  /\ job.pc \in {"answer", "note"} => job.kind \in Commands

-----------------------------------------------------------------------------
(* Types. *)

\* The parts every record is built from.
LEMMA Parts ==
  /\ NoCommand \in Desires /\ NoCommands \in [Commands -> Desires]
  /\ NonePosted \in [Commands -> Vals]
  /\ \A v \in Vals : Command(v) \in Desires
  /\ \A k \in Commands : Values(k) \subseteq Vals
  /\ NoAnswer \in Answers /\ NoJob \in Jobs /\ NoStatus \in Published
  /\ \A k \in Kinds : Counters(k) \in SUBSET Copies
  <1>1. NoCommand \in Desires /\ NonePosted \in [Commands -> Vals]
    BY DEF NoCommand, Desires, NonePosted, Vals
  <1>2. NoCommands \in [Commands -> Desires]
    BY <1>1 DEF NoCommands
  <1>3. \A v \in Vals : Command(v) \in Desires
    BY DEF Command, Desires
  <1>4. \A k \in Commands : Values(k) \subseteq Vals
    BY DEF Values, Vals
  <1>5. NoAnswer \in Answers
    BY DEF NoAnswer, Answers
  <1>6. NoJob \in Jobs
    BY <1>5 DEF NoJob, Jobs, Places, Kinds, Vals
  <1>7. NoStatus \in Published
    BY DEF NoStatus, Published
  <1>8. \A k \in Kinds : Counters(k) \in SUBSET Copies
    BY DEF Kinds, Commands, Counters, Copies
  <1> QED
    BY <1>1, <1>2, <1>3, <1>4, <1>5, <1>6, <1>7, <1>8

\* What one lock acquisition leaves.
LEMMA QueueType ==
  ASSUME NEW cs \in [Commands -> Vals], TypeOK, QueueLocked(cs)
  PROVE  /\ desired' \in [Commands -> Desires] /\ abort' \in BOOLEAN
         /\ job' \in Jobs /\ published' \in Published
  <1>1. desired' \in [Commands -> Desires]
    BY Parts DEF QueueLocked, Queue, TypeOK, RequestTypeOK
  <1>2. job' \in Jobs
    BY DEF QueueLocked, Superseded, TypeOK, WorkerTypeOK, Jobs
  <1>3. abort' \in BOOLEAN /\ published' \in Published
    BY DEF QueueLocked, TypeOK, WorkerTypeOK, Published
  <1> QED
    BY <1>1, <1>2, <1>3

\* The worker moves on, or its attempt fails.
LEMMA GotoType ==
  ASSUME job \in Jobs, NEW p \in Places, Goto(p)
  PROVE  job' \in Jobs /\ job'.pc = p
  BY DEF Goto, Jobs

\* A job that fails is a job.
LEMMA FailedType ==
  ASSUME job \in Jobs, NEW e \in {"none", "retry", "auth", "rejected"}, Failed(e)
  PROVE  job' \in Jobs
  BY Parts DEF Failed, Jobs, Places

\* The counters and stamps of a copy only get fewer.
LEMMA CopyType ==
  ASSUME job \in Jobs, NEW H, NEW F
  PROVE  [job EXCEPT !.holds = @ \ H, !.fresh = @ \ F] \in Jobs
  BY DEF Jobs

\* What they leave alone.
LEMMA GotoKeeps ==
  ASSUME job \in Jobs, NEW p \in Places, Goto(p)
  PROVE  /\ job'.pc = p /\ job'.kind = job.kind /\ job'.holds = job.holds
         /\ job'.fresh = job.fresh /\ job'.accepted = job.accepted
  BY DEF Goto, Jobs

\* It keeps its kind and what it holds, and has read nothing fresh.
LEMMA FailedKeeps ==
  ASSUME job \in Jobs, NEW e, Failed(e)
  PROVE  /\ job'.pc = "failed" /\ job'.kind = job.kind /\ job'.holds = job.holds
         /\ job'.fresh = {} /\ job'.accepted = job.accepted
  BY DEF Failed, Jobs

\* A command that is given up, and a status that follows it.
LEMMA DropType ==
  ASSUME RequestTypeOK, NEW k \in Commands
  PROVE  [desired EXCEPT ![k] = NoCommand] \in [Commands -> Desires]
  BY Parts DEF RequestTypeOK

\* What is put off is still a desire.
LEMMA DeferType ==
  ASSUME TypeOK, NEW retryable \in BOOLEAN, Defer(retryable), job.kind \in Commands
  PROVE  desired' \in [Commands -> Desires] /\ published' \in Published
  BY DropType DEF Defer, TypeOK, RequestTypeOK, WorkerTypeOK, Published

\* The types hold at power on.
LEMMA InitTypes == Init => TypeOK
  <1> SUFFICES ASSUME Init PROVE TypeOK
    OBVIOUS
  <1>1. EventTypeOK
    <2>1. \E scale \in BOOLEAN :
            shot = [on |-> FALSE, seen |-> FALSE, inhibit |-> FALSE, scale |-> scale]
      BY DEF Init
    <2>2. shot \in [on : BOOLEAN, seen : BOOLEAN, inhibit : BOOLEAN, scale : BOOLEAN]
      BY <2>1
    <2> QED
      BY <2>2, MicraAssumption DEF Init, EventTypeOK
  <1>2. RequestTypeOK
    BY Parts DEF Init, RequestTypeOK, NonePosted
  <1>3. WorkerTypeOK
    BY Parts DEF Init, WorkerTypeOK
  <1> QED
    BY <1>1, <1>2, <1>3 DEF TypeOK

(* Every step keeps the types. *)

\* The control task.
LEMMA ControlType == TypeOK /\ Control => TypeOK'
  <1> SUFFICES ASSUME TypeOK, Control PROVE TypeOK'
    OBVIOUS
  <1> USE DEF TypeOK
  <1>1. ASSUME NEW k \in Commands, NEW contended \in BOOLEAN, NEW v \in Values(k),
              Post(k, v, contended)
       PROVE  TypeOK'
    <2>1. EventTypeOK'
      BY <1>1 DEF Post, Event, EventTypeOK
    <2> DEFINE cs == [posted EXCEPT ![k] = v]
    <2>2. cs \in [Commands -> Vals]
      BY Parts DEF RequestTypeOK
    <2>3. CASE contended
      BY <1>1, <2>1, <2>2, <2>3 DEF Post, RequestTypeOK, WorkerTypeOK
    <2>4. CASE ~contended
      <3> HIDE DEF cs
      <3>1. QueueLocked(cs)
        BY <1>1, <2>4 DEF Post, cs
      <3>2. /\ desired' \in [Commands -> Desires] /\ abort' \in BOOLEAN
            /\ job' \in Jobs /\ published' \in Published
        BY <2>2, <3>1, QueueType
      <3> QED
        BY <1>1, <2>1, <2>4, <3>2, Parts DEF Post, RequestTypeOK, WorkerTypeOK
    <2> QED
      BY <2>3, <2>4
  <1>2. CASE ApplyPosted
    <2>1. QueueLocked(posted)
      BY <1>2 DEF ApplyPosted
    <2>2. desired' \in [Commands -> Desires] /\ abort' \in BOOLEAN /\ job' \in Jobs /\ published' \in Published
      BY <2>1, QueueType DEF RequestTypeOK
    <2>3. TypeOK'
      BY <1>2, <2>2, Parts DEF ApplyPosted, EventTypeOK, RequestTypeOK, WorkerTypeOK
    <2> QED
      BY <2>1, <2>2, <2>3
  <1>3. CASE ShotStarts
    <2>1. shot' \in [on : BOOLEAN, seen : BOOLEAN, inhibit : BOOLEAN, scale : BOOLEAN]
      BY <1>3 DEF ShotStarts, EventTypeOK
    <2>2. EventTypeOK' /\ RequestTypeOK'
      BY <1>3, <2>1 DEF ShotStarts, Event, EventTypeOK, RequestTypeOK
    <2>3. job' \in Jobs
      BY <1>3 DEF ShotStarts, WorkerTypeOK, Jobs
    <2>4. WorkerTypeOK'
      BY <1>3, <2>3 DEF ShotStarts, WorkerTypeOK
    <2> QED
      BY <2>1, <2>2, <2>3, <2>4
  <1>4. CASE InhibitCloud
    <2>1. EventTypeOK'
      BY <1>4 DEF InhibitCloud, EventTypeOK, Event
    <2>2. RequestTypeOK'
      BY <1>4 DEF InhibitCloud, RequestTypeOK, Commands, Desires
    <2>3. job' \in Jobs
      BY <1>4 DEF InhibitCloud, WorkerTypeOK, Jobs
    <2>4. WorkerTypeOK'
      BY <1>4, <2>3 DEF InhibitCloud, WorkerTypeOK
    <2> QED
      BY <2>1, <2>2, <2>3, <2>4
  <1>5. CASE ShotEnds
    <2>1. EventTypeOK' /\ RequestTypeOK'
      BY <1>5 DEF ShotEnds, EventTypeOK, RequestTypeOK
    <2>2. WorkerTypeOK'
      BY <1>5 DEF ShotEnds, WorkerTypeOK
    <2> QED
      BY <2>1, <2>2
  <1>6. ASSUME NEW contended \in BOOLEAN, PhysicalStart(contended)
       PROVE  TypeOK'
    <2>1. EventTypeOK'
      BY <1>6 DEF PhysicalStart, EventTypeOK, Event
    <2>2. RequestTypeOK'
      BY <1>6, DropType DEF PhysicalStart, RequestTypeOK, Commands
    <2>3. job' \in Jobs
      BY <1>6 DEF PhysicalStart, WorkerTypeOK, Jobs
    <2>4. WorkerTypeOK'
      BY <1>6, <2>3 DEF PhysicalStart, WorkerTypeOK
    <2> QED
      BY <2>1, <2>2, <2>3, <2>4
  <1> QED
    BY <1>1, <1>2, <1>3, <1>4, <1>5, <1>6 DEF Control

\* The network task.
LEMMA NetworkType == TypeOK /\ Network => TypeOK'
  <1> SUFFICES ASSUME TypeOK, Network PROVE TypeOK'
    OBVIOUS
  <1> USE DEF TypeOK
  <1>1. ASSUME NEW sta \in BOOLEAN, NetworkState(sta)
       PROVE  TypeOK'
    <2>1. EventTypeOK'
      BY <1>1 DEF NetworkState, EventTypeOK, Event
    <2>2. RequestTypeOK'
      BY <1>1, DropType DEF NetworkState, RequestTypeOK, Commands
    <2>3. job' \in Jobs
      BY <1>1 DEF NetworkState, WorkerTypeOK, Jobs
    <2>4. WorkerTypeOK'
      BY <1>1, <2>3 DEF NetworkState, WorkerTypeOK
    <2> QED
      BY <2>1, <2>2, <2>3, <2>4
  <1>2. ASSUME NEW c \in BOOLEAN, NEW a \in BOOLEAN, NEW o \in SUBSET Commands,
              PublishConfig(c, a, o)
       PROVE  TypeOK'
    <2>1. EventTypeOK'
      BY <1>2 DEF PublishConfig, Event, EventTypeOK
    <2>2. RequestTypeOK'
      BY <1>2, Parts DEF PublishConfig, RequestTypeOK
    <2>3. job' \in Jobs
      BY <1>2 DEF PublishConfig, WorkerTypeOK, Jobs
    <2>4. published' \in Published
      BY <1>2, Parts DEF PublishConfig, WorkerTypeOK, Published
    <2>5. WorkerTypeOK'
      BY <1>2, <2>3, <2>4 DEF PublishConfig, WorkerTypeOK
    <2> QED
      BY <2>1, <2>2, <2>3, <2>4, <2>5
  <1>3. CASE QueueConnect
    <2>1. EventTypeOK' /\ RequestTypeOK'
      BY <1>3 DEF QueueConnect, EventTypeOK, RequestTypeOK, Event
    <2>2. WorkerTypeOK'
      BY <1>3 DEF QueueConnect, WorkerTypeOK
    <2> QED
      BY <2>1, <2>2
  <1> QED
    BY <1>1, <1>2, <1>3 DEF Network

\* The socket.
LEMMA MachineType == TypeOK /\ Machine => TypeOK'
  <1> SUFFICES ASSUME TypeOK, Machine PROVE TypeOK'
    OBVIOUS
  <1> USE DEF TypeOK
  <1>1. ASSUME NEW busy \in BOOLEAN, Cleaning(busy)
       PROVE  TypeOK'
    <2>1. EventTypeOK' /\ RequestTypeOK'
      BY <1>1 DEF Cleaning, EventTypeOK, RequestTypeOK, Event
    <2>2. WorkerTypeOK'
      BY <1>1 DEF Cleaning, WorkerTypeOK
    <2> QED
      BY <2>1, <2>2
  <1>2. ASSUME NEW t \in Targets, NEW p \in Powers, Push(t, p)
       PROVE  TypeOK'
    <2>1. EventTypeOK' /\ RequestTypeOK'
      BY <1>2 DEF Push, EventTypeOK, RequestTypeOK, Event
    <2>2. job' \in Jobs
      BY <1>2 DEF Push, WorkerTypeOK, Jobs
    <2>3. WorkerTypeOK'
      BY <1>2, <2>2 DEF Push, WorkerTypeOK, Published
    <2> QED
      BY <2>1, <2>2, <2>3
  <1>3. CASE SocketLost
    <2>1. EventTypeOK' /\ RequestTypeOK'
      BY <1>3 DEF SocketLost, EventTypeOK, RequestTypeOK, Event
    <2>2. job' \in Jobs
      BY <1>3 DEF SocketLost, WorkerTypeOK, Jobs
    <2>3. WorkerTypeOK'
      BY <1>3, <2>2 DEF SocketLost, WorkerTypeOK
    <2> QED
      BY <2>1, <2>2, <2>3
  <1> QED
    BY <1>1, <1>2, <1>3 DEF Machine

\* The worker.
LEMMA WorkerType == TypeOK /\ Worker => TypeOK'
  <1> SUFFICES ASSUME TypeOK, Worker PROVE TypeOK'
    OBVIOUS
  <1> USE DEF TypeOK
  <1>1. CASE Finish
    <2>1. EventTypeOK' /\ RequestTypeOK'
      BY <1>1 DEF Finish, EventTypeOK, RequestTypeOK
    <2>2. WorkerTypeOK'
      BY <1>1, Parts DEF Finish, WorkerTypeOK, Top
    <2> QED
      BY <2>1, <2>2
  <1>2. CASE SelectNothing
    <2>1. EventTypeOK'
      BY <1>2 DEF SelectNothing, EventTypeOK
    <2>2. RequestTypeOK'
      BY <1>2, DropType DEF SelectNothing, RequestTypeOK, DropsOldPower, Commands
    <2>3. WorkerTypeOK'
      BY <1>2, Parts DEF SelectNothing, WorkerTypeOK, Top
    <2> QED
      BY <2>1, <2>2, <2>3
  <1>3. ASSUME NEW k \in Commands \cup {"observe", "connect"}, Select(k)
       PROVE  TypeOK'
    <2>1. EventTypeOK'
      BY <1>3 DEF Select, EventTypeOK
    <2>2. RequestTypeOK'
      BY <1>3, DropType DEF Select, RequestTypeOK, DropsOldPower, Commands
    <2>3. k \in Commands => desired[k].value \in Vals /\ desired[k].accepted \in BOOLEAN
      BY DEF RequestTypeOK, Desires
    <2>4. k \in Kinds /\ Counters(k) \in SUBSET Copies /\ Nothing \in Vals
      BY Parts DEF Kinds, Vals
    <2>5. \E v \in Vals, b \in BOOLEAN : job' = [NoJob EXCEPT !.pc = "gate", !.kind = k, !.holds = Counters(k), !.value = v, !.accepted = b]
      BY <1>3, <2>3, <2>4 DEF Select
    <2>6. job' \in Jobs
      BY <2>4, <2>5, Parts DEF Jobs, Places
    <2>7. WorkerTypeOK'
      BY <1>3, <2>6 DEF Select, WorkerTypeOK, Published
    <2> QED
      BY <2>1, <2>2, <2>3, <2>4, <2>5, <2>6, <2>7
  <1>4. CASE Gate
    <2>1. EventTypeOK'
      BY <1>4 DEF Gate, EventTypeOK
    <2>2. job' \in Jobs
      BY <1>4, GotoType DEF Gate, DeferObservation, Goto, WorkerTypeOK, Jobs, Places
    <2>3. desired' \in [Commands -> Desires] /\ published' \in Published
      BY <1>4, DeferType DEF Gate, RequestTypeOK, WorkerTypeOK, Commands
    <2>4. TypeOK'
      BY <1>4, <2>1, <2>2, <2>3 DEF Gate, DeferObservation, RequestTypeOK, WorkerTypeOK
    <2> QED
      BY <2>1, <2>2, <2>3, <2>4
  <1>5. CASE Session
    <2>1. EventTypeOK' /\ RequestTypeOK'
      BY <1>5 DEF Session, EventTypeOK, RequestTypeOK
    <2>2. job' \in Jobs
      BY <1>5, GotoType, FailedType DEF Session, WorkerTypeOK, Places, Exchange
    <2>3. WorkerTypeOK'
      BY <1>5, <2>2 DEF Session, WorkerTypeOK
    <2> QED
      BY <2>1, <2>2, <2>3
  <1>6. CASE Send
    <2>1. EventTypeOK' /\ RequestTypeOK'
      BY <1>6 DEF Send, EventTypeOK, RequestTypeOK
    <2>2. [job EXCEPT !.pc = "answer", !.attempted = TRUE, !.crossed = FALSE] \in Jobs
      BY DEF WorkerTypeOK, Jobs, Places, Exchange
    <2>3. [job EXCEPT !.pc = "failed", !.attempted = TRUE, !.error = "retry"] \in Jobs
      BY DEF WorkerTypeOK, Jobs, Places
    <2>4. WorkerTypeOK'
      BY <1>6, <2>2, <2>3 DEF Send, WorkerTypeOK
    <2> QED
      BY <2>1, <2>2, <2>3, <2>4
  <1>7. CASE Answer
    <2>1. EventTypeOK'
      BY <1>7 DEF Answer, EventTypeOK
    <2>2. job.kind \in Commands => [desired EXCEPT ![job.kind].taken = TRUE] \in [Commands -> Desires]
      BY DEF RequestTypeOK, Desires
    <2>3. RequestTypeOK'
      BY <1>7, <2>2 DEF Answer, RequestTypeOK
    <2>4. [job EXCEPT !.pc = "note", !.accepted = TRUE] \in Jobs
      BY DEF WorkerTypeOK, Jobs, Places, Exchange
    <2>5. \A err \in {"retry", "auth", "rejected"} :
            [job EXCEPT !.pc = "failed", !.error = err, !.crossed = FALSE] \in Jobs
      BY DEF WorkerTypeOK, Jobs, Places
    <2>6. WorkerTypeOK'
      BY <1>7, <2>4, <2>5 DEF Answer, WorkerTypeOK
    <2> QED
      BY <2>1, <2>2, <2>3, <2>4, <2>5, <2>6
  <1>8. CASE Note
    <2>1. EventTypeOK'
      BY <1>8 DEF Note, EventTypeOK
    <2>2. RequestTypeOK'
      BY <1>8 DEF Note, RequestTypeOK, Desires
    <2>3. job' \in Jobs
      BY <1>8 DEF Note, WorkerTypeOK, Jobs, Places, Exchange
    <2>4. WorkerTypeOK'
      BY <1>8, <2>3 DEF Note, WorkerTypeOK
    <2> QED
      BY <2>1, <2>2, <2>3, <2>4
  <1>9. CASE Read
    <2>1. EventTypeOK' /\ RequestTypeOK'
      BY <1>9 DEF Read, EventTypeOK, RequestTypeOK
    <2>2. job' \in Jobs
      BY <1>9, FailedType DEF Read, WorkerTypeOK, Jobs, Places, Exchange
    <2>3. WorkerTypeOK'
      BY <1>9, <2>2 DEF Read, WorkerTypeOK
    <2> QED
      BY <2>1, <2>2, <2>3
  <1>10. ASSUME NEW t \in Targets \cup {Nothing}, NEW p \in Powers, Reading(t, p)
       PROVE  TypeOK'
    <2>1. EventTypeOK' /\ RequestTypeOK'
      BY <1>10 DEF Reading, EventTypeOK, RequestTypeOK
    <2>2. job' \in Jobs
      BY <1>10 DEF Reading, Answers, WorkerTypeOK, Jobs, Places, Exchange
    <2>3. WorkerTypeOK'
      BY <1>10, <2>2 DEF Reading, WorkerTypeOK
    <2> QED
      BY <2>1, <2>2, <2>3
  <1>11. CASE ReadFails
    <2>1. EventTypeOK' /\ RequestTypeOK'
      BY <1>11 DEF ReadFails, EventTypeOK, RequestTypeOK
    <2>2. job' \in Jobs
      BY <1>11, FailedType DEF ReadFails, WorkerTypeOK
    <2>3. WorkerTypeOK'
      BY <1>11, <2>2 DEF ReadFails, WorkerTypeOK
    <2> QED
      BY <2>1, <2>2, <2>3
  <1>12. CASE Merge
    <2>1. EventTypeOK' /\ RequestTypeOK'
      BY <1>12 DEF Merge, EventTypeOK, RequestTypeOK
    <2>2. MergedPower \in Powers \cup {"UNKNOWN"} /\ MergedTarget \in Targets \cup {Nothing}
      BY DEF MergedPower, MergedTarget, WorkerTypeOK, Jobs, Answers, Published
    <2>3. published' \in Published
      BY <1>12, <2>2 DEF Merge, WorkerTypeOK, Published
    <2>4. [job EXCEPT !.pc = "settle", !.fresh = {}, !.answer = NoAnswer] \in Jobs
      BY Parts DEF WorkerTypeOK, Jobs, Places
    <2>5. job' \in Jobs
      BY <1>12, <2>4, FailedType DEF Merge, WorkerTypeOK
    <2>6. WorkerTypeOK'
      BY <1>12, <2>3, <2>5 DEF Merge, WorkerTypeOK
    <2> QED
      BY <2>1, <2>2, <2>3, <2>4, <2>5, <2>6
  <1>13. CASE Settle
    <2>1. EventTypeOK'
      BY <1>13 DEF Settle, EventTypeOK
    <2>2. RequestTypeOK'
      BY <1>13, DropType DEF Settle, RequestTypeOK, Commands
    <2>3. job' \in Jobs
      BY <1>13, GotoType DEF Settle, WorkerTypeOK, Places
    <2>4. WorkerTypeOK'
      BY <1>13, <2>3 DEF Settle, WorkerTypeOK, Published
    <2> QED
      BY <2>1, <2>2, <2>3, <2>4
  <1>14. CASE List
    <2>1. EventTypeOK' /\ RequestTypeOK'
      BY <1>14 DEF List, EventTypeOK, RequestTypeOK
    <2>2. job' \in Jobs
      BY <1>14, GotoType, FailedType DEF List, WorkerTypeOK, Places, Exchange
    <2>3. WorkerTypeOK'
      BY <1>14, <2>2 DEF List, WorkerTypeOK
    <2> QED
      BY <2>1, <2>2, <2>3
  <1>15. CASE Store
    <2>1. EventTypeOK' /\ RequestTypeOK'
      BY <1>15 DEF Store, EventTypeOK, RequestTypeOK
    <2>2. job' \in Jobs
      BY <1>15, GotoType DEF Store, WorkerTypeOK, Places
    <2>3. WorkerTypeOK'
      BY <1>15, <2>2 DEF Store, WorkerTypeOK, OfIdentity
    <2> QED
      BY <2>1, <2>2, <2>3
  <1>16. CASE AttemptFails
    <2>1. EventTypeOK'
      BY <1>16 DEF AttemptFails, EventTypeOK
    <2>2. job.tries + 1 \in Nat
      BY DEF WorkerTypeOK, Jobs
    <2>3. [job EXCEPT !.pc = "gate", !.tries = @ + 1] \in Jobs
      BY <2>2 DEF WorkerTypeOK, Jobs, Places
    <2>4. job' \in Jobs
      BY <1>16, <2>3, GotoType DEF AttemptFails, DeferObservation, WorkerTypeOK, Places
    <2>5. (job.accepted \/ job.error \notin {"auth", "rejected"}) \in BOOLEAN
      BY DEF WorkerTypeOK, Jobs
    <2>6. desired' \in [Commands -> Desires] /\ published' \in Published
      BY <1>16, <2>5, DeferType DEF AttemptFails, RequestTypeOK, WorkerTypeOK, Commands
    <2>7. pending' \in {Nothing, "observe", "connect"}
      BY <1>16 DEF AttemptFails, DeferObservation, RequestTypeOK
    <2>8. TypeOK'
      BY <1>16, <2>1, <2>4, <2>6, <2>7 DEF AttemptFails, RequestTypeOK, WorkerTypeOK
    <2> QED
      BY <2>1, <2>2, <2>3, <2>4, <2>5, <2>6, <2>7, <2>8
  <1> QED
    BY <1>1, <1>2, <1>3, <1>4, <1>5, <1>6, <1>7, <1>8, <1>9, <1>10, <1>11, <1>12, <1>13, <1>14, <1>15, <1>16 DEF Worker

\* Every step keeps them.
LEMMA TypeStep == TypeOK /\ [Next]_vars => TypeOK'
  <1>1. TypeOK /\ UNCHANGED vars => TypeOK'
    BY DEF vars, TypeOK, EventTypeOK, RequestTypeOK, WorkerTypeOK
  <1> QED
    BY <1>1, ControlType, NetworkType, MachineType, WorkerType DEF Next

\* The records of the service and of its worker stay what the code declares
\* (LaMarzoccoMicraService).
THEOREM TypeCorrect == Spec => []TypeOK
  BY InitTypes, TypeStep, PTL DEF Spec

-----------------------------------------------------------------------------
(* A shot cancels the command at the cloud. *)

\* A shot that begins is remembered until the worker has been told.
LEMMA CrossedStep == TypeOK /\ CrossedIsCanceled /\ [Next]_vars => CrossedIsCanceled'
  <1> SUFFICES ASSUME TypeOK /\ CrossedIsCanceled, [Next]_vars PROVE CrossedIsCanceled'
    OBVIOUS
  <1> USE DEF TypeOK, EventTypeOK, WorkerTypeOK, Jobs, CrossedIsCanceled
  <1>1. ASSUME NEW k \in Commands, NEW contended \in BOOLEAN, NEW v \in Values(k),
              Post(k, v, contended)
       PROVE  CrossedIsCanceled'
    BY <1>1 DEF Post, QueueLocked, Superseded
  <1>2. CASE ApplyPosted
    BY <1>2 DEF ApplyPosted, QueueLocked, Superseded
  <1>3. CASE ShotStarts
    BY <1>3 DEF ShotStarts
  <1>4. CASE InhibitCloud
    BY <1>4 DEF InhibitCloud
  <1>5. CASE ShotEnds
    BY <1>5 DEF ShotEnds, ControlIsFree
  <1>6. ASSUME NEW contended \in BOOLEAN, PhysicalStart(contended)
       PROVE  CrossedIsCanceled'
    BY <1>6 DEF PhysicalStart
  <1>7. ASSUME NEW sta \in BOOLEAN, NetworkState(sta)
       PROVE  CrossedIsCanceled'
    BY <1>7 DEF NetworkState
  <1>8. ASSUME NEW c \in BOOLEAN, NEW a \in BOOLEAN, NEW o \in SUBSET Commands,
              PublishConfig(c, a, o)
       PROVE  CrossedIsCanceled'
    BY <1>8 DEF PublishConfig
  <1>9. CASE QueueConnect
    BY <1>9 DEF QueueConnect
  <1>10. ASSUME NEW busy \in BOOLEAN, Cleaning(busy)
       PROVE  CrossedIsCanceled'
    BY <1>10 DEF Cleaning
  <1>11. ASSUME NEW t \in Targets, NEW p \in Powers, Push(t, p)
       PROVE  CrossedIsCanceled'
    BY <1>11 DEF Push
  <1>12. CASE SocketLost
    BY <1>12 DEF SocketLost
  <1>13. CASE Finish \/ SelectNothing
    BY <1>13 DEF Finish, SelectNothing, Top, NoJob
  <1>14. ASSUME NEW k \in Commands \cup {"observe", "connect"}, Select(k)
       PROVE  CrossedIsCanceled'
    BY <1>14 DEF Select, NoJob
  <1>15. CASE Gate
    BY <1>15 DEF Gate, DeferObservation, Goto
  <1>16. CASE Session
    BY <1>16 DEF Session, Goto, Failed
  <1>17. CASE Send
    BY <1>17 DEF Send
  <1>18. CASE Answer
    BY <1>18 DEF Answer, RequestAllowed, InShot
  <1>19. CASE Note
    BY <1>19 DEF Note
  <1>20. CASE Read \/ ReadFails
    BY <1>20 DEF Read, ReadFails, Failed
  <1>21. ASSUME NEW t \in Targets \cup {Nothing}, NEW p \in Powers, Reading(t, p)
       PROVE  CrossedIsCanceled'
    BY <1>21 DEF Reading
  <1>22. CASE Merge
    BY <1>22 DEF Merge, Failed
  <1>23. CASE Settle \/ List \/ Store
    BY <1>23 DEF Settle, List, Store, Goto, Failed
  <1>24. CASE AttemptFails
    BY <1>24 DEF AttemptFails, DeferObservation, Goto
  <1>25. CASE UNCHANGED vars
    BY <1>25 DEF vars
  <1> QED
    BY <1>1, <1>2, <1>3, <1>4, <1>5, <1>6, <1>7, <1>8, <1>9, <1>10, <1>11, <1>12, <1>13, <1>14, <1>15, <1>16, <1>17, <1>18, <1>19, <1>20, <1>21, <1>22, <1>23, <1>24, <1>25
    DEF Next, Control, Network, Machine, Worker

\* The answer to a command is not taken once a shot has begun since it was sent
\* (request, inhibitCloud): the worker checks the shot and the abort flag after
\* the exchange, and the control task raises the flag before it lets the shot end.
THEOREM ShotCancels == Spec => []ShotCancelsCommand
  <1>1. Init => CrossedIsCanceled
    BY DEF Init, NoJob, CrossedIsCanceled
  <1>2. CrossedIsCanceled => ShotCancelsCommand
    BY DEF CrossedIsCanceled, ShotCancelsCommand
  <1> QED
    BY <1>1, <1>2, TypeCorrect, TypeStep, CrossedStep, PTL DEF Spec

-----------------------------------------------------------------------------
(* Nothing of another identity. *)

\* A save that changes the identity is noticed by the execution it finds.
LEMMA IdentityStep == TypeOK /\ Identity /\ [Next]_vars => Identity'
  <1> SUFFICES ASSUME TypeOK /\ Identity, [Next]_vars PROVE Identity'
    OBVIOUS
  <1> USE DEF TypeOK, EventTypeOK, WorkerTypeOK, Jobs, Published, Identity, ShowsThisIdentity
  <1>1. ASSUME NEW k \in Commands, NEW contended \in BOOLEAN, NEW v \in Values(k),
              Post(k, v, contended)
       PROVE  Identity'
    BY <1>1 DEF Post, QueueLocked, Superseded
  <1>2. CASE ApplyPosted
    BY <1>2 DEF ApplyPosted, QueueLocked, Superseded
  <1>3. CASE ShotStarts
    BY <1>3 DEF ShotStarts
  <1>4. CASE InhibitCloud
    BY <1>4 DEF InhibitCloud
  <1>5. CASE ShotEnds
    BY <1>5 DEF ShotEnds
  <1>6. ASSUME NEW contended \in BOOLEAN, PhysicalStart(contended)
       PROVE  Identity'
    BY <1>6 DEF PhysicalStart
  <1>7. ASSUME NEW sta \in BOOLEAN, NetworkState(sta)
       PROVE  Identity'
    BY <1>7 DEF NetworkState
  <1>8. ASSUME NEW c \in BOOLEAN, NEW a \in BOOLEAN, NEW o \in SUBSET Commands,
              PublishConfig(c, a, o)
       PROVE  Identity'
    BY <1>8 DEF PublishConfig, CancelsExecution, NoStatus
  <1>9. CASE QueueConnect
    BY <1>9 DEF QueueConnect
  <1>10. ASSUME NEW busy \in BOOLEAN, Cleaning(busy)
       PROVE  Identity'
    BY <1>10 DEF Cleaning
  <1>11. ASSUME NEW t \in Targets, NEW p \in Powers, Push(t, p)
       PROVE  Identity'
    BY <1>11 DEF Push
  <1>12. CASE SocketLost
    BY <1>12 DEF SocketLost
  <1>13. CASE Finish \/ SelectNothing
    BY <1>13 DEF Finish, SelectNothing, Top, NoJob
  <1>14. ASSUME NEW k \in Commands \cup {"observe", "connect"}, Select(k)
       PROVE  Identity'
    BY <1>14 DEF Select, NoJob, Counters, Commands
  <1>15. CASE Gate
    BY <1>15 DEF Gate, DeferObservation, Defer, Goto
  <1>16. CASE Session
    <2> DEFINE ready == CASE job.kind = "connect" -> "list"
                          [] job.kind = "observe" -> "read"
                          [] OTHER -> IF ~Current THEN "failed"
                                      ELSE IF job.accepted THEN "read" ELSE "send"
    <2>1. \/ \E p \in Places : Goto(p) /\ (p = "list" => job.kind = "connect") /\ p # "store"
          \/ \E e \in {"retry", "auth"} : Failed(e)
      <3>1. Goto(ready) \/ \E e \in {"retry", "auth"} : Failed(e)
        BY <1>16, Zenon DEF Session
      <3>2. /\ ready \in {"list", "read", "failed", "send"}
            /\ ready = "list" => job.kind = "connect"
        OBVIOUS
      <3> HIDE DEF ready
      <3>3. ready \in Places /\ ready # "store"
        BY <3>2 DEF Places, Exchange
      <3> QED
        BY <3>1, <3>2, <3>3
    <2> QED
      BY <1>16, <2>1, GotoKeeps, FailedKeeps DEF Session
  <1>17. CASE Send
    <2>1. /\ job'.pc \in {"answer", "failed"}
          /\ job'.holds = job.holds /\ job'.fresh = job.fresh
      <3>1. \/ job' = [job EXCEPT !.pc = "answer", !.attempted = TRUE, !.crossed = FALSE]
            \/ job' = [job EXCEPT !.pc = "failed", !.attempted = TRUE, !.error = "retry"]
        BY <1>17, Zenon DEF Send
      <3> QED
        BY <3>1
    <2> QED
      BY <1>17, <2>1 DEF Send
  <1>18. CASE Answer
    <2>1. /\ job'.pc \in {"note", "failed"}
          /\ job'.holds = job.holds /\ job'.fresh = job.fresh
      BY <1>18 DEF Answer
    <2> QED
      BY <1>18, <2>1 DEF Answer
  <1>19. CASE Note
    BY <1>19 DEF Note
  <1>20. CASE Read
    <2>1. CASE RequestAllowed
      BY <1>20, <2>1 DEF Read, RequestAllowed
    <2>2. CASE ~RequestAllowed
      BY <1>20, <2>2, FailedKeeps DEF Read
    <2> QED
      BY <2>1, <2>2
  <1>21. CASE ReadFails
    BY <1>21 DEF ReadFails, Failed
  <1>22. ASSUME NEW t \in Targets \cup {Nothing}, NEW p \in Powers, Reading(t, p)
       PROVE  Identity'
    BY <1>22 DEF Reading
  <1>23. CASE Merge
    <2>1. /\ job'.pc \in {"settle", "failed"}
          /\ job'.holds = job.holds /\ job'.fresh = {}
      BY <1>23, FailedKeeps DEF Merge
    <2>2. published'.mine
      BY <1>23 DEF Merge
    <2> QED
      BY <1>23, <2>1, <2>2 DEF Merge
  <1>24. CASE Settle
    BY <1>24 DEF Settle, Goto
  <1>25. CASE List \/ Store
    BY <1>25 DEF List, Store, OfIdentity, Current, Commands, Goto, Failed
  <1>26. CASE AttemptFails
    BY <1>26 DEF AttemptFails, DeferObservation, Defer, Goto
  <1>27. CASE UNCHANGED vars
    BY <1>27 DEF vars
  <1> QED
    BY <1>1, <1>2, <1>3, <1>4, <1>5, <1>6, <1>7, <1>8, <1>9, <1>10, <1>11, <1>12, <1>13, <1>14, <1>15, <1>16, <1>17, <1>18, <1>19, <1>20, <1>21, <1>22, <1>23, <1>24, <1>25, <1>26, <1>27
    DEF Next, Control, Network, Machine, Worker

\* What is published, and the machines that are offered, are of the configured
\* identity (publishConfig, MicraObservationFence::merge, listMachines): a stamp is
\* taken only by an execution that is not aborted, and a save takes the identity
\* and the epoch from it.
THEOREM ShowsIdentity == Spec => []ShowsThisIdentity
  <1>1. Init => Identity
    BY DEF Init, NoJob, NoStatus, Identity, ShowsThisIdentity
  <1>2. Identity => ShowsThisIdentity
    BY DEF Identity
  <1> QED
    BY <1>1, <1>2, TypeCorrect, IdentityStep, PTL DEF Spec

-----------------------------------------------------------------------------
(* An accepted command is sent once. *)

\* Most steps keep or drop a desire and leave the copy of the request alone.
LEMMA FrameStep ==
  ASSUME TypeOK, Acceptance,
         \A k \in Commands : desired'[k] \in {desired[k], NoCommand},
         job'.kind = job.kind, job'.accepted = job.accepted,
         \A i \in {"request", "shot"} : i \in job'.holds <=> i \in job.holds,
         \/ job'.pc = job.pc
         \/ /\ job.pc \notin {"select", "note"} /\ job'.pc \notin {"select", "answer", "note"}
            /\ job'.pc = "send" => ~job.accepted /\ job.kind \in Commands
  PROVE  Acceptance'
  BY DEF Acceptance, Known, Served, Remembering, NoCommand

\* A command that is taken replaces the desire, and its copy is no longer it.
LEMMA QueueStep ==
  ASSUME TypeOK, Acceptance, NEW cs \in [Commands -> Vals], QueueLocked(cs)
  PROVE  Acceptance'
  <1>1. /\ job'.pc = job.pc /\ job'.kind = job.kind /\ job'.accepted = job.accepted
        /\ job'.holds = IF job.kind \in Taken(cs) THEN job.holds \ {"request"} ELSE job.holds
    BY DEF QueueLocked, Superseded, TypeOK, WorkerTypeOK, Jobs
  <1>2. ASSUME NEW k \in Commands
        PROVE  /\ k \in Taken(cs) => desired'[k] = Command(cs[k])
               /\ k \notin Taken(cs) => desired'[k] = desired[k]
    BY DEF QueueLocked, Queue, Taken
  <1>3. ASSUME NEW k \in Commands
        PROVE  /\ Known(k)' /\ Served(k)'
               /\ desired'[k].taken => desired'[k].value # Nothing
    <2>1. CASE k \in Taken(cs)
      <3>1. desired'[k].taken = FALSE
        <4>1. \A v : Command(v).taken = FALSE
          BY DEF Command
        <4>2. desired'[k] = Command(cs[k])
          BY <1>2, <2>1
        <4> QED
          BY <4>1, <4>2
      <3>2. job'.kind = k => "request" \notin job'.holds
        BY <1>1, <2>1
      <3> QED
        BY <3>1, <3>2 DEF Known, Served
    <2>2. CASE k \notin Taken(cs)
      BY <1>1, <1>2, <2>2 DEF Acceptance, Known, Served, Remembering
    <2> QED
      BY <2>1, <2>2
  <1> QED
    BY <1>1, <1>3 DEF Acceptance

\* Who serves a command knows whether the cloud has accepted it.
LEMMA AcceptanceStep == TypeOK /\ Acceptance /\ [Next]_vars => Acceptance'
  <1> SUFFICES ASSUME TypeOK /\ Acceptance, [Next]_vars PROVE Acceptance'
    OBVIOUS
  <1> USE DEF TypeOK, EventTypeOK, WorkerTypeOK, Jobs
  <1>1. ASSUME NEW k \in Commands, NEW contended \in BOOLEAN, NEW v \in Values(k),
              Post(k, v, contended)
       PROVE  Acceptance'
    <2>1. CASE contended
      BY <1>1, <2>1, FrameStep DEF Post
    <2>2. CASE ~contended
      <3>1. [posted EXCEPT ![k] = v] \in [Commands -> Vals]
        BY Parts DEF RequestTypeOK
      <3> QED
        BY <1>1, <2>2, <3>1, QueueStep DEF Post
    <2> QED
      BY <2>1, <2>2
  <1>2. CASE ApplyPosted
    BY <1>2, QueueStep DEF ApplyPosted, RequestTypeOK
  <1>3. CASE ShotStarts
    <2>1. /\ job'.pc = job.pc /\ job'.kind = job.kind
          /\ job'.holds = job.holds /\ job'.accepted = job.accepted
      BY <1>3 DEF ShotStarts
    <2> QED
      BY <1>3, <2>1, FrameStep DEF ShotStarts
  <1>4. CASE InhibitCloud
    <2>1. /\ job'.pc = job.pc /\ job'.kind = job.kind
          /\ job'.holds = job.holds \ {"shot"} /\ job'.accepted = job.accepted
      BY <1>4 DEF InhibitCloud
    <2>2. ASSUME NEW k \in Commands
          PROVE  /\ desired'[k].taken = desired[k].taken /\ desired'[k].value = desired[k].value
                 /\ desired'[k].accepted = desired[k].accepted
                 /\ desired'[k].current = (desired[k].current /\ k # "power")
      BY <1>4 DEF InhibitCloud, RequestTypeOK, Desires
    <2> QED
      BY <2>1, <2>2 DEF Acceptance, Known, Served, Remembering
  <1>5. CASE ShotEnds
    BY <1>5, FrameStep DEF ShotEnds
  <1>6. ASSUME NEW contended \in BOOLEAN, PhysicalStart(contended)
       PROVE  Acceptance'
    <2>1. /\ job'.pc = job.pc /\ job'.kind = job.kind
          /\ job'.holds = job.holds /\ job'.accepted = job.accepted
      BY <1>6 DEF PhysicalStart
    <2>2. \A k \in Commands : desired'[k] \in {desired[k], NoCommand}
      BY <1>6 DEF PhysicalStart, RequestTypeOK, Commands
    <2> QED
      BY <2>1, <2>2, FrameStep
  <1>7. ASSUME NEW sta \in BOOLEAN, NetworkState(sta)
       PROVE  Acceptance'
    <2>1. /\ job'.pc = job.pc /\ job'.kind = job.kind
          /\ job'.holds = job.holds /\ job'.accepted = job.accepted
      BY <1>7 DEF NetworkState
    <2>2. \A k \in Commands : desired'[k] \in {desired[k], NoCommand}
      BY <1>7 DEF NetworkState, RequestTypeOK, Commands
    <2> QED
      BY <2>1, <2>2, FrameStep
  <1>8. ASSUME NEW c \in BOOLEAN, NEW a \in BOOLEAN, NEW o \in SUBSET Commands,
              PublishConfig(c, a, o)
       PROVE  Acceptance'
    <2>1. /\ job'.pc = job.pc /\ job'.kind = job.kind /\ job'.accepted = job.accepted
          /\ \A i \in {"request", "shot"} : i \in job'.holds <=> i \in job.holds
      BY <1>8 DEF PublishConfig
    <2>2. \A k \in Commands : desired'[k] \in {desired[k], NoCommand}
      BY <1>8 DEF PublishConfig, RequestTypeOK
    <2> QED
      BY <2>1, <2>2, FrameStep
  <1>9. CASE QueueConnect
    BY <1>9, FrameStep DEF QueueConnect
  <1>10. ASSUME NEW busy \in BOOLEAN, Cleaning(busy)
       PROVE  Acceptance'
    BY <1>10, FrameStep DEF Cleaning
  <1>11. ASSUME NEW t \in Targets, NEW p \in Powers, Push(t, p)
       PROVE  Acceptance'
    <2>1. /\ job'.pc = job.pc /\ job'.kind = job.kind
          /\ job'.holds = job.holds /\ job'.accepted = job.accepted
      BY <1>11 DEF Push
    <2> QED
      BY <1>11, <2>1, FrameStep DEF Push
  <1>12. CASE SocketLost
    <2>1. /\ job'.pc = job.pc /\ job'.kind = job.kind
          /\ job'.holds = job.holds /\ job'.accepted = job.accepted
      BY <1>12 DEF SocketLost
    <2> QED
      BY <1>12, <2>1, FrameStep DEF SocketLost
  <1>13. CASE Finish \/ SelectNothing
    <2>1. \A k \in Commands : desired'[k] \in {desired[k], NoCommand}
      BY <1>13 DEF Finish, SelectNothing, DropsOldPower, RequestTypeOK, Commands
    <2>2. job.pc # "note" /\ job' = NoJob
      BY <1>13 DEF Finish, SelectNothing, Top
    <2>3. NoJob.kind = Nothing /\ NoJob.pc = "select" /\ NoJob.kind \notin Commands
      BY DEF NoJob, Nothing, Commands
    <2> QED
      BY <2>1, <2>2, <2>3 DEF Acceptance, Known, Served, Remembering, NoCommand
  <1>14. ASSUME NEW k \in Commands \cup {"observe", "connect"}, Select(k)
       PROVE  Acceptance'
    <2>1. \A i \in Commands : desired'[i] \in {desired[i], NoCommand}
      BY <1>14 DEF Select, DropsOldPower, RequestTypeOK, Commands
    <2>2. job.pc = "select" /\ job.kind = Nothing
      BY <1>14 DEF Select, Acceptance
    <2>3. /\ job'.pc = "gate" /\ job'.kind = k /\ job'.holds = Counters(k)
          /\ job'.accepted = (k \in Commands /\ desired[k].accepted)
      BY <1>14 DEF Select, NoJob
    <2>4. k = "power" => desired[k].current
      BY <1>14 DEF Select, Selectable, PowerIsCurrent, RequestTypeOK, Nothing
    <2>5. k = "power" => "shot" \in Counters(k)
      BY DEF Counters
    <2>6. ASSUME NEW i \in Commands
          PROVE  /\ Known(i)' /\ Served(i)'
                 /\ desired'[i].taken => desired'[i].value # Nothing
      <3>1. CASE desired'[i] = NoCommand
        BY <3>1 DEF Known, Served, NoCommand
      <3>2. CASE desired'[i] = desired[i]
        BY <2>2, <2>3, <2>4, <2>5, <3>2 DEF Acceptance, Known, Served, Remembering
      <3> QED
        BY <2>1, <3>1, <3>2
    <2>7. k # Nothing
      BY DEF Commands, Nothing
    <2> QED
      BY <2>3, <2>6, <2>7 DEF Acceptance
  <1>15. CASE Gate
    <2>1. /\ job.pc = "gate" /\ job'.pc \in {"finish", "session"} /\ job'.kind = job.kind
          /\ job'.holds = job.holds /\ job'.accepted = job.accepted
      BY <1>15, GotoKeeps DEF Gate, DeferObservation, Places
    <2>2. \A k \in Commands : desired'[k] \in {desired[k], NoCommand}
      BY <1>15 DEF Gate, Defer, RequestTypeOK
    <2> QED
      BY <2>1, <2>2, FrameStep
  <1>16. CASE Session
    <2>1. \/ \E p \in {"list", "read", "failed", "send"} :
               Goto(p) /\ (p = "send" => ~job.accepted /\ job.kind \in Commands)
          \/ \E e \in {"retry", "auth"} : Failed(e)
      <3>1. job.kind \notin {"connect", "observe"} /\ Current => job.kind \in Commands
        BY <1>16 DEF Session, Acceptance, Kinds
      <3> QED
        BY <1>16, <3>1 DEF Session
    <2>2. /\ job'.kind = job.kind /\ job'.holds = job.holds /\ job'.accepted = job.accepted
          /\ job'.pc \in {"list", "read", "failed", "send"}
          /\ job'.pc = "send" => ~job.accepted /\ job.kind \in Commands
      BY <2>1, GotoKeeps, FailedKeeps DEF Places, Exchange
    <2> QED
      BY <1>16, <2>2, FrameStep DEF Session
  <1>17. CASE Send
    <2>1. /\ job'.pc \in {"answer", "failed"} /\ job'.kind = job.kind
          /\ job'.holds = job.holds /\ job'.accepted = job.accepted
      <3>1. \/ job' = [job EXCEPT !.pc = "answer", !.attempted = TRUE, !.crossed = FALSE]
            \/ job' = [job EXCEPT !.pc = "failed", !.attempted = TRUE, !.error = "retry"]
        BY <1>17, Zenon DEF Send
      <3> QED
        BY <3>1
    <2> QED
      BY <1>17, <2>1 DEF Send, Acceptance, Known, Served, Remembering
  <1>18. CASE Answer
    <2>1. CASE job'.pc = "note"
      <3>1. /\ job'.kind = job.kind /\ job'.holds = job.holds /\ job'.accepted = TRUE
            /\ desired' = IF SameRequest THEN [desired EXCEPT ![job.kind].taken = TRUE] ELSE desired
        BY <1>18, <2>1 DEF Answer
      <3>2. ASSUME NEW k \in Commands
            PROVE  /\ desired'[k].value = desired[k].value /\ desired'[k].current = desired[k].current
                   /\ desired'[k].accepted = desired[k].accepted
                   /\ desired'[k].taken => desired[k].taken \/ (k = job.kind /\ SameRequest)
        BY <3>1 DEF RequestTypeOK, Desires
      <3> QED
        BY <1>18, <2>1, <3>1, <3>2 DEF Answer, Acceptance, Known, Served, Remembering, SameRequest
    <2>2. CASE job'.pc = "failed"
      <3>1. /\ job'.kind = job.kind /\ job'.holds = job.holds
            /\ job'.accepted = job.accepted /\ desired' = desired
        BY <1>18, <2>2 DEF Answer
      <3> QED
        BY <1>18, <2>2, <3>1 DEF Answer, Acceptance, Known, Served, Remembering
    <2>3. job'.pc \in {"note", "failed"}
      BY <1>18 DEF Answer
    <2> QED
      BY <2>1, <2>2, <2>3
  <1>19. CASE Note
    <2>1. /\ job'.pc \in {"read", "failed"} /\ job'.kind = job.kind
          /\ job'.holds = job.holds /\ job'.accepted = job.accepted
      BY <1>19 DEF Note
    <2>2. ASSUME NEW k \in Commands
          PROVE  /\ desired'[k].value = desired[k].value /\ desired'[k].current = desired[k].current
                 /\ desired'[k].taken = desired[k].taken
                 /\ desired[k].accepted => desired'[k].accepted
                 /\ k = job.kind /\ Remembered => desired'[k].accepted
      BY <1>19 DEF Note, RequestTypeOK, Desires
    <2> QED
      BY <1>19, <2>1, <2>2 DEF Note, Acceptance, Known, Served, Remembering, Remembered, SameRequest
  <1>20. CASE Read \/ ReadFails
    <2>1. /\ job.pc \in {"read", "reading"} /\ job'.pc \in {"reading", "failed"}
          /\ job'.kind = job.kind /\ job'.holds = job.holds /\ job'.accepted = job.accepted
      <3>1. CASE Read /\ RequestAllowed
        BY <3>1 DEF Read
      <3>2. CASE Read /\ ~RequestAllowed
        BY <3>2, FailedKeeps DEF Read
      <3>3. CASE ReadFails
        BY <3>3, FailedKeeps DEF ReadFails
      <3> QED
        BY <1>20, <3>1, <3>2, <3>3
    <2> QED
      BY <1>20, <2>1, FrameStep DEF Read, ReadFails
  <1>21. ASSUME NEW t \in Targets \cup {Nothing}, NEW p \in Powers, Reading(t, p)
       PROVE  Acceptance'
    <2>1. /\ job'.pc = "merge" /\ job'.kind = job.kind
          /\ job'.holds = job.holds /\ job'.accepted = job.accepted
      BY <1>21 DEF Reading
    <2> QED
      BY <1>21, <2>1, FrameStep DEF Reading
  <1>22. CASE Merge
    <2>1. /\ job'.pc \in {"settle", "failed"} /\ job'.kind = job.kind
          /\ job'.holds = job.holds /\ job'.accepted = job.accepted
      BY <1>22, FailedKeeps DEF Merge
    <2> QED
      BY <1>22, <2>1, FrameStep DEF Merge
  <1>23. CASE Settle
    <2>1. /\ job'.pc = "finish" /\ job'.kind = job.kind
          /\ job'.holds = job.holds /\ job'.accepted = job.accepted
      BY <1>23, GotoKeeps DEF Settle, Places
    <2>2. \A k \in Commands : desired'[k] \in {desired[k], NoCommand}
      BY <1>23 DEF Settle, RequestTypeOK
    <2> QED
      BY <1>23, <2>1, <2>2, FrameStep DEF Settle
  <1>24. CASE List \/ Store
    <2>1. /\ job.pc \in {"list", "store"} /\ job'.pc \in {"store", "failed", "finish"}
          /\ job'.kind = job.kind /\ job'.holds = job.holds /\ job'.accepted = job.accepted
      BY <1>24, GotoKeeps, FailedKeeps DEF List, Store, Places, Exchange
    <2> QED
      BY <1>24, <2>1, FrameStep DEF List, Store
  <1>25. CASE AttemptFails
    <2>1. /\ job.pc = "failed" /\ job'.pc \in {"finish", "gate"} /\ job'.kind = job.kind
          /\ job'.holds = job.holds /\ job'.accepted = job.accepted
      <3>1. \/ Goto("finish") \/ job' = [job EXCEPT !.pc = "gate", !.tries = job.tries + 1]
        BY <1>25 DEF AttemptFails, DeferObservation
      <3> QED
        BY <1>25, <3>1, GotoKeeps DEF AttemptFails, Places
    <2>2. \A k \in Commands : desired'[k] \in {desired[k], NoCommand}
      BY <1>25 DEF AttemptFails, Defer, RequestTypeOK
    <2> QED
      BY <2>1, <2>2, FrameStep
  <1>26. CASE UNCHANGED vars
    BY <1>26 DEF vars, Acceptance, Known, Served, Remembering
  <1> QED
    BY <1>1, <1>2, <1>3, <1>4, <1>5, <1>6, <1>7, <1>8, <1>9, <1>10, <1>11, <1>12, <1>13, <1>14, <1>15, <1>16, <1>17, <1>18, <1>19, <1>20, <1>21, <1>22, <1>23, <1>24, <1>25, <1>26
    DEF Next, Control, Network, Machine, Worker

\* A command that the cloud has accepted is not sent again, whatever interrupts the
\* execution that sent it (executeTemperatureApplication, executePowerApplication):
\* the acceptance is noted with the request even when it has become a power command
\* of a past shot, and an execution that copied it only reads the dashboard.
THEOREM AcceptedOnce == Spec => AcceptedIsSentOnce
  <1>1. Init => Acceptance
    BY DEF Init, NoJob, NoCommands, NoCommand, Commands, Nothing, Acceptance, Known, Served
  <1>2. Acceptance => (job.pc = "send" /\ job'.pc = "answer" /\ SameRequest
                       => ~desired[job.kind].taken)
    BY DEF Acceptance, Served, SameRequest
  <1> QED
    BY <1>1, <1>2, TypeCorrect, AcceptanceStep, PTL DEF Spec, AcceptedIsSentOnce
=============================================================================
