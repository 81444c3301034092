------------------------------ MODULE ScaleProofs ------------------------------
(* Theorems about the Bluetooth scale and about the sounds of the firmware, for every *)
(* value of their constants, each from an inductive invariant of its own:             *)
(*                                                                                   *)
(*   - the commands to the scale: a command is for its connection and its shot, and   *)
(*     a scale that was told to power off is left alone;                              *)
(*   - the choice of a scale: the remembered one is in flash or on its way there;     *)
(*   - the buzzer: an alert that waits is the next to sound;                          *)
(*   - the Bluetooth client: every link has an owner, the quiet time after a link is  *)
(*     kept, and a command reported as done was acknowledged.                         *)
EXTENDS ScaleCommands, ScaleDiscovery, Buzzer, ScaleClient, Integers, TLAPS

-----------------------------------------------------------------------------
(* The commands to the scale. *)

SessionFields == {"id", "active", "queued", "settled", "started", "due", "requested", "inQueue",
                  "stop", "attempts", "window"}
Places == {"tick", "clear", "take", "off", "offwrite", "admit", "write", "report", "event"}
Jobs(kinds) == [kind : kinds, cycle : Nat, gen : Nat]
QueueJobs == Jobs({"start", "stop", "tare"})
ScaleStates == [up : BOOLEAN, timer : Nat, told : BOOLEAN]
Links == [state : {"CONNECTED", "DISCONNECTED"}, gen : Nat, disc : Nat]
Powers == [pending : Nat, blocked : Nat, sent : BOOLEAN]
WriteOps == {"only", "combined", "reset", "timer", "tare"}
Workers == [pc : Places, job : Jobs({"start", "stop", "tare"} \cup AllBeeps), op : WriteOps, clear : Nat,
            back : {"tick", "take", "event"}, result : {"none", "ok", "failed", "skipped"}]
IsSession(s) == s = [f \in SessionFields |-> s[f]] /\ s.id \in Nat

CommandTypeOK ==
    /\ bound \in Bounds /\ scale \in ScaleStates /\ link \in Links /\ queue \in Seq(QueueJobs)
    /\ mail \in [Beeps -> Nat] /\ power \in Powers /\ worker \in Workers
    /\ IsSession(session) /\ caller \in Nat

\* No STOP of a shot waits behind the START of a later one, and none of the shots is
\* later than the one of the control task.
Sound(q, c) ==
    /\ q \in Seq(QueueJobs)
    /\ \A i \in 1..Len(q) : q[i].cycle <= c
    /\ \A i, j \in 1..Len(q) :
           i < j /\ q[i].kind = "start" /\ q[j].kind = "stop" => q[i].cycle <= q[j].cycle

\* Every STOP that waits is of the shot c or of a later one.
After(c, q) == \A i \in 1..Len(q) : q[i].kind = "stop" => c <= q[i].cycle

\* The job under way, between the moment it is taken and its write.
InHand == worker.pc \in {"admit", "write"}
Order ==
    /\ Sound(queue, session.id) /\ scale.timer <= session.id /\ After(scale.timer, queue)
    /\ InHand =>
         /\ worker.job.cycle <= session.id
         /\ worker.job.kind = "start" => After(worker.job.cycle, queue)
         /\ worker.job.kind = "stop" => scale.timer <= worker.job.cycle
         /\ worker.job.kind \notin AllBeeps => worker.job.gen = link.gen

\* The generations: what is blocked and what is asked for is no later than the
\* link, and a request that read an earlier link finds the present one unblocked.
Generation ==
    /\ link.gen <= MaxGenerations /\ (scale.up /\ ~Connected => link.gen < MaxGenerations)
    /\ Connected => link.gen # 0
    /\ power.blocked <= link.gen /\ caller <= link.gen
    /\ caller # 0 /\ caller # link.gen => power.blocked # link.gen
    /\ power.pending # 0 => power.pending = power.blocked
    /\ worker.pc = "clear" => worker.clear = IF Connected THEN link.gen ELSE 0
    /\ InHand => Connected

\* A scale that was told to power off is blocked, and nothing is being written to it.
Told ==
    /\ worker.pc \in {"off", "offwrite"} => Connected /\ power.blocked = link.gen
    /\ scale.told => scale.up /\ Connected /\ power.blocked = link.gen
    /\ worker.pc = "write" => ~scale.told

CommandInv == CommandTypeOK /\ Order /\ Generation /\ Told

-----------------------------------------------------------------------------
(* The queue. *)

\* The entries of the queue are jobs.
LEMMA Elements ==
    ASSUME NEW q \in Seq(QueueJobs), NEW i \in 1..Len(q)
    PROVE  q[i] \in QueueJobs /\ q[i].cycle \in Nat
  <1>1. q[i] \in QueueJobs
    OBVIOUS
  <1> QED
    BY <1>1 DEF QueueJobs, Jobs

\* A STOP of the present shot may go to the front of the queue.
LEMMA InFront ==
    ASSUME NEW q, NEW c \in Nat, Sound(q, c), NEW job \in QueueJobs,
           job.cycle = c, job.kind = "stop", NEW t \in Nat, t <= c, After(t, q)
    PROVE  Sound(<<job>> \o q, c) /\ After(t, <<job>> \o q)
  <1> DEFINE r == <<job>> \o q
  <1>1. /\ r \in Seq(QueueJobs) /\ Len(r) = Len(q) + 1 /\ r[1] = job
        /\ \A i \in 2..(Len(q) + 1) : r[i] = q[i - 1]
    BY DEF Sound
  <1> HIDE DEF r
  <1>2. \A i \in 1..Len(r) : i = 1 \/ (i - 1 \in 1..Len(q) /\ r[i] = q[i - 1])
    BY <1>1 DEF Sound
  <1>3. ASSUME NEW i \in 1..Len(r) PROVE r[i].cycle <= c
    BY <1>1, <1>2 DEF Sound
  <1>4. ASSUME NEW i \in 1..Len(r), NEW j \in 1..Len(r), i < j, r[i].kind = "start",
               r[j].kind = "stop"
        PROVE  r[i].cycle <= r[j].cycle
    <2>1. i # 1 /\ j # 1
      BY <1>1, <1>4
    <2>2. /\ i - 1 \in 1..Len(q) /\ j - 1 \in 1..Len(q) /\ i - 1 < j - 1
          /\ r[i] = q[i - 1] /\ r[j] = q[j - 1]
      BY <1>2, <1>4, <2>1
    <2>3. q[i - 1].kind = "start" /\ q[j - 1].kind = "stop"
      BY <1>4, <2>2
    <2> QED
      BY <2>2, <2>3 DEF Sound
  <1>5. After(t, r)
    BY <1>1, <1>2 DEF After
  <1> QED
    BY <1>1, <1>3, <1>4, <1>5 DEF Sound, r

\* A job of the present shot may go behind the others.
LEMMA Behind ==
    ASSUME NEW q, NEW c \in Nat, Sound(q, c), NEW job \in QueueJobs, job.cycle = c,
           NEW t \in Nat, t <= c, After(t, q)
    PROVE  Sound(Append(q, job), c) /\ After(t, Append(q, job))
  <1> DEFINE r == Append(q, job)
  <1>1. /\ r \in Seq(QueueJobs) /\ Len(r) = Len(q) + 1 /\ r[Len(q) + 1] = job
        /\ \A i \in 1..Len(q) : r[i] = q[i]
    BY DEF Sound
  <1> HIDE DEF r
  <1>2. \A i \in 1..Len(r) : i = Len(q) + 1 \/ (i \in 1..Len(q) /\ r[i] = q[i])
    BY <1>1 DEF Sound
  <1>3. ASSUME NEW i \in 1..Len(r) PROVE r[i].cycle <= c
    BY <1>1, <1>2 DEF Sound
  <1>4. ASSUME NEW i \in 1..Len(r), NEW j \in 1..Len(r), i < j, r[i].kind = "start",
               r[j].kind = "stop"
        PROVE  r[i].cycle <= r[j].cycle
    <2>1. i \in 1..Len(q) /\ r[i] = q[i]
      BY <1>1, <1>2, <1>4 DEF Sound
    <2>2. CASE j \in 1..Len(q) /\ r[j] = q[j]
      BY <1>4, <2>1, <2>2 DEF Sound
    <2>3. CASE j = Len(q) + 1
      BY <1>1, <2>1, <2>3 DEF Sound
    <2> QED
      BY <1>2, <2>2, <2>3
  <1>5. After(t, r)
    BY <1>1, <1>2 DEF After
  <1> QED
    BY <1>1, <1>3, <1>4, <1>5 DEF Sound, r

\* The next command is taken: a STOP is of no earlier shot than what was sent.
LEMMA Taken ==
    ASSUME NEW q, NEW c \in Nat, Sound(q, c), q # <<>>, NEW t \in Nat, After(t, q)
    PROVE  /\ Sound(Tail(q), c) /\ After(t, Tail(q))
           /\ Head(q) \in QueueJobs /\ Head(q).cycle <= c
           /\ Head(q).kind = "stop" => t <= Head(q).cycle
           /\ Head(q).kind = "start" => After(Head(q).cycle, Tail(q))
  <1> DEFINE r == Tail(q)
             h == Head(q)
  <1>1. /\ r \in Seq(QueueJobs) /\ Len(q) \in Nat /\ Len(q) > 0 /\ Len(r) = Len(q) - 1
        /\ \A i \in 1..Len(r) : r[i] = q[i + 1]
    BY DEF Sound
  <1>2. h = q[1] /\ 1 \in 1..Len(q) /\ h \in QueueJobs
    BY <1>1 DEF Sound
  <1> HIDE DEF r, h
  <1>3. \A i \in 1..Len(r) : i + 1 \in 1..Len(q) /\ i + 1 > 1 /\ r[i] = q[i + 1]
    BY <1>1
  <1>4. Sound(r, c)
    <2>1. \A i \in 1..Len(r) : r[i].cycle <= c
      BY <1>3 DEF Sound
    <2>2. ASSUME NEW i \in 1..Len(r), NEW j \in 1..Len(r), i < j, r[i].kind = "start",
                 r[j].kind = "stop"
          PROVE  r[i].cycle <= r[j].cycle
      <3>1. i + 1 < j + 1
        BY <2>2, <1>1
      <3> QED
        BY <1>3, <2>2, <3>1 DEF Sound
    <2> QED
      BY <1>1, <2>1, <2>2 DEF Sound
  <1>5. After(t, r)
    BY <1>3 DEF After
  <1>6. h.kind = "start" => After(h.cycle, r)
    BY <1>2, <1>3 DEF After, Sound
  <1>7. h.cycle <= c /\ (h.kind = "stop" => t <= h.cycle)
    BY <1>2 DEF After, Sound
  <1> QED
    BY <1>2, <1>4, <1>5, <1>6, <1>7 DEF r, h

\* A queue stays sound when a later shot begins.
LEMMA Later ==
    ASSUME NEW q, NEW c \in Nat, NEW d \in Nat, c <= d, Sound(q, c)
    PROVE  Sound(q, d)
  <1>1. \A i \in 1..Len(q) : q[i].cycle \in Nat /\ q[i].cycle <= c
    BY Elements DEF Sound
  <1>2. \A i \in 1..Len(q) : q[i].cycle <= d
    BY <1>1
  <1> QED
    BY <1>2 DEF Sound

\* A timer that never ran is before everything.
LEMMA NothingAfter == \A q : q \in Seq(QueueJobs) => After(0, q)
  <1> SUFFICES ASSUME NEW q \in Seq(QueueJobs), NEW i \in 1..Len(q) PROVE 0 <= q[i].cycle
    BY DEF After
  <1> QED
    BY Elements

\* What is queued is stamped with its shot.
LEMMA StampedIsJob ==
    ASSUME CommandTypeOK, NEW kind \in {"start", "stop", "tare"}, NEW c \in Nat
    PROVE  /\ Stamped(kind, c) \in QueueJobs /\ Stamped(kind, c).cycle = c
           /\ Stamped(kind, c).kind = kind
  BY DEF CommandTypeOK, Links, QueueJobs, Jobs, Stamped

\* A STOP is put in front or behind; no command of a later shot is there.
LEMMA StopQueuedKeeps ==
    ASSUME CommandTypeOK, NEW s, s.id \in Nat, NEW q, Sound(q, s.id),
           NEW t \in Nat, t <= s.id, After(t, q)
    PROVE  Sound(StopQueued(s, q), s.id) /\ After(t, StopQueued(s, q))
  <1>1. /\ Stamped("stop", s.id) \in QueueJobs /\ Stamped("stop", s.id).cycle = s.id
        /\ Stamped("stop", s.id).kind = "stop"
    BY StampedIsJob
  <1>2. CASE ~CanQueueStop(s) \/ ~Accepts(q)
    BY <1>2 DEF StopQueued
  <1>3. CASE CanQueueStop(s) /\ Accepts(q) /\ s.settled
    BY <1>1, <1>3, InFront DEF StopQueued
  <1>4. CASE CanQueueStop(s) /\ Accepts(q) /\ ~s.settled
    BY <1>1, <1>4, Behind DEF StopQueued
  <1> QED
    BY <1>2, <1>3, <1>4

\* Queueing keeps the order, whatever it drops or moves to the front.
LEMMA AppendedKeeps ==
    ASSUME CommandTypeOK, NEW c \in Nat, NEW q, Sound(q, c), NEW kind \in {"start", "stop", "tare"},
           NEW t \in Nat, t <= c, After(t, q)
    PROVE  Sound(Appended(q, kind, c), c) /\ After(t, Appended(q, kind, c))
  <1>1. Stamped(kind, c) \in QueueJobs /\ Stamped(kind, c).cycle = c
    BY StampedIsJob
  <1> QED
    BY <1>1, Behind DEF Appended

\* The operators on the session leave its number.
LEMMA SessionOperators ==
    ASSUME NEW s, IsSession(s)
    PROVE  /\ IsSession(StopAsked([s EXCEPT !.due = FALSE])) /\ StopAsked([s EXCEPT !.due = FALSE]).id = s.id
           /\ \A q : IsSession(StopTried(s, q)) /\ StopTried(s, q).id = s.id
           /\ IsSession(Completed(s)) /\ Completed(s).id = s.id
           /\ \A e : IsSession(Settles(s, e)) /\ Settles(s, e).id = s.id
  <1> DEFINE d == [s EXCEPT !.due = FALSE]
  <1>1. IsSession(d) /\ d.id = s.id
    BY DEF IsSession, SessionFields
  <1> HIDE DEF d
  <1> DEFINE a == StopAsked(d)
  <1>2. IsSession(a) /\ a.id = s.id
    BY <1>1 DEF IsSession, SessionFields, StopAsked
  <1> HIDE DEF a
  <1>3. ASSUME NEW r, IsSession(r), NEW q PROVE IsSession(StopTried(r, q)) /\ StopTried(r, q).id = r.id
    BY <1>3 DEF IsSession, SessionFields, StopTried
  <1>4. ASSUME NEW e PROVE IsSession(Settles(s, e)) /\ Settles(s, e).id = s.id
    <2>1. \/ Settles(s, e) = s
          \/ Settles(s, e) = [s EXCEPT !.settled = TRUE, !.started = e.result = "ok"]
          \/ Settles(s, e) = [s EXCEPT !.inQueue = FALSE, !.stop = e.result]
      BY Zenon DEF Settles
    <2> QED
      BY <2>1 DEF IsSession, SessionFields
  <1>5. Completed(s) = StopTried(a, queue)
    BY DEF Completed, a, d
  <1> QED
    BY <1>2, <1>3, <1>4, <1>5 DEF a, d

-----------------------------------------------------------------------------
(* The link. *)

\* The bounds are numbers.
LEMMA BoundsAreNatural == CommandTypeOK => MaxCycles \in Nat \ {0} /\ MaxGenerations \in Nat \ {0}
  BY BoundsAssumption DEF CommandTypeOK, MaxCycles, MaxGenerations

\* A scale that lost its link, and a lifecycle that was cleared.
LEMMA Blanks ==
    /\ \A up \in BOOLEAN : [up |-> up, timer |-> 0, told |-> FALSE] \in ScaleStates
    /\ \A g \in Nat : [pending |-> g, blocked |-> g, sent |-> FALSE] \in Powers
  BY DEF ScaleStates, Powers

\* A link that comes or goes is a link.
LEMMA LinkMoves ==
    \A l \in Links : /\ [l EXCEPT !.state = "CONNECTED", !.gen = @ + 1] \in Links
                    /\ [l EXCEPT !.state = "DISCONNECTED", !.disc = @ + 1] \in Links
  <1>1. SUFFICES ASSUME NEW l \in Links
                 PROVE  /\ [l EXCEPT !.state = "CONNECTED", !.gen = @ + 1] \in Links
                        /\ [l EXCEPT !.state = "DISCONNECTED", !.disc = @ + 1] \in Links
    OBVIOUS
  <1>2. l.gen + 1 \in Nat /\ l.disc + 1 \in Nat
    BY DEF Links
  <1>3. [l EXCEPT !.state = "CONNECTED", !.gen = @ + 1] \in Links
    BY <1>2 DEF Links
  <1>4. [l EXCEPT !.state = "DISCONNECTED", !.disc = @ + 1] \in Links
    BY <1>2 DEF Links
  <1> QED
    BY <1>3, <1>4

\* The invariant holds at power on.
LEMMA CommandInit == Init => CommandInv
  <1> SUFFICES ASSUME Init PROVE CommandInv
    OBVIOUS
  <1>1. IsSession(session) /\ session.id = 0
    BY DEF Init, FreshSession, IsSession, SessionFields
  <1>2. CommandTypeOK
    BY <1>1 DEF Init, CommandTypeOK, ScaleStates, Links, Powers, Workers, WriteOps, Jobs, Places, Idle, NoJob
  <1>3. Sound(queue, 0) /\ After(0, queue)
    BY DEF Init, Sound, After
  <1>4. Order
    BY <1>1, <1>3 DEF Order, Init, InHand, Idle
  <1>5. Generation /\ Told
    BY <1>2, BoundsAreNatural DEF Generation, Told, Init, Idle, InHand, Connected
  <1> QED
    BY <1>2, <1>4, <1>5 DEF CommandInv

\* A publication changes the state of the link and, for a new connection, its
\* generation; the lifecycle to be cleared is the one of what is then up.
LEMMA UpdateLinkKeeps ==
    ASSUME CommandInv, NEW up \in BOOLEAN, NEW next \in Workers, next.pc \in {"take", "tick", "event"},
           UpdateLink(up, next), up => scale.up
    PROVE  /\ link' \in Links /\ worker' \in Workers /\ link'.gen <= MaxGenerations
           /\ \/ link' = link /\ (up <=> Connected)
              \/ up /\ ~Connected /\ link'.state = "CONNECTED" /\ link'.gen = link.gen + 1
              \/ ~up /\ Connected /\ link'.state = "DISCONNECTED" /\ link'.gen = link.gen
           /\ worker'.pc \in {"take", "tick", "event", "clear"}
           /\ worker'.pc = "clear" =>
                 worker'.clear = IF link'.state = "CONNECTED" THEN link'.gen ELSE 0
  <1>1. link \in Links /\ MaxGenerations \in Nat \ {0} /\ link.gen \in Nat /\ link.gen <= MaxGenerations
    BY BoundsAreNatural DEF CommandInv, CommandTypeOK, Generation, Links
  <1>2. \/ link' = link /\ (up <=> Connected)
        \/ up /\ ~Connected /\ link'.state = "CONNECTED" /\ link'.gen = link.gen + 1
        \/ ~up /\ Connected /\ link'.state = "DISCONNECTED" /\ link'.gen = link.gen
    BY <1>1 DEF UpdateLink, Published, Connected, Links
  <1>3. link' \in Links
    <2>1. \/ link' = link
          \/ link' = [link EXCEPT !.state = "CONNECTED", !.gen = @ + 1]
          \/ link' = [link EXCEPT !.state = "DISCONNECTED", !.disc = @ + 1]
      BY Zenon DEF UpdateLink, Published
    <2> QED
      BY <1>1, <2>1, LinkMoves
  <1>4. ToClear(up) \in Nat
    BY <1>1 DEF ToClear, NothingToClear
  <1>5. \/ worker' = next
        \/ /\ worker' = [next EXCEPT !.pc = "clear", !.clear = ToClear(up), !.back = next.pc]
           /\ ToClear(up) # NothingToClear
    BY Zenon DEF UpdateLink
  <1>6. worker' \in Workers /\ worker'.pc \in {next.pc, "clear"}
    BY <1>4, <1>5 DEF Workers, Places
  <1>7. worker'.pc = "clear" => ToClear(up) # NothingToClear /\ worker'.clear = ToClear(up)
    BY <1>5 DEF Workers, Places
  <1>8. up /\ ~Connected => link.gen < MaxGenerations
    BY DEF CommandInv, Generation
  <1>9. ToClear(up) # NothingToClear =>
            ToClear(up) = IF link'.state = "CONNECTED" THEN link'.gen ELSE 0
    <2>1. CASE up /\ ~Connected
      BY <1>2, <2>1 DEF ToClear
    <2>2. CASE ~up /\ Connected /\ Blocks(link.gen)
      BY <1>2, <2>2 DEF ToClear
    <2> QED
      BY <2>1, <2>2 DEF ToClear
  <1> QED
    BY <1>1, <1>2, <1>3, <1>6, <1>7, <1>8, <1>9

\* What a publication keeps of the rest of the invariant.
LEMMA PublicationKeeps ==
    ASSUME CommandInv, NEW up \in BOOLEAN, NEW next \in Workers, next.pc \in {"take", "tick", "event"},
           UpdateLink(up, next), up => scale.up,
           \/ scale' = scale /\ (scale.up <=> up)
           \/ scale' = [up |-> FALSE, timer |-> 0, told |-> FALSE] /\ ~up,
           UNCHANGED <<queue, mail, power, session, command, caller, bound>>
    PROVE  CommandInv'
  <1>1. /\ link' \in Links /\ worker' \in Workers /\ link'.gen <= MaxGenerations
        /\ worker'.pc \in {"take", "tick", "event", "clear"}
        /\ worker'.pc = "clear" =>
              worker'.clear = IF link'.state = "CONNECTED" THEN link'.gen ELSE 0
    BY UpdateLinkKeeps
  <1>2. \/ link' = link /\ (up <=> Connected)
        \/ up /\ ~Connected /\ link'.state = "CONNECTED" /\ link'.gen = link.gen + 1
        \/ ~up /\ Connected /\ link'.state = "DISCONNECTED" /\ link'.gen = link.gen
    BY UpdateLinkKeeps
  <1>3. CommandTypeOK'
    <2>1. scale' \in ScaleStates
      BY Blanks DEF CommandInv, CommandTypeOK
    <2> QED
      BY <1>1, <2>1 DEF CommandInv, CommandTypeOK, IsSession
  <1>4. scale'.timer \in {0, scale.timer} /\ (scale'.up => scale.up /\ up) /\ (scale'.told => scale.told /\ scale'.up)
    BY DEF CommandInv, CommandTypeOK, Told
  <1>5. Sound(queue, session.id) /\ session.id \in Nat /\ queue \in Seq(QueueJobs)
    BY DEF CommandInv, Order, CommandTypeOK, IsSession
  <1>6. After(scale'.timer, queue) /\ scale'.timer <= session.id
    BY <1>4, <1>5, NothingAfter DEF CommandInv, Order
  <1>7. Order'
    BY <1>1, <1>5, <1>6 DEF Order, InHand, Sound, After
  <1>8. /\ link.gen \in Nat /\ power.blocked \in Nat /\ caller \in Nat /\ link.state \in {"CONNECTED", "DISCONNECTED"}
        /\ power.blocked <= link.gen /\ caller <= link.gen /\ MaxGenerations' = MaxGenerations
        /\ caller # 0 /\ caller # link.gen => power.blocked # link.gen
        /\ power.pending # 0 => power.pending = power.blocked
        /\ Connected => link.gen # 0
    BY DEF CommandInv, CommandTypeOK, Links, Powers, Generation, MaxGenerations
  <1>9. Generation'
    BY <1>1, <1>2, <1>4, <1>8 DEF Generation, InHand, Connected
  <1>10. Told'
    BY <1>1, <1>2, <1>4 DEF CommandInv, Told, Connected
  <1> QED
    BY <1>3, <1>7, <1>9, <1>10 DEF CommandInv

\* The worker notices that the link came or went, or cuts a power-off that lasts.
LEMMA LinkStep ==
    ASSUME CommandInv, Tick \/ PowerOffTimesOut \/ Report, UNCHANGED bound
    PROVE  CommandInv'
  <1> DEFINE taking == [Idle EXCEPT !.pc = "take"]
             next == IF HasResult(worker.job) THEN [worker EXCEPT !.pc = "event"] ELSE Idle
  <1>1. taking \in Workers /\ taking.pc = "take" /\ Idle \in Workers /\ Idle.pc = "tick"
    BY DEF Workers, WriteOps, Idle, NoJob, Places, Jobs
  <1>2. next \in Workers /\ next.pc \in {"event", "tick"}
    BY <1>1 DEF CommandInv, CommandTypeOK, Workers, Places
  <1>3. scale.up \in BOOLEAN
    BY DEF CommandInv, CommandTypeOK, ScaleStates
  <1> HIDE DEF taking, next
  <1>4. CASE Tick
    <2>1. UpdateLink(scale.up, taking)
      BY <1>4 DEF Tick, taking
    <2> QED
      BY <1>1, <1>3, <1>4, <2>1, PublicationKeeps DEF Tick, control
  <1>5. CASE PowerOffTimesOut
    <2>1. UpdateLink(FALSE, taking)
      BY <1>5 DEF PowerOffTimesOut, taking
    <2> QED
      BY <1>1, <1>5, <2>1, PublicationKeeps DEF PowerOffTimesOut, control
  <1>6. CASE Report
    <2>1. UpdateLink(scale.up, next)
      BY <1>6 DEF Report, next
    <2> QED
      BY <1>2, <1>3, <1>6, <2>1, PublicationKeeps DEF Report, control
  <1> QED
    BY <1>4, <1>5, <1>6

\* The clearing of the lifecycle is of the connection that is up, or of none.
LEMMA ClearStep ==
    ASSUME CommandInv, ClearLifecycle, UNCHANGED bound
    PROVE  CommandInv'
  <1>1. /\ worker.pc = "clear" /\ worker' = [worker EXCEPT !.pc = worker.back, !.clear = 0, !.back = "tick"]
        /\ scale' = scale /\ link' = link /\ queue' = queue /\ mail' = mail /\ session' = session
        /\ caller' = caller /\ bound' = bound
    BY DEF ClearLifecycle, control
  <1>2. /\ power' \in Powers /\ power'.blocked \in {0, power.blocked}
        /\ \/ power'.pending = power.pending /\ power'.blocked = power.blocked
           \/ power'.pending = 0 /\ power'.blocked = 0
        /\ Connected /\ power.blocked = link.gen => power' = power
    <2>1. power \in Powers /\ (Connected => worker.clear = link.gen /\ link.gen # 0)
      BY DEF CommandInv, CommandTypeOK, Generation, ClearLifecycle
    <2>2. \/ power' = power
          \/ /\ power' = [pending |-> 0, blocked |-> 0, sent |-> FALSE]
             /\ worker.clear = 0 \/ power.blocked # worker.clear
      BY Zenon DEF ClearLifecycle
    <2>3. CASE power' = power
      BY <2>1, <2>3
    <2>4. CASE power' = [pending |-> 0, blocked |-> 0, sent |-> FALSE]
      BY <2>1, <2>2, <2>4, Blanks
    <2> QED
      BY <2>2, <2>3, <2>4
  <1>3. worker' \in Workers /\ worker'.pc \in {"tick", "take", "event"}
    BY <1>1 DEF CommandInv, CommandTypeOK, Workers, Places
  <1>4. CommandTypeOK'
    BY <1>1, <1>2, <1>3 DEF CommandInv, CommandTypeOK
  <1>5. Order'
    BY <1>1, <1>3 DEF CommandInv, Order, InHand, Sound, After
  <1>6. Generation'
    BY <1>1, <1>2, <1>3 DEF CommandInv, CommandTypeOK, Generation, InHand, Connected, MaxGenerations, Links, Powers
  <1>7. Told'
    BY <1>1, <1>2, <1>3 DEF CommandInv, Told, Connected
  <1> QED
    BY <1>4, <1>5, <1>6, <1>7 DEF CommandInv

-----------------------------------------------------------------------------
(* The scale and the sends of the worker. *)

\* A drop, or a connection that is not yet published: the scale knows nothing.
LEMMA ScaleStep ==
    ASSUME CommandInv, ScaleConnects \/ ScaleDrops, UNCHANGED bound
    PROVE  CommandInv'
  <1>1. /\ scale' \in ScaleStates /\ scale'.timer = 0 /\ ~scale'.told
        /\ scale'.up => worker.pc = "tick" /\ ~Connected /\ link.gen < MaxGenerations
        /\ UNCHANGED <<link, queue, mail, power, worker, session, caller, bound>>
    <2>1. CASE ScaleConnects
      BY <2>1, Blanks DEF ScaleConnects, control
    <2>2. CASE ScaleDrops
      BY <2>2, Blanks DEF ScaleDrops, control
    <2> QED
      BY <2>1, <2>2
  <1>2. CommandTypeOK'
    BY <1>1 DEF CommandInv, CommandTypeOK, IsSession
  <1>3. After(0, queue) /\ session.id \in Nat /\ worker.job.cycle \in Nat
    BY NothingAfter DEF CommandInv, CommandTypeOK, IsSession, Workers, Jobs
  <1>4. Order'
    BY <1>1, <1>3 DEF CommandInv, Order, InHand, Sound, After
  <1>5. Generation' /\ Told'
    BY <1>1 DEF CommandInv, Generation, Told, InHand, Connected, MaxGenerations
  <1> QED
    BY <1>2, <1>4, <1>5 DEF CommandInv

\* A power-off is asked for, taken over and written.
LEMMA PowerOffStep ==
    ASSUME CommandInv, TakePowerOff \/ SendPowerOff \/ WritePowerOff, UNCHANGED bound
    PROVE  CommandInv'
  <1>1. UNCHANGED <<link, queue, mail, session, caller, bound>>
    BY DEF TakePowerOff, SendPowerOff, WritePowerOff, control
  <1>2. /\ scale \in ScaleStates /\ power \in Powers /\ worker \in Workers
    BY DEF CommandInv, CommandTypeOK
  <1>3. /\ power' \in Powers /\ power'.blocked = power.blocked
        /\ power'.pending \in {0, power.pending}
    <2>1. CASE TakePowerOff
      BY <1>2, <2>1 DEF TakePowerOff, Powers
    <2>2. CASE SendPowerOff /\ scale.up
      BY <1>2, <2>2 DEF SendPowerOff, Powers
    <2>3. CASE (SendPowerOff /\ ~scale.up) \/ WritePowerOff
      BY <1>2, <2>3 DEF SendPowerOff, WritePowerOff
    <2> QED
      BY <2>1, <2>2, <2>3
  <1>4. worker' \in Workers /\ worker'.pc \in {"take", "off", "offwrite", "report"}
    BY <1>2 DEF TakePowerOff, SendPowerOff, WritePowerOff, Workers, Places
  <1>5. /\ scale' \in ScaleStates /\ scale'.up = scale.up /\ scale'.timer = scale.timer
        /\ scale'.told => scale.told \/ (scale.up /\ worker.pc = "offwrite")
    BY <1>2 DEF TakePowerOff, SendPowerOff, WritePowerOff, ScaleStates
  <1>6. worker'.pc \in {"off", "offwrite"} => Connected /\ power.blocked = link.gen
    <2>1. worker.pc = "off" => Connected /\ power.blocked = link.gen
      BY DEF CommandInv, Told
    <2>2. power.pending # 0 => power.pending = power.blocked
      BY DEF CommandInv, Generation
    <2> QED
      BY <1>2, <2>1, <2>2 DEF TakePowerOff, SendPowerOff, WritePowerOff, Workers, Places
  <1>7. CommandTypeOK'
    BY <1>1, <1>3, <1>4, <1>5 DEF CommandInv, CommandTypeOK, IsSession
  <1>8. Order'
    BY <1>1, <1>4, <1>5 DEF CommandInv, Order, InHand, Sound, After
  <1>9. Generation'
    BY <1>1, <1>3, <1>4, <1>5 DEF CommandInv, Generation, InHand, Connected, MaxGenerations
  <1>10. Told'
    BY <1>1, <1>3, <1>4, <1>5, <1>6 DEF CommandInv, Told, Connected
  <1> QED
    BY <1>7, <1>8, <1>9, <1>10 DEF CommandInv

\* A job that is taken is of the connection of now.
LEMMA TakeStep ==
    ASSUME CommandInv, TakeCommand \/ TakeBeep \/ NothingToSend, UNCHANGED bound
    PROVE  CommandInv'
  <1>1. UNCHANGED <<scale, link, power, session, caller, bound>>
    BY DEF TakeCommand, TakeBeep, NothingToSend, control
  <1>2. /\ worker \in Workers /\ queue \in Seq(QueueJobs) /\ mail \in [Beeps -> Nat]
        /\ session.id \in Nat /\ scale.timer \in Nat
    BY DEF CommandInv, CommandTypeOK, IsSession, ScaleStates
  <1>3. Sound(queue, session.id) /\ After(scale.timer, queue) /\ scale.timer <= session.id
    BY DEF CommandInv, Order
  <1>4. ASSUME CommandTypeOK', Sound(queue', session.id), After(scale.timer, queue'),
               InHand' => /\ worker'.job.cycle <= session.id /\ Connected
                          /\ worker'.job.kind = "start" => After(worker'.job.cycle, queue')
                          /\ worker'.job.kind = "stop" => scale.timer <= worker'.job.cycle
                          /\ worker'.job.kind \notin AllBeeps => worker'.job.gen = link.gen,
               worker'.pc \in {"take", "tick", "event", "admit"}
        PROVE  CommandInv'
    <2>1. Order'
      BY <1>1, <1>3, <1>4 DEF Order, InHand, Sound, After
    <2>2. Generation' /\ Told'
      BY <1>1, <1>4 DEF CommandInv, Generation, Told, InHand, Connected, MaxGenerations
    <2> QED
      BY <1>4, <2>1, <2>2 DEF CommandInv
  <1>5. CASE TakeCommand
    <2> DEFINE job == Head(queue)
    <2>1. /\ queue # <<>> /\ queue' = Tail(queue) /\ mail' = mail
          /\ \/ Stale(job) /\ worker' = [worker EXCEPT !.job = job, !.pc = "event", !.result = "skipped"]
             \/ ~Stale(job) /\ \E op \in WriteOps :
                  worker' = [worker EXCEPT !.job = job, !.pc = "admit", !.op = op, !.result = "none"]
      BY <1>5 DEF TakeCommand, FirstOps, WriteOps
    <2>2. /\ Sound(Tail(queue), session.id) /\ After(scale.timer, Tail(queue)) /\ job \in QueueJobs
          /\ job.cycle <= session.id /\ (job.kind = "stop" => scale.timer <= job.cycle)
          /\ job.kind = "start" => After(job.cycle, Tail(queue))
      BY <1>2, <1>3, <2>1, Taken
    <2> HIDE DEF job
    <2>3. /\ worker' \in Workers /\ worker'.job = job
          /\ worker'.pc \in {"event", "admit"} /\ (worker'.pc = "admit" => ~Stale(job))
      BY <1>2, <2>1, <2>2 DEF Workers, Places, QueueJobs, Jobs
    <2>4. CommandTypeOK'
      BY <1>1, <1>2, <2>1, <2>2, <2>3 DEF CommandInv, CommandTypeOK, Sound, IsSession
    <2> QED
      BY <1>4, <2>1, <2>2, <2>3, <2>4 DEF InHand, Stale
  <1>6. CASE TakeBeep
    <2>1. PICK b \in AllBeeps :
            /\ b \in Beeps /\ mail' = [mail EXCEPT ![b] = 0] /\ queue = <<>> /\ queue' = queue
            /\ LET job == [kind |-> b, cycle |-> 0, gen |-> mail[b]] IN
               worker' = IF Stale(job) THEN worker ELSE [worker EXCEPT !.job = job, !.pc = "admit"]
      <3> DEFINE Takes(b) ==
              /\ b \in Beeps /\ mail' = [mail EXCEPT ![b] = 0]
              /\ LET job == [kind |-> b, cycle |-> 0, gen |-> mail[b]] IN
                 worker' = IF Stale(job) THEN worker ELSE [worker EXCEPT !.job = job, !.pc = "admit"]
      <3>0. DOMAIN BeepOrder = 1..3
        BY DEF BeepOrder
      <3>1. PICK i \in DOMAIN BeepOrder : Takes(BeepOrder[i])
        BY <1>6, Zenon DEF TakeBeep
      <3>2. BeepOrder[i] \in AllBeeps
        BY <3>0, <3>1 DEF BeepOrder, AllBeeps
      <3>3. queue = <<>> /\ queue' = queue
        BY <1>6 DEF TakeBeep
      <3> QED
        BY <3>1, <3>2, <3>3
    <2> DEFINE job == [kind |-> b, cycle |-> 0, gen |-> mail[b]]
    <2>2. /\ job \in Jobs(AllBeeps) /\ job.kind = b /\ job.cycle = 0
      BY <1>2, <2>1 DEF Jobs
    <2>3. worker' = IF Stale(job) THEN worker ELSE [worker EXCEPT !.job = job, !.pc = "admit"]
      BY <2>1
    <2>4. Stale(job) \/ Connected
      BY DEF Stale
    <2> HIDE DEF job
    <2>5. /\ worker' \in Workers /\ mail' \in [Beeps -> Nat]
          /\ worker' = worker \/ (worker'.pc = "admit" /\ worker'.job = job /\ Connected)
      BY <1>2, <2>1, <2>2, <2>3, <2>4 DEF Workers, Places, Jobs
    <2>6. worker.pc = "take"
      BY <1>6 DEF TakeBeep
    <2>7. CommandTypeOK'
      BY <1>1, <1>2, <2>1, <2>5 DEF CommandInv, CommandTypeOK, IsSession
    <2>8. b \notin {"start", "stop"}
      BY DEF AllBeeps
    <2>9. Sound(queue', session.id) /\ After(scale.timer, queue')
      BY <1>3, <2>1
    <2>10. InHand' => worker'.pc = "admit" /\ worker'.job = job /\ Connected
      BY <2>5, <2>6 DEF InHand
    <2>11. job.cycle <= session.id /\ job.kind \notin {"start", "stop"} /\ job.kind \in AllBeeps
      BY <1>2, <2>2, <2>8
    <2>12. worker'.pc \in {"take", "tick", "event", "admit"}
      BY <2>5, <2>6
    <2> QED
      BY <1>4, <2>7, <2>9, <2>10, <2>11, <2>12
  <1>7. CASE NothingToSend
    <2>1. worker' = Idle /\ queue' = queue /\ mail' = mail
      BY <1>7 DEF NothingToSend
    <2>2. Idle \in Workers /\ Idle.pc = "tick"
      BY DEF Workers, WriteOps, Idle, NoJob, Places, Jobs
    <2>3. CommandTypeOK'
      BY <1>1, <2>1, <2>2 DEF CommandInv, CommandTypeOK, IsSession
    <2> QED
      BY <1>3, <1>4, <2>1, <2>2, <2>3 DEF InHand
  <1> QED
    BY <1>5, <1>6, <1>7

\* A scale that was told to power off admits nothing.
LEMMA AdmitStep ==
    ASSUME CommandInv, Admit, UNCHANGED bound
    PROVE  CommandInv'
  <1>1. UNCHANGED <<scale, link, queue, mail, power, session, caller, bound>>
    BY DEF Admit, control
  <1>2. worker \in Workers /\ worker.pc = "admit"
    BY DEF CommandInv, CommandTypeOK, Admit
  <1>3. /\ worker' \in Workers /\ worker'.job = worker.job /\ worker'.pc \in {"write", "report"}
        /\ worker'.pc = "write" => Admitted(worker.job)
    BY <1>2 DEF Admit, Ended, Workers, Places
  <1>4. Admitted(worker.job) => ~scale.told
    <2>1. worker.job.kind \notin AllBeeps => worker.job.gen = link.gen
      BY <1>2 DEF CommandInv, Order, InHand
    <2>2. scale.told => Blocks(link.gen)
      BY DEF CommandInv, Told, Generation, Blocks
    <2> QED
      BY <2>1, <2>2 DEF Admitted
  <1>5. CommandTypeOK'
    BY <1>1, <1>3 DEF CommandInv, CommandTypeOK, IsSession
  <1>6. Order'
    BY <1>1, <1>2, <1>3 DEF CommandInv, Order, InHand, Sound, After
  <1>7. Generation'
    BY <1>1, <1>2, <1>3 DEF CommandInv, Generation, InHand, Connected, MaxGenerations
  <1>8. Told'
    BY <1>1, <1>2, <1>3, <1>4 DEF CommandInv, Told, Connected
  <1> QED
    BY <1>5, <1>6, <1>7, <1>8 DEF CommandInv

\* The job in hand is written, dropped, or tried again.
LEMMA WriteStep ==
    ASSUME CommandInv, Write, UNCHANGED bound
    PROVE  CommandInv'
  <1>1. UNCHANGED <<link, queue, mail, power, session, caller, bound>>
    BY DEF Write, control
  <1>2. worker \in Workers /\ worker.pc = "write" /\ scale \in ScaleStates /\ session.id \in Nat
    BY DEF CommandInv, CommandTypeOK, IsSession, Write
  <1>3. worker' \in Workers /\ worker'.pc \in {"report", "admit"} /\ worker'.job = worker.job
    <2>1. Ended("failed") \in Workers /\ Ended("failed").pc = "report" /\ Ended("failed").job = worker.job
      BY <1>2 DEF Ended, Workers, Places
    <2>2. ASSUME NEW op \in WriteOps \cup {"end"}
          PROVE  /\ Continued(op) \in Workers /\ Continued(op).pc \in {"report", "admit"}
                 /\ Continued(op).job = worker.job
      BY <1>2 DEF Continued, Workers, Places
    <2>3. \A op \in NextOps(worker.op) : op \in WriteOps \cup {"end"}
      BY DEF NextOps, WriteOps
    <2> QED
      BY <2>1, <2>2, <2>3 DEF Write
  <1>4. /\ worker.job.cycle <= session.id /\ worker.job.cycle \in Nat
        /\ worker.job.kind = "start" => After(worker.job.cycle, queue)
        /\ worker.job.kind = "stop" => scale.timer <= worker.job.cycle
        /\ worker.job.kind \notin AllBeeps => worker.job.gen = link.gen
    BY <1>2 DEF CommandInv, Order, InHand, Workers, Jobs
  <1> DEFINE done == Effect(worker.job, worker.op)
  <1>5. \/ done = scale
        \/ done = [scale EXCEPT !.timer = 0]
        \/ worker.job.kind = "start" /\ done = [scale EXCEPT !.timer = worker.job.cycle]
    BY DEF Effect
  <1>6. scale' \in {scale, done}
    BY DEF Write
  <1> HIDE DEF done
  <1>7. /\ scale' \in ScaleStates /\ scale'.up = scale.up /\ scale'.told = scale.told
        /\ \/ scale'.timer \in {0, scale.timer}
           \/ worker.job.kind = "start" /\ scale'.timer = worker.job.cycle
    BY <1>2, <1>4, <1>5, <1>6 DEF ScaleStates
  <1>8. CommandTypeOK'
    BY <1>1, <1>3, <1>7 DEF CommandInv, CommandTypeOK, IsSession
  <1>9. /\ scale'.timer <= session.id /\ After(scale'.timer, queue)
        /\ worker.job.kind = "stop" => scale'.timer <= worker.job.cycle
    BY <1>2, <1>4, <1>7, NothingAfter DEF CommandInv, Order, CommandTypeOK
  <1>10. Order'
    BY <1>1, <1>3, <1>4, <1>9 DEF CommandInv, Order, InHand, Sound, After
  <1>11. Generation' /\ Told'
    BY <1>1, <1>2, <1>3, <1>7 DEF CommandInv, Generation, Told, InHand, Connected, MaxGenerations
  <1> QED
    BY <1>8, <1>10, <1>11 DEF CommandInv

\* What became of it is published.
LEMMA PublishStep ==
    ASSUME CommandInv, PublishResult, UNCHANGED bound
    PROVE  CommandInv'
  <1>1. /\ UNCHANGED <<scale, link, queue, mail, power, session, caller, bound>>
        /\ worker' = Idle
    BY DEF PublishResult, control
  <1>2. Idle \in Workers /\ Idle.pc = "tick"
    BY DEF Workers, WriteOps, Idle, NoJob, Places, Jobs
  <1>3. CommandTypeOK'
    BY <1>1, <1>2 DEF CommandInv, CommandTypeOK, IsSession
  <1>4. Order'
    BY <1>1, <1>2 DEF CommandInv, Order, InHand, Sound, After
  <1>5. Generation' /\ Told'
    BY <1>1, <1>2 DEF CommandInv, Generation, Told, InHand, Connected, MaxGenerations
  <1> QED
    BY <1>3, <1>4, <1>5 DEF CommandInv

-----------------------------------------------------------------------------
(* The control task. *)

\* The commands that the control task queues are of its shot, which never goes back.
LEMMA SessionKeeps ==
    ASSUME CommandInv, IsSession(session)', session.id <= session'.id, Sound(queue', session'.id),
           After(scale.timer, queue'),
           InHand /\ worker.job.kind = "start" => After(worker.job.cycle, queue'),
           mail' \in [Beeps -> Nat],
           UNCHANGED <<scale, link, power, worker, caller, bound>>
    PROVE  CommandInv'
  <1>1. session.id \in Nat /\ session'.id \in Nat /\ scale.timer \in Nat /\ worker.job.cycle \in Nat
    BY DEF CommandInv, CommandTypeOK, IsSession, ScaleStates, Workers, Jobs
  <1>2. CommandTypeOK'
    BY DEF CommandInv, CommandTypeOK, Sound
  <1>3. Order'
    BY <1>1 DEF CommandInv, Order, InHand, Sound, After
  <1>4. Generation' /\ Told'
    BY DEF CommandInv, Generation, Told, InHand, Connected, MaxGenerations
  <1> QED
    BY <1>2, <1>3, <1>4 DEF CommandInv

\* What the invariant says of the queue, the timer and the job in hand.
LEMMA OrderNow ==
    ASSUME CommandInv
    PROVE  /\ CommandTypeOK /\ session.id \in Nat /\ IsSession(session) /\ Sound(queue, session.id)
           /\ scale.timer \in Nat /\ scale.timer <= session.id /\ After(scale.timer, queue)
           /\ InHand /\ worker.job.kind = "start" =>
                /\ worker.job.cycle \in Nat /\ worker.job.cycle <= session.id
                /\ After(worker.job.cycle, queue)
           /\ mail \in [Beeps -> Nat]
  BY DEF CommandInv, CommandTypeOK, IsSession, Order, ScaleStates, Workers, Jobs

\* A shot begins.
LEMMA BeginStep ==
    ASSUME CommandInv, BeginCycle, UNCHANGED bound
    PROVE  CommandInv'
  <1> DEFINE c == session.id + 1
             s == StopAsked([session EXCEPT !.due = FALSE])
             f == Flushed(queue)
             b == FreshSession(c)
  <1>1. /\ queue' = Started(f, c) /\ session' = [b EXCEPT !.queued = Connected /\ Accepts(f)]
        /\ UNCHANGED <<scale, link, mail, power, worker, caller, bound>>
    BY DEF BeginCycle, QueueOfStart
  <1>2. s.id = session.id
    BY OrderNow, SessionOperators
  <1>3. f = IF session.due THEN StopQueued(s, queue) ELSE queue
    BY DEF Flushed
  <1>4. IsSession(session') /\ session'.id = c /\ c \in Nat
    <2>1. b = [g \in SessionFields |-> b[g]] /\ b.id = c
      BY DEF FreshSession, SessionFields
    <2>2. c \in Nat
      BY OrderNow
    <2> HIDE DEF b
    <2> QED
      BY <1>1, <2>1, <2>2 DEF IsSession, SessionFields
  <1> HIDE DEF s, f, b
  <1>5. ASSUME NEW t \in Nat, t <= session.id, After(t, queue)
        PROVE  Sound(f, session.id) /\ After(t, f)
    BY <1>2, <1>3, <1>5, OrderNow, StopQueuedKeeps
  <1>6. ASSUME NEW t \in Nat, t <= session.id, After(t, queue)
        PROVE  Sound(queue', c) /\ After(t, queue')
    <2>1. session.id <= c /\ t <= c
      BY <1>6, OrderNow
    <2>2. Sound(f, c) /\ After(t, f)
      BY <1>4, <1>5, <1>6, <2>1, OrderNow, Later
    <2>3. Sound(Appended(f, "start", c), c) /\ After(t, Appended(f, "start", c))
      BY <1>4, <2>1, <2>2, OrderNow, AppendedKeeps
    <2> QED
      BY <1>1, <2>2, <2>3 DEF Started
  <1>7. Sound(queue', c) /\ After(scale.timer, queue')
    BY <1>6, OrderNow
  <1>8. InHand /\ worker.job.kind = "start" => After(worker.job.cycle, queue')
    BY <1>6, OrderNow
  <1>9. session.id <= session'.id
    BY <1>4, OrderNow
  <1> QED
    BY <1>1, <1>4, <1>7, <1>8, <1>9, OrderNow, SessionKeeps

\* The delayed STOP and its retries.
LEMMA StopStep ==
    ASSUME CommandInv, StopIsDue \/ RetryStop, UNCHANGED bound
    PROVE  CommandInv'
  <1> DEFINE asked == StopAsked([session EXCEPT !.due = FALSE])
  <1>1. UNCHANGED <<scale, link, mail, power, worker, caller, bound>>
    BY DEF StopIsDue, RetryStop
  <1>2. IsSession(session') /\ session'.id = session.id /\ asked.id = session.id
    BY OrderNow, SessionOperators DEF StopIsDue, RetryStop
  <1> HIDE DEF asked
  <1>3. queue' \in {StopQueued(asked, queue), StopQueued(session, queue)}
    BY DEF StopIsDue, RetryStop, CompletedQueue, asked
  <1>4. ASSUME NEW t \in Nat, t <= session.id, After(t, queue)
        PROVE  Sound(queue', session.id) /\ After(t, queue')
    <2>1. Sound(StopQueued(asked, queue), session.id) /\ After(t, StopQueued(asked, queue))
      BY <1>2, <1>4, OrderNow, StopQueuedKeeps
    <2>2. Sound(StopQueued(session, queue), session.id) /\ After(t, StopQueued(session, queue))
      BY <1>4, OrderNow, StopQueuedKeeps
    <2> QED
      BY <1>3, <2>1, <2>2
  <1>5. Sound(queue', session'.id) /\ After(scale.timer, queue')
    BY <1>2, <1>4, OrderNow
  <1>6. InHand /\ worker.job.kind = "start" => After(worker.job.cycle, queue')
    BY <1>4, OrderNow
  <1>7. session.id <= session'.id
    BY <1>2, OrderNow
  <1> QED
    BY <1>1, <1>2, <1>5, <1>6, <1>7, OrderNow, SessionKeeps

\* Control ends a shot, closes its window, tares again, beeps, or reads a result.
LEMMA ServeStep ==
    ASSUME CommandInv,
           EndCycle \/ WindowCloses \/ Retare \/ ProcessEvent \/ \E b \in Beeps : RequestBeep(b),
           UNCHANGED bound
    PROVE  CommandInv'
  <1>1. UNCHANGED <<scale, link, power, worker, caller, bound>>
    BY DEF EndCycle, WindowCloses, Retare, ProcessEvent, RequestBeep, control
  <1>2. session.id <= session.id
    BY OrderNow
  <1>3. CASE EndCycle \/ WindowCloses \/ ProcessEvent
    <2>1. queue' = queue
      BY <1>3 DEF EndCycle, WindowCloses, ProcessEvent
    <2>2. mail' \in [Beeps -> Nat]
      BY <1>3, OrderNow DEF EndCycle, WindowCloses, ProcessEvent
    <2>3. IsSession(session') /\ session'.id = session.id
      <3>1. CASE EndCycle
        BY <3>1, OrderNow DEF EndCycle, IsSession, SessionFields
      <3>2. CASE WindowCloses
        BY <3>2, OrderNow DEF WindowCloses, IsSession, SessionFields
      <3>3. CASE ProcessEvent
        BY <3>3, OrderNow, SessionOperators DEF ProcessEvent
      <3> QED
        BY <1>3, <3>1, <3>2, <3>3
    <2> QED
      BY <1>1, <1>2, <2>1, <2>2, <2>3, OrderNow, SessionKeeps
  <1>4. CASE Retare
    <2>1. queue' = Appended(queue, "tare", session.id) /\ session' = session /\ mail' = mail
      BY <1>4 DEF Retare, control
    <2>2. ASSUME NEW t \in Nat, t <= session.id, After(t, queue)
          PROVE  Sound(queue', session.id) /\ After(t, queue')
      BY <2>1, <2>2, OrderNow, AppendedKeeps
    <2>3. Sound(queue', session.id) /\ After(scale.timer, queue')
      BY <2>2, OrderNow
    <2>4. InHand /\ worker.job.kind = "start" => After(worker.job.cycle, queue')
      BY <2>2, OrderNow
    <2> QED
      BY <1>1, <1>2, <2>1, <2>3, <2>4, OrderNow, SessionKeeps
  <1>5. ASSUME NEW b \in Beeps, RequestBeep(b) PROVE CommandInv'
    <2>1. session' = session /\ queue' = queue /\ mail' = [mail EXCEPT ![b] = link.gen]
      BY <1>5 DEF RequestBeep, control
    <2>2. mail' \in [Beeps -> Nat]
      BY <2>1, OrderNow DEF CommandTypeOK, Links
    <2> QED
      BY <1>1, <1>2, <2>1, <2>2, OrderNow, SessionKeeps
  <1> QED
    BY <1>3, <1>4, <1>5

\* A request that read an older connection blocks nothing that is up; one that reads
\* the connection that is blocked changes nothing.
LEMMA RequestStep ==
    ASSUME CommandInv, ReadForPowerOff \/ RequestPowerOff, UNCHANGED bound
    PROVE  CommandInv'
  <1>1. UNCHANGED <<scale, link, queue, worker, session, bound>>
    BY DEF ReadForPowerOff, RequestPowerOff
  <1>2. /\ link \in Links /\ power \in Powers /\ mail \in [Beeps -> Nat] /\ caller \in Nat
        /\ power.blocked <= link.gen /\ caller <= link.gen
        /\ caller # 0 /\ caller # link.gen => power.blocked # link.gen
        /\ power.pending # 0 => power.pending = power.blocked
    BY DEF CommandInv, CommandTypeOK, Generation
  <1>3. CASE ReadForPowerOff
    <2>1. caller' = link.gen /\ power' = power /\ mail' = mail
      BY <1>3 DEF ReadForPowerOff
    <2>2. CommandTypeOK'
      BY <1>1, <1>2, <2>1 DEF CommandInv, CommandTypeOK, IsSession, Links
    <2>3. Order'
      BY <1>1 DEF CommandInv, Order, InHand, Sound, After
    <2>4. Generation' /\ Told'
      BY <1>1, <1>2, <2>1 DEF CommandInv, Generation, Told, InHand, Connected, MaxGenerations, Links
    <2> QED
      BY <2>2, <2>3, <2>4 DEF CommandInv
  <1>4. CASE RequestPowerOff
    <2>1. /\ caller # 0 /\ caller' = 0 /\ power' \in Powers /\ power'.blocked = caller
          /\ power' = power \/ (power'.pending = caller /\ caller # power.blocked)
          /\ mail' \in [Beeps -> Nat]
      <3>1. CASE power.blocked = caller
        BY <1>2, <1>4, <3>1 DEF RequestPowerOff
      <3>2. CASE power.blocked # caller
        BY <1>2, <1>4, <3>2, Blanks DEF RequestPowerOff
      <3> QED
        BY <3>1, <3>2
    <2>2. power.blocked = link.gen => power' = power
      BY <1>2, <2>1
    <2>3. CommandTypeOK'
      BY <1>1, <1>2, <2>1 DEF CommandInv, CommandTypeOK, IsSession
    <2>4. Order'
      BY <1>1 DEF CommandInv, Order, InHand, Sound, After
    <2>5. Generation'
      <3>1. power'.blocked <= link.gen /\ (power'.pending # 0 => power'.pending = power'.blocked)
        BY <1>2, <2>1
      <3>2. 0 <= link.gen
        BY <1>2 DEF Links
      <3> QED
        BY <1>1, <2>1, <3>1, <3>2 DEF CommandInv, Generation, InHand, Connected, MaxGenerations
    <2>6. Told'
      BY <1>1, <2>2 DEF CommandInv, Told, Connected
    <2> QED
      BY <2>3, <2>4, <2>5, <2>6 DEF CommandInv
  <1> QED
    BY <1>3, <1>4

\* Every step keeps the invariant.
LEMMA CommandStep ==
    ASSUME CommandInv, [Next]_vars
    PROVE  CommandInv'
  <1>1. CASE Next
    <2>1. CASE WorkerStep
      BY <1>1, <2>1, ClearStep, LinkStep, PowerOffStep, TakeStep, AdmitStep, WriteStep, PublishStep
         DEF Next, WorkerStep
    <2>2. CASE ControlStep
      BY <1>1, <2>2, BeginStep, StopStep, ServeStep, RequestStep DEF Next, ControlStep
    <2>3. CASE ScaleConnects \/ ScaleDrops
      BY <1>1, <2>3, ScaleStep DEF Next
    <2> QED
      BY <1>1, <2>1, <2>2, <2>3 DEF Next
  <1>2. CASE UNCHANGED vars
    <2>1. UNCHANGED <<bound, scale, link, queue, mail, power, worker, session, caller>>
      BY <1>2 DEF vars
    <2>2. CommandTypeOK'
      BY <2>1 DEF CommandInv, CommandTypeOK, IsSession
    <2>3. Order'
      BY <2>1 DEF CommandInv, Order, InHand, Sound, After
    <2>4. Generation' /\ Told'
      BY <2>1 DEF CommandInv, Generation, Told, InHand, Connected, MaxGenerations
    <2> QED
      BY <2>2, <2>3, <2>4 DEF CommandInv
  <1> QED
    BY <1>1, <1>2

-----------------------------------------------------------------------------
(* The invariant of the commands: their order in the queue, the generations of the
   power-off, and that a scale which was told to power off is left alone. *)
THEOREM CommandInvariance == Spec => []CommandInv
  BY CommandInit, CommandStep, PTL DEF Spec

(* What is written was meant for this connection and this shot: a STOP is in front of
   the START of every later shot, wherever tryQueueRemoteTimerStop puts it, and
   a command that is taken is of the connection that is published. *)
THEOREM CommandsAreForTheirShot == Spec => []CommandIsForItsShot
  <1>1. CommandInv => CommandIsForItsShot
    <2> SUFFICES ASSUME CommandInv, worker.pc = "write", worker.job.kind \notin AllBeeps
                 PROVE  /\ worker.job.gen = link.gen
                        /\ worker.job.kind = "stop" /\ scale.up => scale.timer <= worker.job.cycle
      BY DEF CommandIsForItsShot
    <2> QED
      BY DEF CommandInv, Order, InHand
  <1> QED
    BY <1>1, CommandInvariance, PTL

(* A power-off holds until its connection ends, whatever the worker clears and the
   control task asks for in between, and nothing is written after it
   (clearScalePowerOffLifecycle, requestScalePowerOff, approveScaleGeneration). *)
THEOREM PowerOffsHold == Spec => PowerOffHolds
  <1> DEFINE Held == /\ Connected /\ Blocks(link.gen) => link' # link \/ power'.blocked = link.gen
                     /\ worker.pc = "write" /\ worker'.pc # "write" => ~scale.told
  <1>1. ASSUME CommandInv, [Next]_vars PROVE Held
    <2>1. worker.pc = "write" => ~scale.told
      BY <1>1 DEF CommandInv, Told
    <2>2. ASSUME Connected, Blocks(link.gen), link' = link PROVE power'.blocked = link.gen
      <3>1. /\ power \in Powers /\ caller \in Nat /\ link.gen # 0 /\ power.blocked = link.gen
            /\ caller # 0 => caller = link.gen
            /\ worker.pc = "clear" => worker.clear = link.gen
        BY <1>1, <2>2 DEF CommandInv, CommandTypeOK, Generation, Blocks
      <3>2. CASE ClearLifecycle
        BY <3>1, <3>2 DEF ClearLifecycle
      <3>3. CASE TakePowerOff \/ SendPowerOff
        BY <3>1, <3>3 DEF TakePowerOff, SendPowerOff, Powers
      <3>4. CASE RequestPowerOff
        BY <3>1, <3>4 DEF RequestPowerOff
      <3>5. CASE UNCHANGED power
        BY <3>1, <3>5
      <3>6. WorkerStep => ClearLifecycle \/ TakePowerOff \/ SendPowerOff \/ UNCHANGED power
        BY DEF WorkerStep, Tick, PowerOffTimesOut, WritePowerOff, TakeCommand, TakeBeep, NothingToSend,
               Admit, Write, Report, PublishResult
      <3>7. ControlStep => RequestPowerOff \/ UNCHANGED power
        BY DEF ControlStep, BeginCycle, EndCycle, StopIsDue, RetryStop, WindowCloses, Retare,
               ReadForPowerOff, ProcessEvent, RequestBeep
      <3>8. ScaleConnects \/ ScaleDrops => UNCHANGED power
        BY DEF ScaleConnects, ScaleDrops
      <3> QED
        BY <1>1, <3>2, <3>3, <3>4, <3>5, <3>6, <3>7, <3>8 DEF Next, vars
    <2> QED
      BY <2>1, <2>2
  <1>2. Spec => [][Held]_vars
    BY <1>1, CommandInvariance, PTL DEF Spec
  <1> QED
    BY <1>2, PTL DEF PowerOffHolds

-----------------------------------------------------------------------------
(* The choice of a scale. *)

Addresses == Scales \cup {"none"}

SeekerPlaces == {"tick", "reset", "readpref", "readmode", "judge", "linkcheck", "note", "noted",
                 "discover", "mode", "poll", "scanned", "start", "launch"}

Seekers == [pc : SeekerPlaces, from : {"disc", "link"}, reasons : SUBSET {"mode", "identity"},
            mac : Addresses, mode : {"FIRST", "PREFER", "ONLY"}]

DiscoveryTypeOK ==
  /\ pref \in [mac : Addresses, dirty : BOOLEAN, until : Nat,
               reasons : SUBSET {"mode", "identity"}, forgot : Nat]
  /\ policy \in [mode : Modes, ble : BOOLEAN, ap : BOOLEAN]
  /\ radio \in [st : {"idle", "silenced", "scanning", "connecting", "linked"}, mac : Addresses]
  /\ seeker \in Seekers
  /\ chooser \in [pc : {"idle", "reset", "copy", "decide", "clear"}, mac : Addresses]
  /\ saved \in [known : Addresses, pending : BOOLEAN, image : Addresses \cup {"idle", "saved", "failed"},
                flash : Addresses, changes : Nat]
  /\ ticks \in Nat

\* The address that was handed over last is the one of the record in flight, and
\* of flash once that record is written; the control task clears the mark only
\* for that address; and a preferred scale without the mark is that address.
HandedOver ==
  /\ saved.image \in Addresses => saved.known = saved.image
  /\ saved.image = "saved" => saved.known = saved.flash
  /\ saved.image = "idle" => saved.pending \/ saved.known = saved.flash
  /\ chooser.pc = "clear" => chooser.mac = saved.known
  /\ pref.dirty \/ saved.pending \/ saved.image = "failed" \/ pref.mac = saved.known

\* Each step keeps the types and what the store holds or is about to be given.
LEMMA DiscoveryInductive ==
  ASSUME DiscoveryTypeOK, HandedOver, [DiscoveryNext]_discoveryVars
  PROVE  DiscoveryTypeOK' /\ HandedOver'
  <1> USE DiscoveryAssumption DEF DiscoveryTypeOK, HandedOver, Addresses
  <1>0. "idle" \notin Addresses /\ "saved" \notin Addresses /\ "failed" \notin Addresses
    OBVIOUS
  <1>1. ASSUME NEW n \in Modes, SetMode(n)  PROVE DiscoveryTypeOK' /\ HandedOver'
    BY <1>1 DEF SetMode, Chosen, Count
  <1>2. ASSUME NEW s \in Addresses, Select(s)  PROVE DiscoveryTypeOK' /\ HandedOver'
    <2>1. /\ saved' = [saved EXCEPT !.changes = @ + 1] /\ UNCHANGED <<policy, radio, seeker, ticks>>
          /\ pref' = [pref EXCEPT !.mac = s, !.dirty = TRUE, !.until = 0,
                                  !.reasons = @ \cup {"identity"}]
          /\ chooser' = [pc |-> "copy", mac |-> "none"]
      BY <1>2 DEF Select, Chosen, Count
    <2>2. [pref EXCEPT !.mac = s, !.dirty = TRUE, !.until = 0, !.reasons = @ \cup {"identity"}]
            \in [mac : Addresses, dirty : BOOLEAN, until : Nat,
                 reasons : SUBSET {"mode", "identity"}, forgot : Nat]
      OBVIOUS
    <2> QED
      BY <2>1, <2>2
  <1>3. ASSUME NEW ok \in BOOLEAN, WriteEnds(ok)  PROVE DiscoveryTypeOK' /\ HandedOver'
    <2>1. /\ saved.image \in Addresses /\ UNCHANGED <<pref, policy, radio, seeker, chooser, ticks>>
          /\ \/ saved' = [saved EXCEPT !.flash = saved.image, !.image = "saved"]
             \/ saved' = [saved EXCEPT !.image = "failed"]
      <3>1. CASE ok
        BY <1>3, <3>1 DEF WriteEnds
      <3>2. CASE ~ok
        BY <1>3, <3>2 DEF WriteEnds
      <3> QED
        BY <3>1, <3>2
    <2>2. saved' \in [known : Addresses, pending : BOOLEAN,
                      image : Addresses \cup {"idle", "saved", "failed"},
                      flash : Addresses, changes : Nat]
      BY <2>1
    <2>3. CASE saved' = [saved EXCEPT !.image = "failed"]
      BY <1>0, <2>1, <2>2, <2>3
    <2>4. CASE saved' = [saved EXCEPT !.flash = saved.image, !.image = "saved"]
      <3>1. /\ saved'.known = saved.known /\ saved'.image = "saved" /\ saved'.flash = saved.image
            /\ saved'.pending = saved.pending
        BY <2>4
      <3> QED
        BY <1>0, <2>1, <2>2, <3>1
    <2> QED
      BY <2>1, <2>3, <2>4
  <1>4. CASE Forget
    <2>1. (Now + PauseTicks) % ClockRange \in Nat
      BY DEF Now
    <2> QED
      BY <1>4, <2>1 DEF Forget, Chosen, Count
  <1>5. CASE SwitchBle \/ SetupNetwork \/ Pass
    <2>1. \A b \in BOOLEAN : /\ [policy EXCEPT !.ble = b] \in [mode : Modes, ble : BOOLEAN, ap : BOOLEAN]
                            /\ [policy EXCEPT !.ap = b] \in [mode : Modes, ble : BOOLEAN, ap : BOOLEAN]
      OBVIOUS
    <2>2. (~policy.ble) \in BOOLEAN /\ (~policy.ap) \in BOOLEAN
      OBVIOUS
    <2>3. policy' \in [mode : Modes, ble : BOOLEAN, ap : BOOLEAN]
      BY <1>5, <2>1, <2>2 DEF SwitchBle, SetupNetwork, Pass
    <2>4. saved' = saved \/ saved' = [saved EXCEPT !.changes = @ + 1]
      BY <1>5 DEF SwitchBle, SetupNetwork, Pass, Count
    <2>5. UNCHANGED <<pref, radio, seeker, chooser>>
      BY <1>5 DEF SwitchBle, SetupNetwork, Pass
    <2>6. ticks' \in Nat
      <3>1. ticks' = ticks \/ ticks' = ticks + 1
        BY <1>5 DEF SwitchBle, SetupNetwork, Pass
      <3> QED
        BY <3>1
    <2> QED
      BY <2>3, <2>4, <2>5, <2>6
  <1>6. CASE LinkLost
    BY <1>6 DEF LinkLost, Quiet, Silenced
  <1>7. CASE ModeReset
    BY <1>7 DEF ModeReset, NoChoice
  <1>8. CASE CopyDirty
    BY <1>8 DEF CopyDirty, NoChoice
  <1>9. CASE Decide
    <2>1. CASE chooser.mac = saved.known
      BY <1>9, <2>1 DEF Decide
    <2>2. CASE chooser.mac # saved.known /\ UNCHANGED saved
      BY <1>9, <2>2 DEF Decide, NoChoice
    <2>3. CASE /\ chooser.mac # saved.known /\ saved.image = "idle"
               /\ saved' = [saved EXCEPT !.known = chooser.mac, !.pending = TRUE]
      <3>1. chooser' = NoChoice /\ UNCHANGED <<pref, policy, radio, seeker, ticks>>
        BY <1>9, <2>3 DEF Decide
      <3> QED
        BY <2>3, <3>1 DEF NoChoice
    <2> QED
      BY <1>9, <2>1, <2>2, <2>3 DEF Decide
  <1>10. CASE ClearDirty
    <2>1. /\ chooser.mac = saved.known /\ chooser' = NoChoice
          /\ pref' = [pref EXCEPT !.dirty = @ /\ pref.mac # saved.known]
          /\ UNCHANGED <<policy, radio, seeker, saved, ticks>>
      BY <1>10 DEF ClearDirty, Clears
    <2>2. pref' \in [mac : Addresses, dirty : BOOLEAN, until : Nat,
                     reasons : SUBSET {"mode", "identity"}, forgot : Nat]
      BY <2>1
    <2>3. pref'.dirty \/ (~pref.dirty /\ pref'.mac = pref.mac) \/ pref'.mac = saved.known
      BY <2>1
    <2> QED
      BY <2>1, <2>2, <2>3 DEF NoChoice
  <1>11. CASE Dispatch
    <2>1. /\ chooser.pc = "idle" /\ saved.image = "idle" /\ saved.pending
          /\ UNCHANGED <<pref, policy, radio, seeker, chooser, ticks>>
      BY <1>11 DEF Dispatch
    <2>2. CASE saved' = [saved EXCEPT !.known = pref.mac, !.image = pref.mac, !.pending = FALSE]
      BY <2>1, <2>2
    <2>3. CASE saved' = [saved EXCEPT !.known = pref.mac]
      <3>1. saved' \in [known : Addresses, pending : BOOLEAN,
                        image : Addresses \cup {"idle", "saved", "failed"},
                        flash : Addresses, changes : Nat]
        BY <2>1, <2>3
      <3>2. saved'.pending /\ saved'.image = "idle" /\ saved'.known = pref.mac
        BY <2>1, <2>3
      <3> QED
        BY <2>1, <3>1, <3>2
    <2> QED
      BY <1>11, <2>2, <2>3 DEF Dispatch
  <1>12. CASE PersistResult
    <2> DEFINE ok == saved.image = "saved"
               again == pref.dirty /\ pref.mac # saved.known
                        /\ radio.st \notin {"connecting", "linked"}
    <2>1. /\ chooser.pc = "idle" /\ saved.image \in {"saved", "failed"}
          /\ pref' = IF ok THEN [pref EXCEPT !.dirty = @ /\ pref.mac # saved.known] ELSE pref
          /\ saved' = [saved EXCEPT !.image = "idle", !.pending = @ \/ ~ok \/ again]
          /\ UNCHANGED <<policy, radio, seeker, chooser, ticks>>
      BY <1>12 DEF PersistResult, Clears
    <2>2. pref' \in [mac : Addresses, dirty : BOOLEAN, until : Nat,
                     reasons : SUBSET {"mode", "identity"}, forgot : Nat]
      BY <2>1
    <2>3. pref'.dirty \/ (~pref.dirty /\ pref'.mac = pref.mac) \/ pref'.mac = saved.known
      BY <2>1
    <2>4. /\ saved' \in [known : Addresses, pending : BOOLEAN,
                         image : Addresses \cup {"idle", "saved", "failed"},
                         flash : Addresses, changes : Nat]
          /\ saved'.image = "idle" /\ saved'.known = saved.known /\ saved'.flash = saved.flash
          /\ saved.pending => saved'.pending
          /\ saved.image = "failed" => saved'.pending
      BY <2>1
    <2> HIDE DEF ok, again
    <2> QED
      BY <2>1, <2>2, <2>3, <2>4
  <1>13. CASE SeekerStep
    <2>0. seeker.mac \in Addresses
      BY DEF Seekers
    <2> DEFINE Radios == [st : {"idle", "silenced", "scanning", "connecting", "linked"}, mac : Addresses]
    <2>1. \A r \in Dropped(radio) : r \in Radios
      BY DEF Dropped, Quiet, Silenced
    <2>2. radio' \in Radios
      <3>1. CASE PollConnecting
        BY <2>1, <3>1 DEF PollConnecting
      <3>2. CASE PollScanning
        BY <3>2 DEF PollScanning, Quiet
      <3>3. CASE Launch
        BY <2>0, <3>3 DEF Launch, Quiet
      <3> QED
        BY <1>13, <2>1, <3>1, <3>2, <3>3
        DEF SeekerStep, TickOff, TickLinked, TickDiscovery, TakeReset, ReadPreferred, ReadMode,
            Judge, LinkCheck, NoteMode, NoteScale, Discover, CacheMode, PollIdle, Scanned, StartRead
    <2>4. seeker' \in Seekers
      <3> USE DEF Seekers, SeekerPlaces
      <3>1. AtTick \in Seekers /\ \A p \in SeekerPlaces : [AtTick EXCEPT !.pc = p] \in Seekers
        BY DEF AtTick
      <3>2. \A p \in SeekerPlaces, f \in {"disc", "link"}, n \in {"FIRST", "PREFER", "ONLY"}, a \in Addresses :
              /\ [seeker EXCEPT !.pc = p] \in Seekers
              /\ [seeker EXCEPT !.pc = p, !.from = f] \in Seekers
              /\ [seeker EXCEPT !.pc = p, !.mode = n] \in Seekers
              /\ [seeker EXCEPT !.pc = p, !.mac = a] \in Seekers
        <4> TAKE p \in SeekerPlaces, f \in {"disc", "link"}, n \in {"FIRST", "PREFER", "ONLY"}, a \in Addresses
        <4>1. [seeker EXCEPT !.pc = p] \in Seekers
          OBVIOUS
        <4>2. [seeker EXCEPT !.pc = p, !.from = f] \in Seekers
          OBVIOUS
        <4>3. [seeker EXCEPT !.pc = p, !.mode = n] \in Seekers
          OBVIOUS
        <4>4. [seeker EXCEPT !.pc = p, !.mac = a] \in Seekers
          OBVIOUS
        <4> QED
          BY <4>1, <4>2, <4>3, <4>4
      <3>3. /\ [seeker EXCEPT !.pc = "readpref", !.reasons = pref.reasons] \in Seekers
            /\ \A a \in Addresses : [AtTick EXCEPT !.pc = "launch", !.mac = a] \in Seekers
        BY DEF AtTick
      <3>4. /\ Filter(TRUE) \in Addresses /\ Filter(FALSE) \in Addresses
            /\ \A b : Filter(b) \in Addresses
        BY DEF Filter
      <3> HIDE DEF Seekers, DiscoveryTypeOK, HandedOver, Addresses
      <3> USE DEF SeekerPlaces
      <3>5. policy.mode \in Modes /\ pref.mac \in Addresses /\ "none" \in Addresses
        BY DEF DiscoveryTypeOK, Addresses
      <3>6. CASE ReadPreferred \/ ReadMode \/ NoteMode \/ CacheMode
        <4>1. CASE ReadPreferred
          BY <3>2, <3>5, <4>1 DEF ReadPreferred
        <4>2. CASE ReadMode \/ NoteMode \/ CacheMode
          BY <3>2, <3>5, <4>2 DEF ReadMode, NoteMode, CacheMode
        <4> QED
          BY <3>6, <4>1, <4>2
      <3>7. CASE TickLinked \/ TickDiscovery \/ TickOff
        BY <3>2, <3>7, seeker \in Seekers DEF TickLinked, TickDiscovery, TickOff, DiscoveryTypeOK
      <3>8. CASE TakeReset
        BY <3>1, <3>3, <3>8 DEF TakeReset, Fresh, Home, Onward, AfterReset
      <3>9. CASE Judge \/ LinkCheck \/ NoteScale
        BY <3>1, <3>9 DEF Judge, LinkCheck, NoteScale, Fresh, Home, Onward, AfterReset
      <3>10. CASE Discover \/ PollConnecting \/ PollScanning \/ PollIdle \/ Launch
        BY <3>1, <3>2, <3>5, <3>10 DEF Discover, PollConnecting, PollScanning, PollIdle, Launch, Go, Fresh, Home
      <3>11. CASE Scanned
        BY <3>1, <3>3, <3>4, <3>5, <3>11 DEF Scanned, Home
      <3>12. CASE StartRead
        BY <3>3, <3>4, <3>12 DEF StartRead
      <3> QED
        BY <1>13, <3>6, <3>7, <3>8, <3>9, <3>10, <3>11, <3>12 DEF SeekerStep
    <2>3. /\ UNCHANGED <<policy, chooser, saved, ticks>>
          /\ pref' \in [mac : Addresses, dirty : BOOLEAN, until : Nat,
                        reasons : SUBSET {"mode", "identity"}, forgot : Nat]
          /\ pref'.dirty \/ (~pref.dirty /\ pref'.mac = pref.mac)
      BY <1>13 DEF SeekerStep, TickOff, TickLinked, TickDiscovery, TakeReset, ReadPreferred, ReadMode,
                   Judge, LinkCheck, NoteMode, NoteScale, Discover, CacheMode, PollConnecting,
                   PollScanning, PollIdle, Scanned, StartRead, Launch
    <2> QED
      BY <2>2, <2>3, <2>4
  <1>14. CASE UNCHANGED discoveryVars
    BY <1>14 DEF discoveryVars
  <1> QED
    BY <1>1, <1>2, <1>3, <1>4, <1>5, <1>6, <1>7, <1>8, <1>9, <1>10, <1>11, <1>12, <1>13, <1>14
    DEF DiscoveryNext, ChooserStep

\* A remembered scale that is not marked for saving is the one in flash, on its way
\* there, or kept by a write that failed and is repeated (notePreferredScale and
\* the persistence coordinator), for every set of scales.
THEOREM NoChoiceIsForgotten == DiscoverySpec => []CleanIsSaved
  <1>1. DiscoveryInit => DiscoveryTypeOK /\ HandedOver
    BY DiscoveryAssumption DEF DiscoveryInit, DiscoveryTypeOK, HandedOver, Addresses, Quiet, AtTick, NoChoice,
                                 Seekers, SeekerPlaces
  <1>2. DiscoveryTypeOK /\ HandedOver => CleanIsSaved
    BY DiscoveryAssumption DEF DiscoveryTypeOK, HandedOver, CleanIsSaved, Addresses
  <1> QED
    BY <1>1, <1>2, DiscoveryInductive, PTL DEF DiscoverySpec

-----------------------------------------------------------------------------
(* The buzzer. *)

BuzzerFields == {"active", "beep", "on", "limited", "over", "due", "notes",
                 "pending", "pendingLimited", "armed", "called"}
IsBuzzer(b) == b = [f \in BuzzerFields |-> b[f]]

\* A sound waits only behind one that ends by itself.
OrderlyWait(b) ==
  /\ IsBuzzer(b)
  /\ b.active = NoSound \/ Loops(b.active) => b.pending = NoSound

\* What happens to the sound that waits: it stays, or nothing waited, or it plays.
Kept(b, n) ==
  \/ n.pending = b.pending
  \/ b.pending = NoSound
  \/ n.active = b.pending
  \/ b.pending = Melody \/ ~Alarm(b.pending)

\* Clearing the output keeps the sound that waits; dropping the queue empties it.
LEMMA ClearedWaits ==
  ASSUME NEW b, IsBuzzer(b)
  PROVE  /\ IsBuzzer(Cleared(b)) /\ Cleared(b).active = NoSound
         /\ Cleared(b).pending = b.pending
         /\ IsBuzzer(DropWaiting(b)) /\ DropWaiting(b).active = b.active
         /\ DropWaiting(b).pending = NoSound
  <1>1. IsBuzzer(Cleared(b)) /\ Cleared(b).active = NoSound /\ Cleared(b).pending = b.pending
    BY DEF Cleared, Silent, IsBuzzer, BuzzerFields
  <1>2. IsBuzzer(DropWaiting(b)) /\ DropWaiting(b).active = b.active /\ DropWaiting(b).pending = NoSound
    BY DEF DropWaiting, IsBuzzer, BuzzerFields
  <1> QED
    BY <1>1, <1>2

\* A failing timer silences the buzzer, so nothing waits behind a sound.
LEMMA FailedIsOrderly ==
  ASSUME NEW b, IsBuzzer(b), NEW fault
  PROVE  OrderlyWait(TimerFailed(b, fault))
  BY DEF TimerFailed, Silent, OrderlyWait, IsBuzzer, BuzzerFields

\* Arming the timer and stopping it leave the sounds alone, unless it fails.
LEMMA TimerIsOrderly ==
  ASSUME NEW b, OrderlyWait(b), NEW fault
  PROVE  /\ OrderlyWait(Arm(b, fault)) /\ OrderlyWait(Disarm(b, fault))
         /\ fault = "none" => /\ Arm(b, fault).active = b.active /\ Arm(b, fault).pending = b.pending
                              /\ Disarm(b, fault).active = b.active
                              /\ Disarm(b, fault).pending = b.pending
  <1>1. /\ OrderlyWait([b EXCEPT !.armed = TRUE]) /\ OrderlyWait([b EXCEPT !.armed = FALSE])
        /\ [b EXCEPT !.armed = TRUE].active = b.active /\ [b EXCEPT !.armed = TRUE].pending = b.pending
        /\ [b EXCEPT !.armed = FALSE].active = b.active /\ [b EXCEPT !.armed = FALSE].pending = b.pending
    BY DEF OrderlyWait, IsBuzzer, BuzzerFields
  <1>2. OrderlyWait(TimerFailed(b, fault))
    BY FailedIsOrderly DEF OrderlyWait
  <1> QED
    BY <1>1, <1>2 DEF Arm, Disarm

\* What an operation does to the buzzer, with or without a fault of its timer.
Orderly(b, n, fault) == OrderlyWait(n) /\ (fault = "none" => Kept(b, n))

\* A note or a pause that is armed leaves the queue alone.
LEMMA PhaseIsOrderly ==
  ASSUME NEW b, OrderlyWait(b), NEW beep, NEW on, NEW fault
  PROVE  /\ Orderly(b, Arm([b EXCEPT !.beep = beep, !.on = on, !.due = FALSE], fault), fault)
         /\ Orderly(b, Arm([b EXCEPT !.on = on, !.due = FALSE], fault), fault)
  <1>1. LET p == [b EXCEPT !.beep = beep, !.on = on, !.due = FALSE]
            q == [b EXCEPT !.on = on, !.due = FALSE] IN
        /\ IsBuzzer(p) /\ p.active = b.active /\ p.pending = b.pending
        /\ IsBuzzer(q) /\ q.active = b.active /\ q.pending = b.pending
    BY DEF OrderlyWait, IsBuzzer, BuzzerFields
  <1> QED
    BY <1>1, TimerIsOrderly DEF Orderly, OrderlyWait, Kept

\* startSoundLocked plays the sound it is given and keeps the queue, which is
\* empty when the sound loops.
LEMMA StartIsOrderly ==
  ASSUME NEW b, IsBuzzer(b), NEW s, s # NoSound, Loops(s) => b.pending = NoSound, NEW limited, NEW fault
  PROVE  /\ OrderlyWait(Start(b, s, limited, fault))
         /\ fault = "none" => /\ Start(b, s, limited, fault).active = s
                              /\ Start(b, s, limited, fault).pending = b.pending
  <1> DEFINE l == limited /\ Loops(s)
             t == IF s = Melody THEN tune ELSE NoSound
             p == [b EXCEPT !.active = s, !.beep = 1, !.limited = l, !.over = FALSE, !.notes = t]
             on == Note(p).tone
             q == [p EXCEPT !.on = on, !.due = FALSE]
  <1>1. Start(b, s, limited, fault) = Arm(q, fault)
    BY DEF Start, StartNote
  <1> HIDE DEF l, t
  <1>2. IsBuzzer(p) /\ p.active = s /\ p.pending = b.pending
    BY DEF IsBuzzer, BuzzerFields
  <1> HIDE DEF p, on
  <1>3. IsBuzzer(q) /\ q.active = s /\ q.pending = b.pending
    BY <1>2 DEF IsBuzzer, BuzzerFields
  <1> HIDE DEF q
  <1>4. OrderlyWait(q)
    BY <1>3 DEF OrderlyWait
  <1> QED
    BY <1>1, <1>3, <1>4, TimerIsOrderly

\* startPendingDrainedLocked: what waited is next.
LEMMA DrainIsOrderly ==
  ASSUME NEW b, IsBuzzer(b), NEW fault
  PROVE  Orderly(b, Drain(b, fault), fault)
  <1> DEFINE d == DropWaiting(b)
  <1>1. IsBuzzer(d) /\ d.pending = NoSound /\ OrderlyWait(d)
    BY ClearedWaits DEF OrderlyWait
  <1> HIDE DEF d
  <1>2. CASE b.pending # NoSound /\ Startable(b.pending)
    <2>1. Drain(b, fault) = Start(d, b.pending, b.pendingLimited, fault)
      BY <1>2 DEF Drain, d
    <2>2. /\ OrderlyWait(Start(d, b.pending, b.pendingLimited, fault))
          /\ fault = "none" =>
               Start(d, b.pending, b.pendingLimited, fault).active = b.pending
      <3>1. IsBuzzer(d) /\ b.pending # NoSound /\ (Loops(b.pending) => d.pending = NoSound)
        BY <1>1, <1>2
      <3>2. \A l : /\ OrderlyWait(Start(d, b.pending, l, fault))
                   /\ fault = "none" => Start(d, b.pending, l, fault).active = b.pending
        BY <3>1, StartIsOrderly
      <3> QED
        BY <3>2
    <2> QED
      BY <2>1, <2>2 DEF Orderly, Kept
  <1>3. CASE ~(b.pending # NoSound /\ Startable(b.pending))
    <2>1. Drain(b, fault) = Disarm(d, fault)
      BY <1>3 DEF Drain, d
    <2>2. b.pending = NoSound \/ b.pending = Melody
      BY <1>3 DEF Startable
    <2> QED
      BY <1>1, <2>1, <2>2, TimerIsOrderly DEF Orderly, Kept
  <1> QED
    BY <1>2, <1>3

\* The end of a sound drains the queue.
LEMMA FinishIsOrderly ==
  ASSUME NEW b, IsBuzzer(b), NEW fault
  PROVE  Orderly(b, Finish(b, fault), fault)
  <1>1. IsBuzzer(Cleared(b)) /\ Cleared(b).pending = b.pending
    BY ClearedWaits
  <1>2. Orderly(Cleared(b), Finish(b, fault), fault)
    BY <1>1, DrainIsOrderly DEF Finish
  <1> QED
    BY <1>1, <1>2 DEF Orderly, Kept

\* service(): a note, a pause, the next sound or silence.
LEMMA ServicedIsOrderly ==
  ASSUME NEW b, OrderlyWait(b), NEW fault
  PROVE  Orderly(b, Serviced(b, fault), fault)
  <1>1. Orderly(b, b, fault)
    BY DEF Orderly, Kept
  <1>2. Orderly(b, Finish(b, fault), fault)
    BY FinishIsOrderly DEF OrderlyWait
  <1>3. /\ Orderly(b, Pause(b, fault), fault) /\ Orderly(b, NextNote(b, fault), fault)
        /\ \A sounds : Orderly(b, FromTheTop(b, sounds, fault), fault)
    <2>1. Orderly(b, Pause(b, fault), fault)
      BY PhaseIsOrderly DEF Pause
    <2>2. Orderly(b, NextNote(b, fault), fault)
      <3> DEFINE p == [b EXCEPT !.beep = @ + 1]
                 on == Note(p).tone
      <3>1. NextNote(b, fault) = Arm([p EXCEPT !.on = on, !.due = FALSE], fault)
        BY DEF NextNote, StartNote
      <3>2. OrderlyWait(p) /\ p.active = b.active /\ p.pending = b.pending
        BY DEF OrderlyWait, IsBuzzer, BuzzerFields
      <3> HIDE DEF p, on
      <3>3. Orderly(p, NextNote(b, fault), fault)
        BY <3>1, <3>2, PhaseIsOrderly
      <3> QED
        BY <3>2, <3>3 DEF Orderly, Kept
    <2>3. ASSUME NEW sounds PROVE Orderly(b, FromTheTop(b, sounds, fault), fault)
      BY PhaseIsOrderly DEF FromTheTop
    <2> QED
      BY <2>1, <2>2, <2>3
  <1>4. Orderly(b, EndOfTone(b, fault), fault)
    <2> DEFINE top == Catalog[b.active].notes[1].tone /\ ~Catalog[b.active].notes[1].gap
    <2>1. \/ EndOfTone(b, fault) = Pause(b, fault)
          \/ EndOfTone(b, fault) = FromTheTop(b, top, fault)
          \/ EndOfTone(b, fault) = Finish(b, fault)
          \/ EndOfTone(b, fault) = NextNote(b, fault)
      BY DEF EndOfTone
    <2> QED
      BY <1>2, <1>3, <2>1
  <1>5. Orderly(b, EndOfPause(b, fault), fault)
    <2> DEFINE top == Catalog[b.active].notes[1].tone
    <2>1. \/ EndOfPause(b, fault) = FromTheTop(b, TRUE, fault)
          \/ EndOfPause(b, fault) = FromTheTop(b, top, fault)
          \/ EndOfPause(b, fault) = NextNote(b, fault)
          \/ EndOfPause(b, fault) = Finish(b, fault)
      BY DEF EndOfPause
    <2> QED
      BY <1>2, <1>3, <2>1
  <1> QED
    BY <1>1, <1>2, <1>4, <1>5 DEF Serviced

\* acceptLocked: no request takes the place of an alert that waits, and no sound
\* that goes on by itself starts while one waits.
LEMMA AcceptIsOrderly ==
  ASSUME NEW b0, OrderlyWait(b0), NEW s \in Sounds, NEW limited, NEW fault
  PROVE  Orderly(b0, Accept(b0, s, limited, fault).buzzer, fault)
  <1> DEFINE b == IF GivesWay(b0, s) THEN Cleared(b0) ELSE b0
  <1>1. s # NoSound /\ ~(Alarm(s) /\ Loops(s))
    BY BuzzerAssumption DEF Sounds, NoSound, Alarm, Loops
  <1>2. /\ IsBuzzer(b) /\ b.pending = b0.pending
        /\ b = b0 \/ (b.active = NoSound /\ Alarm(s) /\ s # Melody)
    BY ClearedWaits DEF OrderlyWait, GivesWay
  <1>3. Loops(b.active) => b = b0 /\ b.pending = NoSound
    BY <1>2 DEF OrderlyWait, Loops
  <1> HIDE DEF b
  <1>4. CASE Loops(b.active) /\ s = b.active
    <2> DEFINE n == [b EXCEPT !.limited = limited, !.over = FALSE]
    <2>1. Accept(b0, s, limited, fault).buzzer = n
      <3>1. Accept(b0, s, limited, fault) = Verdict(n, TRUE)
        BY <1>4 DEF Accept, Loops, b
      <3> QED
        BY <3>1 DEF Verdict
    <2>2. IsBuzzer(n) /\ n.active = b.active /\ n.pending = b.pending
      BY <1>2 DEF IsBuzzer, BuzzerFields
    <2> HIDE DEF n
    <2> QED
      BY <1>2, <1>3, <1>4, <2>1, <2>2 DEF Orderly, OrderlyWait, Kept
  <1>5. CASE Loops(b.active) /\ s # b.active
    <2> DEFINE d == DropWaiting(b)
               n == [d EXCEPT !.on = FALSE]
    <2>1. Accept(b0, s, limited, fault).buzzer
            = IF Startable(s) THEN Start(n, s, limited, fault) ELSE n
      <3>1. Accept(b0, s, limited, fault) = Begun(n, s, limited, fault)
        BY <1>5 DEF Accept, Loops, b, d
      <3> HIDE DEF n
      <3> QED
        BY <3>1 DEF Begun, Verdict
    <2>2. IsBuzzer(d) /\ d.pending = NoSound
      BY <1>2, ClearedWaits
    <2> HIDE DEF d
    <2>3. IsBuzzer(n) /\ n.pending = NoSound
      BY <2>2 DEF IsBuzzer, BuzzerFields
    <2> HIDE DEF n
    <2>4. OrderlyWait(Start(n, s, limited, fault)) /\ OrderlyWait(n)
      BY <1>1, <2>3, StartIsOrderly DEF OrderlyWait
    <2> QED
      BY <1>2, <1>3, <1>5, <2>1, <2>4 DEF Orderly, Kept
  <1>6. CASE b.active = NoSound
    <2>1. Accept(b0, s, limited, fault).buzzer
            = IF Startable(s) THEN Start(b, s, limited, fault) ELSE b
      BY <1>6 DEF Accept, Begun, Verdict, Loops, b
    <2>2. Loops(s) => b.pending = NoSound
      BY <1>1, <1>2, <1>6 DEF OrderlyWait
    <2>3. Startable(s) \/ b = b0
      BY <1>2 DEF Startable
    <2>4. OrderlyWait(Start(b, s, limited, fault))
          /\ (fault = "none" => Start(b, s, limited, fault).pending = b.pending)
      BY <1>1, <1>2, <2>2, StartIsOrderly
    <2> QED
      BY <1>2, <2>1, <2>3, <2>4 DEF Orderly, Kept
  <1>7. CASE ~Loops(b.active) /\ b.active # NoSound
    <2>1. b = b0
      BY <1>2, <1>7
    <2>2. \A l : /\ IsBuzzer(Waits(b, s, l)) /\ Waits(b, s, l).active = b.active
      BY <1>2 DEF Waits, IsBuzzer, BuzzerFields
    <2>3. \A l : OrderlyWait(Waits(b, s, l))
      BY <1>7, <2>2 DEF OrderlyWait
    <2>4. CASE b.pending = NoSound
      <3>1. Accept(b0, s, limited, fault).buzzer = Waits(b, s, limited)
        BY <1>7, <2>4 DEF Accept, Verdict, b
      <3> QED
        BY <2>1, <2>3, <2>4, <3>1 DEF Orderly, Kept
    <2>5. CASE b.pending # NoSound /\ Outranks(b, s)
      <3> DEFINE l == limited /\ Loops(s)
      <3>1. Accept(b0, s, limited, fault).buzzer = Waits(b, s, l)
        BY <1>7, <2>5 DEF Accept, Verdict, b
      <3>2. ~Alarm(b.pending)
        BY <2>5 DEF Outranks
      <3> HIDE DEF l
      <3> QED
        BY <2>1, <2>3, <3>1, <3>2 DEF Orderly, Kept
    <2>6. CASE b.pending # NoSound /\ ~Outranks(b, s)
      <3>1. Accept(b0, s, limited, fault).buzzer = b
        BY <1>7, <2>6 DEF Accept, Verdict, b
      <3> QED
        BY <2>1, <3>1 DEF Orderly, Kept
    <2> QED
      BY <2>4, <2>5, <2>6
  <1> QED
    BY <1>4, <1>5, <1>6, <1>7

RingFields == {"did", "asked", "got", "requests", "tests", "failures"}
BuzzerInv == OrderlyWait(buzzer) /\ ring = [f \in RingFields |-> ring[f]] /\ ring.failures \in Nat

\* Every step is orderly, and one that is not a stop keeps what waits unless the
\* timer fails in it.
LEMMA BuzzerStep ==
  ASSUME BuzzerInv, BuzzerNext
  PROVE  /\ BuzzerInv'
         /\ ring'.did # "stop" /\ ring'.failures = ring.failures => Kept(buzzer, buzzer')
  <1> USE DEF BuzzerInv
  <1>1. ASSUME NEW what, NEW fault, Did(what, fault)
        PROVE  /\ ring' = [f \in RingFields |-> ring'[f]] /\ ring'.failures \in Nat /\ ring'.did = what
               /\ ring'.failures = ring.failures => fault = "none"
    <2>1. ring' = [ring EXCEPT !.did = what, !.asked = NoSound, !.got = FALSE,
                               !.failures = IF fault = "none" THEN @ ELSE @ + 1]
      BY <1>1 DEF Did
    <2>2. ring' = [f \in RingFields |-> ring'[f]] /\ ring'.did = what
      BY <2>1 DEF RingFields
    <2>3. ring'.failures = IF fault = "none" THEN ring.failures ELSE ring.failures + 1
      BY <2>1 DEF RingFields
    <2> QED
      BY <2>2, <2>3
  <1>2. ASSUME NEW fault, NEW r, r = [ring EXCEPT !.failures = IF fault = "none" THEN @ ELSE @ + 1]
        PROVE  r.failures \in Nat /\ (r.failures = ring.failures => fault = "none")
    BY <1>2 DEF RingFields
  <1>3. ASSUME NEW s \in Sounds, NEW limited \in BOOLEAN, Request(s, limited)
        PROVE  BuzzerInv' /\ (ring'.failures = ring.failures => Kept(buzzer, buzzer'))
    <2>1. PICK fault \in Faults :
            /\ buzzer' = Accept(buzzer, s, limited, fault).buzzer
            /\ ring' = [ring EXCEPT !.did = "request", !.asked = s,
                          !.got = Accept(buzzer, s, limited, fault).got, !.requests = @ + 1,
                          !.failures = IF fault = "none" THEN @ ELSE @ + 1]
      BY <1>3 DEF Request
    <2>2. ring' = [f \in RingFields |-> ring'[f]]
      BY <2>1 DEF RingFields
    <2>3. ring'.failures = IF fault = "none" THEN ring.failures ELSE ring.failures + 1
      BY <2>1 DEF RingFields
    <2>4. Orderly(buzzer, buzzer', fault)
      BY <2>1, AcceptIsOrderly
    <2> QED
      BY <2>2, <2>3, <2>4 DEF Orderly
  <1>4. CASE TestPlays
    <2>1. PICK fault \in Faults :
            LET v == IF CanStartNow(buzzer) THEN Accept(buzzer, Melody, FALSE, fault)
                     ELSE Verdict(buzzer, FALSE) IN
            /\ buzzer' = v.buzzer
            /\ ring' = [ring EXCEPT !.did = "play test", !.got = v.got,
                          !.failures = IF fault = "none" THEN @ ELSE @ + 1]
      BY <1>4 DEF TestPlays
    <2>2. ring' = [f \in RingFields |-> ring'[f]]
      BY <2>1 DEF RingFields
    <2>3. ring'.failures = IF fault = "none" THEN ring.failures ELSE ring.failures + 1
      BY <2>1 DEF RingFields
    <2>4. Orderly(buzzer, buzzer', fault)
      <3>1. buzzer' = Accept(buzzer, Melody, FALSE, fault).buzzer \/ buzzer' = buzzer
        BY <2>1 DEF Verdict
      <3> QED
        <4>1. Melody \in Sounds
          BY BuzzerAssumption DEF Sounds
        <4>2. Orderly(buzzer, Accept(buzzer, Melody, FALSE, fault).buzzer, fault)
          BY <4>1, AcceptIsOrderly
        <4> QED
          BY <3>1, <4>2 DEF Orderly, Kept
    <2> QED
      BY <2>2, <2>3, <2>4 DEF Orderly
  <1>5. CASE LoopServices
    <2>1. PICK fault \in Faults : buzzer' = Serviced(buzzer, fault) /\ Did("service", fault)
      BY <1>5 DEF LoopServices
    <2> QED
      BY <1>1, <2>1, ServicedIsOrderly DEF Orderly
  <1>6. CASE Callback
    <2>1. PICK fault \in Faults :
            buzzer' = Serviced([buzzer EXCEPT !.called = FALSE], fault) /\ Did("service", fault)
      BY <1>6 DEF Callback
    <2>2. LET b == [buzzer EXCEPT !.called = FALSE] IN
          OrderlyWait(b) /\ b.pending = buzzer.pending
      BY DEF OrderlyWait, IsBuzzer, BuzzerFields
    <2>3. Orderly([buzzer EXCEPT !.called = FALSE], buzzer', fault)
      BY <2>1, <2>2, ServicedIsOrderly
    <2> QED
      BY <1>1, <2>1, <2>2, <2>3 DEF Orderly, Kept
  <1>7. CASE StopAll
    <2>1. PICK fault \in Faults :
            buzzer' = Disarm(DropWaiting(Cleared(buzzer)), fault) /\ Did("stop", fault)
      BY <1>7 DEF StopAll
    <2>2. OrderlyWait(DropWaiting(Cleared(buzzer)))
      BY ClearedWaits DEF OrderlyWait
    <2> QED
      BY <1>1, <2>1, <2>2, TimerIsOrderly
  <1>8. ASSUME NEW cues, NEW fault, buzzer' = Stops(buzzer, cues, fault), Did("stop", fault)
        PROVE  BuzzerInv' /\ ring'.did = "stop"
    <2> DEFINE c == IF buzzer.pending \in cues THEN DropWaiting(buzzer) ELSE buzzer
    <2>1. OrderlyWait(c)
      BY ClearedWaits DEF OrderlyWait
    <2>2. buzzer' = IF buzzer.active \in cues THEN Finish(c, fault) ELSE c
      BY <1>8 DEF Stops
    <2> HIDE DEF c
    <2> QED
      BY <1>1, <1>8, <2>1, <2>2, FinishIsOrderly DEF Orderly, OrderlyWait
  <1>9. CASE StopPulseTrains \/ \E s \in Sounds : StopSound(s)
    BY <1>8, <1>9 DEF StopPulseTrains, StopSound
  <1>10. CASE StopExtendedPulse
    <2> DEFINE c == IF Loops(buzzer.pending) THEN DropWaiting(buzzer) ELSE buzzer
    <2>1. OrderlyWait(c)
      BY ClearedWaits DEF OrderlyWait
    <2>2. PICK fault \in Faults : (buzzer' = Finish(c, fault) \/ buzzer' = c) /\ Did("stop", fault)
      BY <1>10 DEF StopExtendedPulse
    <2> HIDE DEF c
    <2> QED
      BY <1>1, <2>1, <2>2, FinishIsOrderly DEF Orderly, OrderlyWait
  <1>11. CASE BeginTest \/ SaveMelody \/ SwapNotes
    <2>1. buzzer' = buzzer
      BY <1>11 DEF BeginTest, SaveMelody, SwapNotes
    <2>2. ring' = [f \in RingFields |-> ring'[f]] /\ ring'.failures \in Nat
      <3>1. CASE SwapNotes
        BY <1>1, <3>1 DEF SwapNotes
      <3>2. CASE BeginTest
        BY <3>2 DEF BeginTest, RingFields
      <3>3. CASE SaveMelody
        BY <3>3 DEF SaveMelody, RingFields
      <3> QED
        BY <1>11, <3>1, <3>2, <3>3
    <2> QED
      BY <2>1, <2>2 DEF Kept
  <1>12. CASE PhaseElapses \/ DeadlinePasses \/ TimerFires
    <2>1. OrderlyWait(buzzer') /\ buzzer'.pending = buzzer.pending
      BY <1>12 DEF PhaseElapses, DeadlinePasses, TimerFires, OrderlyWait, IsBuzzer, BuzzerFields
    <2>2. Did("time", "none")
      BY <1>12 DEF PhaseElapses, DeadlinePasses, TimerFires
    <2> QED
      BY <1>1, <2>1, <2>2 DEF Kept
  <1> QED
    BY <1>3, <1>4, <1>5, <1>6, <1>7, <1>9, <1>10, <1>11, <1>12 DEF BuzzerNext

\* A high-priority alert that was accepted to wait sounds next, unless sounds are
\* stopped or the timer fails (acceptLocked, startPendingDrainedLocked), for any
\* catalog in which no sound of high priority loops.
THEOREM NoWaitingAlarmIsLost == BuzzerSpec => WaitingAlarmSounds
  <1>1. BuzzerInit => BuzzerInv
    BY DEF BuzzerInit, BuzzerInv, RingFields, Silent, OrderlyWait, IsBuzzer, BuzzerFields
  <1>2. BuzzerInv /\ [BuzzerNext]_buzzerVars => BuzzerInv'
    BY BuzzerStep DEF buzzerVars, BuzzerInv
  <1>3. BuzzerInv /\ [BuzzerNext]_buzzerVars =>
          [Alarm(buzzer.pending) /\ buzzer.pending # Melody /\ buzzer'.pending # buzzer.pending
           /\ ring'.did # "stop" /\ ring'.failures = ring.failures
             => buzzer'.active = buzzer.pending]_buzzerVars
    BY BuzzerStep DEF Kept, Alarm, buzzerVars
  <1> QED
    BY <1>1, <1>2, <1>3, PTL DEF BuzzerSpec, WaitingAlarmSounds

-----------------------------------------------------------------------------
(* The Bluetooth client.  The records are typed field by field; the invariant has a
   conjunct for each thing the worker, the host and the cleanup have to agree on,
   and each action is shown to keep all of them from what it changes. *)

Gatts == Nat \X Nat
LossReasons == {"none", "user", "reset", "unsupported", "scan", "connect", "gatt", "gap", "timeout", "command"}
EventKinds == {"scan", "connect", "disconnect", "gatt"}
HostEvents == [kind : EventKinds, op : Nat, gatt : Gatts, ok : BOOLEAN]
Linked == {"Connecting", "DiscoveringServices", "DiscoveringCharacteristics", "DiscoveringDescriptors",
           "Subscribing", "Initializing", "Ready"}
States == {"Idle", "Scanning", "CancelPending", "Backoff"} \cup Linked
Procedures == {"none", "scan", "select", "stopScan", "connect", "stopConnect", "gatt", "command", "terminate"}
ClientPlaces == {"home", "submit", "call", "end", "done", "finish", "reconcile", "clear", "scan", "service",
                 "pending", "events", "await", "judge"}
Results == [on : BOOLEAN, done : BOOLEAN, interrupted : BOOLEAN, ok : BOOLEAN]
StackFields == {"ready", "sync", "scan", "attempt", "link", "closing", "gatt", "acked", "quiet"}
HostStacks == [ready : BOOLEAN, sync : Nat \ {0}, scan : Nat, attempt : Nat, link : Nat,
           closing : BOOLEAN, gatt : Gatts, acked : Gatts, quiet : BOOLEAN]
HostTasks == [pc : {"idle", "push", "gap", "arm", "result"}, kind : EventKinds \cup {"none"}, op : Nat,
          gatt : Gatts, ok : BOOLEAN]
CleaningFields == {"op", "sync", "handle", "terminate", "gap"}
Cleaning == [op : Nat, sync : Nat, handle : BOOLEAN, terminate : BOOLEAN, gap : BOOLEAN]
TaskFields == {"pc", "proc", "back", "rc", "term", "reason", "initial", "rescan", "command", "op"}
Tasks == [pc : ClientPlaces, proc : Procedures, back : {"none", "clear", "pending"},
           rc : {"none", "ok", "busy", "error", "gone"}, term : BOOLEAN, reason : LossReasons,
           initial : {"Scanning", "Backoff"}, rescan : BOOLEAN,
           command : {"none", "ok", "failed", "rejected"}, op : Nat]
Flags == {"active", "handle", "connected", "pending", "submit", "silent", "gapInSubmit", "queued",
          "backoffScan", "closed"}
Numbers == {"sync", "scans", "scanOp", "linkOp", "commands"}
ClientFields == {"state", "gattOp", "write"} \cup Flags \cup Numbers
IsClient(c) ==
    /\ c = [f \in ClientFields |-> c[f]]
    /\ \A f \in Flags : c[f] \in BOOLEAN
    /\ \A f \in Numbers : c[f] \in Nat
    /\ c.state \in States /\ c.gattOp \in Gatts /\ c.write \in Results
InboxFields == {"critical", "candidate", "control"}
IsInbox(x) ==
    /\ x = [f \in InboxFields |-> x[f]]
    /\ x.critical \in Seq(HostEvents) /\ x.control \in Seq(HostEvents)
ClientTypeOK ==
    /\ stack \in HostStacks /\ host \in HostTasks /\ IsClient(client) /\ cleanup \in Cleaning
    /\ IsInbox(inbox) /\ task \in Tasks

\* What a step leaves of a record.
Same(fields, x, y, changed) == \A f \in fields \ changed : y[f] = x[f]

-----------------------------------------------------------------------------
(* The invariant. *)

Doing(procs) == task.proc \in procs /\ task.pc \in {"submit", "call", "end", "done"}
Entering(procs) == task.proc \in procs /\ task.pc \in {"submit", "call"}
Dark == stack.attempt = 0 /\ stack.link = 0
LeavingLink ==
    \/ task.pc \in {"clear", "scan"} \/ (task.pc = "reconcile" /\ task.back = "clear")
    \/ Doing({"stopScan", "stopConnect", "terminate"})

\* The state of the client, its operations, and where the worker is.
Phases ==
    /\ client.submit <=> task.pc \in {"call", "end"}
    /\ client.linkOp # 0 <=> client.state \in Linked
    /\ client.state \notin {"Idle", "Backoff"} => client.active
    /\ client.active => cleanup.op = 0 /\ client.sync # 0
    /\ client.active /\ (client.state = "Idle" \/ (client.state = "Backoff" /\ ~client.backoffScan)) =>
          Doing({"scan"}) \/ task.pc = "finish"
    /\ client.backoffScan => client.active
    /\ client.handle => client.linkOp # 0
    /\ client.pending => client.handle
    /\ LeavingLink => ~client.active
    /\ ~Doing({"none"})
    /\ Doing({"scan"}) => client.active /\ client.state \in {"Idle", "Backoff"}
    /\ Doing({"select"}) => client.state = "CancelPending"
    /\ client.state = "CancelPending" => Doing({"select"}) \/ task.pc = "finish"
    /\ Doing({"connect"}) => client.state = "Connecting"
    /\ Doing({"gatt"}) => client.state \in Linked \ {"Connecting", "Ready"}
    /\ task.pc \in {"pending", "events"} \/ (task.pc = "reconcile" /\ task.back # "clear")
          => client.sync \in {0, stack.sync}
    /\ task.pc \in {"pending", "events"} => cleanup.op = 0
    /\ Doing({"scan", "select", "connect", "gatt"}) => client.sync = stack.sync

\* What is on the air is of the operation in use or of the cleanup.
OnTheAir ==
    /\ ~stack.ready => Dark
    /\ client.sync # stack.sync => Dark
    /\ stack.attempt \in {0, client.linkOp, cleanup.op} /\ stack.link \in {0, client.linkOp, cleanup.op}
    /\ stack.link # 0 /\ stack.link = client.linkOp => client.handle
    /\ stack.attempt # 0 /\ stack.attempt = client.linkOp =>
          client.state = "Connecting" /\ ~client.connected /\ ~client.handle
    /\ client.pending \/ host.pc \in {"gap", "arm"} => stack.link = 0
    /\ Entering({"connect"}) => ~client.connected
    /\ Doing({"connect"}) /\ (task.pc \in {"submit", "call"} \/ task.rc # "ok") =>
          Dark /\ ~client.handle
    /\ task.pc = "finish" /\ ~task.term => Dark
    /\ task.reason = "reset" => ~task.term

\* The cleanup follows its link until it is gone.
Cleanups ==
    /\ cleanup.op = 0 => cleanup = NoCleanup
    /\ cleanup.op # 0 /\ cleanup.sync # stack.sync => Dark
    /\ cleanup.op # 0 /\ stack.link # 0 => cleanup.handle
    /\ cleanup.handle => stack.attempt = 0
    /\ cleanup.gap => cleanup.handle /\ stack.link = 0
    /\ cleanup.terminate => cleanup.handle
    /\ Doing({"terminate"}) =>
         /\ stack.attempt = 0 /\ stack.link \in {0, task.op}
         /\ task.pc \in {"end", "done"} /\ task.rc = "gone" => stack.link = 0

\* The latest link operation that may be met: the client's, or the one before the
\* scan under way.
Newest == IF client.active /\ client.linkOp = 0 THEN client.scans - 1 ELSE client.scans
\* What the client knew when an event of its link was reported.
Heard(e) ==
    client.linkOp # 0 /\ e.op = client.linkOp =>
       /\ e.kind = "connect" => client.connected /\ (~e.ok => Dark /\ ~client.handle)
       /\ e.kind = "disconnect" => client.pending
News ==
    /\ client.active => client.scans # 0
    /\ task.op <= Newest /\ stack.attempt <= Newest /\ stack.link <= Newest
    /\ client.linkOp <= Newest /\ cleanup.op <= Newest
    /\ stack.gatt[1] <= Newest /\ stack.acked[1] <= Newest /\ host.gatt[1] <= Newest
    /\ host.kind # "scan" => host.op <= Newest
    /\ host.pc = "push" => Heard(host) /\ host.kind # "none" /\ (host.kind = "gatt" => host.gatt[2] \in Stages)
    /\ host.pc = "result" => host.kind = "gatt" /\ host.gatt[2] # 0
IsCritical(e) == e.kind # "gatt" /\ (e.kind # "scan" => e.op <= Newest) /\ Heard(e)
IsControl(e) == e.kind = "gatt" /\ e.gatt[2] \in Stages
Mail ==
    /\ \A i \in 1..Len(inbox.critical) : IsCritical(inbox.critical[i])
    /\ \A i \in 1..Len(inbox.control) : IsControl(inbox.control[i])

\* The silence that the radio is to keep is armed, or will be when the submission ends.
Silence ==
    /\ stack.quiet => client.silent \/ (client.submit /\ (client.pending \/ client.gapInSubmit))
    /\ task.pc = "submit" /\ task.proc = "command" /\ stack.quiet => client.pending

\* How far a link came: the stage of its last GATT operation.
Rank(c) ==
    CASE c.state = "DiscoveringServices" -> 1
      [] c.state = "DiscoveringCharacteristics" -> 2
      [] c.state = "DiscoveringDescriptors" -> 3
      [] c.state = "Subscribing" -> 4
      [] c.state = "Initializing" -> 5
      [] c.state = "Ready" -> 5 + c.commands
      [] OTHER -> 0
Within(g) == client.linkOp # 0 /\ g[1] = client.linkOp => g[2] <= Rank(client)
Writing == Doing({"command"}) \/ task.pc = "await"

\* What the peer acknowledged, for the command under way and for the one reported.
Acks ==
    /\ client.gattOp # NoGatt => client.linkOp # 0 /\ client.gattOp = <<client.linkOp, Rank(client)>>
    /\ client.state # "Ready" => client.commands = 0
    /\ Within(stack.gatt) /\ Within(stack.acked) /\ Within(host.gatt)
    /\ stack.gatt # NoGatt => stack.gatt[2] # 0
    /\ Doing({"gatt", "command"}) => client.gattOp # NoGatt
    /\ Entering({"gatt", "command"}) => host.gatt # client.gattOp /\ stack.gatt # client.gattOp
    /\ host.pc = "result" /\ host.gatt = client.gattOp =>
          stack.gatt = NoGatt /\ (host.ok /\ host.gatt[2] > 5 => stack.acked = host.gatt)
    /\ client.write.on <=> Writing
    /\ Writing => /\ client.gattOp = <<client.linkOp, 5 + client.commands>> /\ client.commands # 0
                  /\ client.linkOp = task.op /\ client.state = "Ready" /\ task.command = "none"
    /\ client.write.on /\ client.write.done =>
          /\ ~Entering({"command"}) /\ stack.gatt = NoGatt
          /\ client.write.ok => stack.acked = client.gattOp
    /\ task.command # "none" => task.op # 0
    /\ task.command = "ok" /\ client.linkOp = task.op =>
          /\ client.state = "Ready" /\ client.gattOp = NoGatt /\ stack.gatt = NoGatt
          /\ stack.acked = <<client.linkOp, 5 + client.commands>>
    /\ task.pc = "home" => task.command = "none"

ClientInv == ClientTypeOK /\ Phases /\ OnTheAir /\ Cleanups /\ News /\ Mail /\ Silence /\ Acks

-----------------------------------------------------------------------------
(* Facts about the data. *)

\* The five stages of the discovery, each after the one before.
LEMMA DiscoveryIs ==
    /\ Len(Discovery) = 5 /\ Stages = 1..5
    /\ Discovery[1] = "DiscoveringServices" /\ Discovery[2] = "DiscoveringCharacteristics"
    /\ Discovery[3] = "DiscoveringDescriptors" /\ Discovery[4] = "Subscribing"
    /\ Discovery[5] = "Initializing"
    /\ \A i \in Stages : Discovery[i] \in Linked \ {"Connecting", "Ready"}
  BY DEF Discovery, Stages, Linked

\* What the empty records are.
LEMMA Blank ==
    /\ NoGatt \in Gatts /\ NoGatt[1] = 0 /\ NoGatt[2] = 0
    /\ NoHost \in HostTasks /\ NoHost.pc = "idle" /\ NoHost.kind = "none" /\ NoHost.gatt = NoGatt
    /\ NoHost.op = 0
    /\ NoCleanup \in Cleaning /\ NoCleanup.op = 0
  BY DEF NoHost, HostTasks, NoGatt, Gatts, NoCleanup, Cleaning

\* The newest word of the host is of some session.
LEMMA NewestIsNat == ClientTypeOK /\ News => Newest \in Nat
  BY DEF Newest, News, ClientTypeOK, IsClient, Numbers, Flags

\* An event is put behind a queue, or its first one is taken.
LEMMA EventsAppended ==
    \A q \in Seq(HostEvents), e \in HostEvents :
        /\ Append(q, e) \in Seq(HostEvents)
        /\ \A i \in 1..Len(Append(q, e)) :
              \/ i \in 1..Len(q) /\ Append(q, e)[i] = q[i]
              \/ ~(i \in 1..Len(q)) /\ Append(q, e)[i] = e
  OBVIOUS

\* An event that is taken was the first of its queue, and the others stay in order.
LEMMA EventsTaken ==
    \A q \in Seq(HostEvents) : q # <<>> =>
        /\ Head(q) = q[1] /\ 1 \in 1..Len(q) /\ Tail(q) \in Seq(HostEvents) /\ Head(q) \in HostEvents
        /\ \A i \in 1..Len(Tail(q)) : i + 1 \in 1..Len(q) /\ Tail(q)[i] = q[i + 1]
  OBVIOUS

\* The link in use stays the one in use, and what was known of it is not forgotten.
StillLinked ==
    client'.linkOp # 0 =>
       /\ client'.linkOp = client.linkOp
       /\ client.connected => client'.connected
       /\ client.pending => client'.pending
       /\ client.connected /\ Dark /\ ~client.handle => Dark' /\ ~client'.handle
LEMMA MailStays ==
    ASSUME ClientTypeOK, ClientTypeOK', Mail, StillLinked,
           inbox'.critical = inbox.critical, inbox'.control = inbox.control,
           Newest' = Newest \/ Newest <= Newest'
    PROVE  Mail'
  <1>1. Newest \in Int /\ Newest' \in Int
    BY DEF Newest, ClientTypeOK, IsClient, Numbers
  <1>2. ASSUME NEW i \in 1..Len(inbox.critical), IsCritical(inbox.critical[i])
        PROVE  IsCritical(inbox.critical[i])'
    <2> DEFINE e == inbox.critical[i]
    <2>1. inbox.critical \in Seq(HostEvents)
      BY DEF ClientTypeOK, IsInbox
    <2>2. e \in HostEvents
      BY <2>1
    <2>3. e.op \in Nat
      BY <2>2 DEF HostEvents
    <2>4. Heard(e)'
      BY <1>2 DEF Heard, StillLinked, IsCritical
    <2> QED
      BY <1>1, <1>2, <2>3, <2>4 DEF IsCritical
  <1> QED
    BY <1>2 DEF Mail, IsControl

\* The worker leaves a call of the client, or moves on to the end of finishLink.
LEMMA Returning ==
    ASSUME ClientTypeOK, task' = Return(task)
    PROVE  /\ task' \in Tasks
           /\ task'.pc = IF task.command = "none" THEN "home" ELSE "judge"
           /\ task'.command = task.command /\ task'.op \in {0, task.op}
           /\ task.command # "none" => task'.op = task.op
           /\ task'.reason = "reset" => task'.reason = task.reason /\ task'.term = task.term
  BY DEF ClientTypeOK, Return, AtHome, Tasks, ClientPlaces, Procedures, LossReasons

\* A procedure that is left goes back, to the scan, or to clear up.
LEMMA Leaving ==
    ASSUME ClientTypeOK,
           \/ task' = Return(task)
           \/ \E p \in {"clear", "scan"}, i \in {"Scanning", "Backoff"} :
                 task' = [task EXCEPT !.pc = p, !.initial = i]
    PROVE  /\ task' \in Tasks
           /\ task'.pc \in {"clear", "scan", "home", "judge"} /\ (task'.pc = "home" => task'.command = "none")
           /\ task'.command = task.command /\ task'.op \in {0, task.op}
           /\ task.command # "none" => task'.op = task.op
           /\ task'.reason = "reset" => task'.reason = task.reason /\ task'.term = task.term
  <1>1. CASE task' = Return(task)
    BY <1>1, Returning
  <1>2. ASSUME NEW p \in {"clear", "scan"}, NEW i \in {"Scanning", "Backoff"},
               task' = [task EXCEPT !.pc = p, !.initial = i]
        PROVE  /\ task' \in Tasks /\ task'.pc = p
               /\ \A f \in TaskFields \ {"pc", "initial"} : task'[f] = task[f]
    <2>1. task \in Tasks
      BY DEF ClientTypeOK
    <2>2. p \in ClientPlaces
      BY DEF ClientPlaces
    <2>3. task' \in Tasks
      BY <1>2, <2>1, <2>2 DEF Tasks
    <2> QED
      BY <1>2, <2>1, <2>3 DEF Tasks, TaskFields
  <1> QED
    BY <1>1, <1>2 DEF TaskFields

\* A task that moves on keeps the state it falls back to.
LEMMA Moved ==
    ASSUME ClientTypeOK, NEW p \in {"clear", "scan"}, task' = [task EXCEPT !.pc = p]
    PROVE  task' = [task EXCEPT !.pc = p, !.initial = task.initial]
           /\ task.initial \in {"Scanning", "Backoff"}
  BY DEF ClientTypeOK, Tasks

\* A cleanup with nothing in it is none.
LEMMA CleaningEnded ==
    \A x \in Cleaning : x.op = 0 /\ x.sync = 0 /\ ~x.handle /\ ~x.terminate /\ ~x.gap => x = NoCleanup
  BY DEF Cleaning, NoCleanup

\* finishLink stops the procedure under way, and forgets the operations.
LEMMA TearsDown ==
    ASSUME ClientTypeOK, task' = Teardown(task)
    PROVE  /\ task' \in Tasks /\ Same(TaskFields, task, task', {"pc", "proc", "back"})
           /\ \/ task'.pc = "submit" /\ task'.proc \in {"stopScan", "stopConnect"}
              \/ task'.pc = "reconcile" /\ task'.back = "clear"
  <1>1. task \in Tasks
    BY DEF ClientTypeOK
  <1>2. ASSUME NEW p \in {"stopScan", "stopConnect"},
               task' = [task EXCEPT !.pc = "submit", !.proc = p, !.back = "none"]
        PROVE  /\ task' \in Tasks /\ Same(TaskFields, task, task', {"pc", "proc", "back"})
               /\ task'.pc = "submit" /\ task'.proc = p
    <2>1. "submit" \in ClientPlaces /\ p \in Procedures
      BY DEF ClientPlaces, Procedures
    <2>2. task' \in Tasks
      BY <1>1, <1>2, <2>1 DEF Tasks
    <2> QED
      BY <1>1, <1>2, <2>2 DEF Tasks, TaskFields, Same
  <1>3. ASSUME task' = [task EXCEPT !.pc = "reconcile", !.back = "clear"]
        PROVE  /\ task' \in Tasks /\ Same(TaskFields, task, task', {"pc", "proc", "back"})
               /\ task'.pc = "reconcile" /\ task'.back = "clear"
    <2>1. "reconcile" \in ClientPlaces
      BY DEF ClientPlaces
    <2>2. task' \in Tasks
      BY <1>1, <1>3, <2>1 DEF Tasks
    <2> QED
      BY <1>1, <1>3, <2>2 DEF Tasks, TaskFields, Same
  <1> QED
    BY <1>2, <1>3 DEF Teardown, Radio

\* A reset of the host forgets the link, the operations and the commands.
LEMMA Forgets ==
    ASSUME ClientTypeOK, client' = Invalidated
    PROVE  /\ IsClient(client')
           /\ Same(ClientFields, client, client', {"state", "active", "backoffScan", "handle", "pending",
                                                  "scanOp", "linkOp", "gattOp", "closed", "commands"})
           /\ client'.state = "Idle" /\ ~client'.active /\ ~client'.backoffScan /\ ~client'.handle
           /\ ~client'.pending /\ client'.linkOp = 0 /\ client'.gattOp = NoGatt /\ client'.commands = 0
  <1>1. IsClient(client) /\ NoGatt \in Gatts
    BY Blank DEF ClientTypeOK
  <1>2. client' = [client EXCEPT !.state = "Idle", !.active = FALSE, !.backoffScan = FALSE, !.handle = FALSE,
                     !.pending = FALSE, !.scanOp = 0, !.linkOp = 0, !.gattOp = NoGatt, !.closed = FALSE,
                     !.commands = 0]
    BY DEF Invalidated
  <1>3. /\ Same(ClientFields, client, client', {"state", "active", "backoffScan", "handle", "pending",
                                                "scanOp", "linkOp", "gattOp", "closed", "commands"})
        /\ client'.state = "Idle" /\ client'.gattOp = NoGatt /\ client'.scanOp = 0 /\ client'.linkOp = 0
        /\ client'.commands = 0
        /\ \A f \in {"active", "backoffScan", "handle", "pending", "closed"} : client'[f] = FALSE
    BY <1>1, <1>2 DEF IsClient, Same, ClientFields, Flags, Numbers
  <1>4. client' = [f \in ClientFields |-> client'[f]]
    BY <1>1, <1>2 DEF IsClient
  <1>5. IsClient(client')
    <2>1. ASSUME NEW f \in Flags PROVE client'[f] \in BOOLEAN
      <3>1. CASE f \in {"active", "backoffScan", "handle", "pending", "closed"}
        BY <1>3, <3>1
      <3>2. CASE f \notin {"active", "backoffScan", "handle", "pending", "closed"}
        <4>1. f \in ClientFields /\ client[f] \in BOOLEAN
          BY <1>1 DEF IsClient, ClientFields
        <4>2. client'[f] = client[f]
          BY <1>3, <3>2, <4>1 DEF Same, Flags
        <4> QED
          BY <4>1, <4>2
      <3> QED
        BY <3>1, <3>2
    <2>2. ASSUME NEW f \in Numbers PROVE client'[f] \in Nat
      BY <1>1, <1>3 DEF IsClient, Same, ClientFields, Flags, Numbers
    <2>3. client'.state \in States /\ client'.gattOp \in Gatts /\ client'.write \in Results
      BY <1>1, <1>3 DEF IsClient, Same, ClientFields, Flags, Numbers, States
    <2> QED
      BY <1>4, <2>1, <2>2, <2>3 DEF IsClient
  <1> QED
    BY <1>3, <1>5

\* What was bounded by the newest link stays so.
LEMMA NewsGrows ==
    ASSUME ClientTypeOK, ClientTypeOK', News, Newest <= Newest'
    PROVE  /\ task.op <= Newest' /\ stack.attempt <= Newest' /\ stack.link <= Newest'
           /\ client.linkOp <= Newest' /\ cleanup.op <= Newest'
           /\ stack.gatt[1] <= Newest' /\ stack.acked[1] <= Newest' /\ host.gatt[1] <= Newest'
           /\ host.kind # "scan" => host.op <= Newest'
           /\ 0 <= Newest'
  <1>1. Newest \in Int /\ Newest' \in Int /\ 0 <= Newest
    BY DEF Newest, ClientTypeOK, IsClient, Numbers, News
  <1>2. /\ task.op \in Int /\ stack.attempt \in Int /\ stack.link \in Int /\ client.linkOp \in Int
        /\ cleanup.op \in Int /\ host.op \in Int
        /\ stack.gatt[1] \in Int /\ stack.acked[1] \in Int /\ host.gatt[1] \in Int
    BY DEF ClientTypeOK, IsClient, Numbers, HostStacks, HostTasks, Cleaning, Tasks, Gatts
  <1> QED
    BY <1>1, <1>2 DEF News

\* The tail of finishLink.
LEMMA ClearingLeaves ==
    ASSUME ClientTypeOK, Clear
    PROVE  \/ task' = Return(task)
           \/ \E p \in {"clear", "scan"}, i \in {"Scanning", "Backoff"} :
                 task' = [task EXCEPT !.pc = p, !.initial = i]
  BY DEF Clear

\* Clearing up ends with no write under way.
LEMMA ClearingWaits ==
    ASSUME ClientTypeOK, Clear, ~client.write.on
    PROVE  /\ IsClient(client') /\ Same(ClientFields, client, client', {"write", "state"})
           /\ client'.state \in {client.state, "Backoff"} /\ ~client'.write.on
  <1>1. PICK s \in {client.state, "Backoff"} : client' = [client EXCEPT !.write = client.write, !.state = s]
    BY DEF Clear
  <1>2. s \in States
    BY DEF ClientTypeOK, IsClient, States
  <1> QED
    BY <1>1, <1>2 DEF ClientTypeOK, IsClient, Same, ClientFields, Flags, Numbers

\* A scan is prepared (beginConfiguredScan).
LEMMA ScanBegins ==
    ASSUME ClientTypeOK, BeginScan, ScanAllowed
    PROVE  /\ task' \in Tasks /\ Same(TaskFields, task, task', {"pc", "proc", "back", "rescan"})
           /\ task'.pc = "submit" /\ task'.proc = "scan"
           /\ IsInbox(inbox') /\ inbox'.critical = inbox.critical /\ inbox'.control = inbox.control
           /\ IsClient(client')
           /\ Same(ClientFields, client, client', {"scans", "scanOp", "active", "sync", "queued"})
           /\ client.scans \in Nat /\ client'.scans = client.scans + 1
           /\ client'.active /\ client'.sync = stack.sync /\ stack.sync # 0
  <1>1. /\ task' = [task EXCEPT !.pc = "submit", !.proc = "scan", !.back = "none", !.rescan = FALSE]
        /\ inbox' = [inbox EXCEPT !.candidate = 0]
        /\ client' = [client EXCEPT !.scans = @ + 1, !.scanOp = client.scans + 1, !.active = TRUE,
                                    !.sync = stack.sync, !.queued = FALSE]
    BY DEF BeginScan, Radio
  <1>2. task' \in Tasks /\ Same(TaskFields, task, task', {"pc", "proc", "back", "rescan"})
        /\ task'.pc = "submit" /\ task'.proc = "scan"
    <2>1. task \in Tasks /\ "submit" \in ClientPlaces /\ "scan" \in Procedures
      BY DEF ClientTypeOK, ClientPlaces, Procedures
    <2>2. task' \in Tasks
      BY <1>1, <2>1 DEF Tasks
    <2>3. task'.pc = "submit" /\ task'.proc = "scan"
      BY <1>1, <2>1 DEF Tasks
    <2>4. Same(TaskFields, task, task', {"pc", "proc", "back", "rescan"})
      BY <1>1, <2>1 DEF Tasks, TaskFields, Same
    <2> QED
      BY <2>2, <2>3, <2>4
  <1>3. IsInbox(inbox') /\ inbox'.critical = inbox.critical /\ inbox'.control = inbox.control
    BY <1>1 DEF ClientTypeOK, IsInbox, InboxFields
  <1>4. stack.sync \in Nat /\ stack.sync # 0 /\ client.scans \in Nat
    BY DEF ClientTypeOK, HostStacks, IsClient, Numbers
  <1>5. PICK n \in Nat, m \in Nat : n = client.scans + 1 /\ m = stack.sync
    BY <1>4
  <1>6. client' = [client EXCEPT !.scans = n, !.scanOp = n, !.active = TRUE, !.sync = m, !.queued = FALSE]
    BY <1>1, <1>5
  <1>7. IsClient(client)
    BY DEF ClientTypeOK
  <1>8. Same(ClientFields, client, client', {"scans", "scanOp", "active", "sync", "queued"})
        /\ client'.scans = n /\ client'.active /\ client'.sync = m
    BY <1>6, <1>7 DEF IsClient, Same, ClientFields, Flags, Numbers
  <1>9. IsClient(client')
    BY <1>6, <1>7 DEF IsClient, ClientFields, Flags, Numbers
  <1> QED
    BY <1>2, <1>3, <1>4, <1>5, <1>8, <1>9

\* At most the first event of either queue was taken out.
Popped ==
    /\ IsInbox(inbox')
    /\ inbox'.critical = inbox.critical \/ (inbox.critical # <<>> /\ inbox'.critical = Tail(inbox.critical))
    /\ inbox'.control = inbox.control \/ (inbox.control # <<>> /\ inbox'.control = Tail(inbox.control))
LEMMA MailPops ==
    ASSUME ClientTypeOK, ClientTypeOK', Mail, StillLinked, Popped,
           Newest' = Newest \/ Newest <= Newest'
    PROVE  Mail'
  <1>1. Newest \in Int /\ Newest' \in Int
    BY DEF Newest, ClientTypeOK, IsClient, Numbers
  <1>2. inbox.critical \in Seq(HostEvents) /\ inbox.control \in Seq(HostEvents)
    BY DEF ClientTypeOK, IsInbox
  <1>3. ASSUME NEW i \in 1..Len(inbox'.critical) PROVE IsCritical(inbox.critical[i])'
    <2>1. PICK j \in 1..Len(inbox.critical) : inbox'.critical[i] = inbox.critical[j]
      <3>1. CASE inbox'.critical = inbox.critical
        BY <1>3, <3>1
      <3>2. CASE inbox.critical # <<>> /\ inbox'.critical = Tail(inbox.critical)
        BY <1>2, <1>3, <3>2, EventsTaken
      <3> QED
        BY <3>1, <3>2 DEF Popped
    <2>2. PICK e \in HostEvents : e = inbox.critical[j]
      BY <1>2, <2>1
    <2>3. IsCritical(e) /\ e.op \in Nat
      BY <2>1, <2>2 DEF Mail, HostEvents
    <2>4. IsCritical(e)'
      BY <1>1, <2>3 DEF IsCritical, Heard, StillLinked
    <2> QED
      BY <2>1, <2>2, <2>4 DEF IsCritical, Heard
  <1>4. ASSUME NEW i \in 1..Len(inbox'.control) PROVE IsControl(inbox.control[i])'
    <2>1. PICK j \in 1..Len(inbox.control) : inbox'.control[i] = inbox.control[j]
      <3>1. CASE inbox'.control = inbox.control
        BY <1>4, <3>1
      <3>2. CASE inbox.control # <<>> /\ inbox'.control = Tail(inbox.control)
        BY <1>2, <1>4, <3>2, EventsTaken
      <3> QED
        BY <3>1, <3>2 DEF Popped
    <2> QED
      BY <1>2, <2>1 DEF Mail, IsControl
  <1> QED
    BY <1>3, <1>4 DEF Mail

\* An event sends the worker to finishLink, to the radio, or to the next state.
LEMMA ToFinish ==
    ASSUME ClientTypeOK, NEW t \in BOOLEAN, NEW r \in LossReasons, task' = FinishLink(task, t, r)
    PROVE  /\ task' \in Tasks /\ Same(TaskFields, task, task', {"pc", "term", "reason"})
           /\ task'.pc = "finish" /\ task'.term = t /\ task'.reason = r
  <1>1. task \in Tasks /\ "finish" \in ClientPlaces
    BY DEF ClientTypeOK, ClientPlaces
  <1>2. task' = [task EXCEPT !.pc = "finish", !.term = t, !.reason = r]
    BY DEF FinishLink
  <1>3. task' \in Tasks
    BY <1>1, <1>2 DEF Tasks
  <1> QED
    BY <1>1, <1>2, <1>3 DEF Tasks, TaskFields, Same

\* A task that asks the host changes only its place.
LEMMA ToRadio ==
    ASSUME ClientTypeOK, NEW p \in Procedures, task' = Radio(task, p, "none")
    PROVE  /\ task' \in Tasks /\ Same(TaskFields, task, task', {"pc", "proc", "back"})
           /\ task'.pc = "submit" /\ task'.proc = p
  <1>1. task \in Tasks /\ "submit" \in ClientPlaces
    BY DEF ClientTypeOK, ClientPlaces
  <1>2. task' = [task EXCEPT !.pc = "submit", !.proc = p, !.back = "none"]
    BY DEF Radio
  <1>3. task' \in Tasks
    BY <1>1, <1>2 DEF Tasks
  <1> QED
    BY <1>1, <1>2, <1>3 DEF Tasks, TaskFields, Same

\* A stage of the discovery that begins or ends moves the state and the operation.
LEMMA Moving ==
    ASSUME ClientTypeOK, NEW s \in States, NEW g \in Gatts,
           client' = [client EXCEPT !.state = s, !.gattOp = g]
    PROVE  /\ IsClient(client') /\ Same(ClientFields, client, client', {"state", "gattOp"})
           /\ client'.state = s /\ client'.gattOp = g
  <1>1. IsClient(client)
    BY DEF ClientTypeOK
  <1>2. IsClient(client')
    BY <1>1 DEF IsClient, ClientFields, Flags, Numbers
  <1> QED
    BY <1>1, <1>2 DEF IsClient, Same, ClientFields, Flags, Numbers

\* The worker between two calls, and what it enters from there.
LEMMA HomeIs ==
    /\ AtHome \in Tasks /\ AtHome.pc = "home" /\ AtHome.proc = "none" /\ AtHome.back = "none" /\ AtHome.rc = "none"
    /\ ~AtHome.term /\ AtHome.reason = "none" /\ AtHome.command = "none" /\ AtHome.op = 0
  BY DEF AtHome, Tasks, ClientPlaces, Procedures, LossReasons

\* A task that leaves home carries nothing from before.
LEMMA FromHome ==
    ASSUME NEW p \in {"service", "scan"}, task' = [AtHome EXCEPT !.pc = p]
    PROVE  /\ task' \in Tasks /\ task'.pc = p /\ task'.proc = "none" /\ task'.command = "none"
           /\ task'.op = 0 /\ task'.reason = "none"
  <1>1. p \in ClientPlaces
    BY DEF ClientPlaces
  <1>2. task' \in Tasks
    BY <1>1, HomeIs DEF Tasks
  <1> QED
    BY <1>2, HomeIs DEF Tasks

\* So does one that leaves it to end the link.
LEMMA FinishFromHome ==
    ASSUME NEW r \in LossReasons \ {"reset"},
           \/ task' = FinishLink(AtHome, TRUE, r)
           \/ task' = [FinishLink(AtHome, TRUE, r) EXCEPT !.rescan = TRUE]
    PROVE  /\ task' \in Tasks /\ task'.pc = "finish" /\ task'.proc = "none"
           /\ task'.command = "none" /\ task'.op = 0 /\ task'.term /\ task'.reason # "reset"
  <1>1. "finish" \in ClientPlaces
    BY DEF ClientPlaces
  <1>2. CASE task' = [AtHome EXCEPT !.pc = "finish", !.term = TRUE, !.reason = r]
    <2>1. task' \in Tasks
      BY <1>1, <1>2, HomeIs DEF Tasks
    <2> QED
      BY <1>2, <2>1, HomeIs DEF Tasks
  <1>3. CASE task' = [AtHome EXCEPT !.pc = "finish", !.term = TRUE, !.reason = r, !.rescan = TRUE]
    <2>1. task' \in Tasks
      BY <1>1, <1>3, HomeIs DEF Tasks
    <2> QED
      BY <1>3, <2>1, HomeIs DEF Tasks
  <1> QED
    BY <1>2, <1>3 DEF FinishLink

\* A command is prepared (writeOp).
LEMMA CommandTyped ==
    ASSUME ClientTypeOK, NEW off \in BOOLEAN, Command(off)
    PROVE  /\ IsClient(client')
           /\ Same(ClientFields, client, client', {"commands", "closed", "silent", "gattOp", "write"})
           /\ client.commands \in Nat /\ client'.commands = client.commands + 1
           /\ client'.gattOp = <<client.linkOp, 5 + client'.commands>>
           /\ client'.write.on /\ ~client'.write.done
           /\ task' \in Tasks
           /\ task'.pc = "submit" /\ task'.proc = "command" /\ task'.op = client.linkOp
           /\ task'.command = "none" /\ task'.reason = "none"
  <1>1. IsClient(client) /\ client.commands \in Nat /\ client.linkOp \in Nat /\ client.silent \in BOOLEAN
    BY DEF ClientTypeOK, IsClient, Numbers, Flags
  <1>2. PICK n \in Nat, g \in Gatts, s \in BOOLEAN, w \in Results :
            /\ n = client.commands + 1 /\ g = <<client.linkOp, 5 + n>>
            /\ s = (client.silent \/ off) /\ w.on /\ ~w.done
            /\ client' = [client EXCEPT !.commands = n, !.closed = off, !.silent = s, !.gattOp = g, !.write = w]
    <2>1. client.commands + 1 \in Nat /\ <<client.linkOp, 5 + (client.commands + 1)>> \in Gatts
          /\ (client.silent \/ off) \in BOOLEAN
      BY <1>1 DEF Gatts
    <2>2. [NoWrite EXCEPT !.on = TRUE] \in Results /\ [NoWrite EXCEPT !.on = TRUE].on
          /\ ~[NoWrite EXCEPT !.on = TRUE].done
      BY DEF NoWrite, Results
    <2>3. Len(Discovery) + 1 + client.commands = 5 + (client.commands + 1)
      BY <1>1, DiscoveryIs
    <2> QED
      BY <2>1, <2>2, <2>3 DEF Command
  <1>3. IsClient(client')
    BY <1>1, <1>2 DEF IsClient, ClientFields, Flags, Numbers
  <1>4. /\ Same(ClientFields, client, client', {"commands", "closed", "silent", "gattOp", "write"})
        /\ client'.commands = n /\ client'.gattOp = g /\ client'.write = w
    BY <1>1, <1>2 DEF IsClient, Same, ClientFields, Flags, Numbers
  <1>5. task' = [AtHome EXCEPT !.pc = "submit", !.proc = "command", !.back = "none", !.op = client.linkOp]
    BY DEF Command, Radio
  <1>6. "submit" \in ClientPlaces /\ "command" \in Procedures
    BY DEF ClientPlaces, Procedures
  <1>7. task' \in Tasks
    BY <1>1, <1>5, <1>6, HomeIs DEF Tasks
  <1> QED
    BY <1>1, <1>2, <1>3, <1>4, <1>5, <1>7, HomeIs DEF Tasks

\* The answer of the host, and of a command.
LEMMA ToAnswer ==
    ASSUME ClientTypeOK, NEW c \in {"ok", "error", "gone"}, task' = [task EXCEPT !.pc = "end", !.rc = c]
    PROVE  /\ task' \in Tasks /\ Same(TaskFields, task, task', {"pc", "rc"})
           /\ task'.pc = "end" /\ task'.rc = c
  <1>1. task \in Tasks /\ "end" \in ClientPlaces
    BY DEF ClientTypeOK, ClientPlaces
  <1>2. task' \in Tasks
    BY <1>1 DEF Tasks
  <1> QED
    BY <1>1, <1>2 DEF Tasks, TaskFields, Same

\* An answer for a command goes back to the service.
LEMMA ToService ==
    ASSUME ClientTypeOK, NEW c \in {"ok", "rejected", "failed"},
           task' = [task EXCEPT !.pc = "service", !.command = c]
    PROVE  /\ task' \in Tasks /\ Same(TaskFields, task, task', {"pc", "command"})
           /\ task'.pc = "service" /\ task'.command = c
  <1>1. task \in Tasks /\ "service" \in ClientPlaces
    BY DEF ClientTypeOK, ClientPlaces
  <1>2. task' \in Tasks
    BY <1>1 DEF Tasks
  <1> QED
    BY <1>1, <1>2 DEF Tasks, TaskFields, Same

\* A scan that was started, a write that is over, and a silence that was armed.
LEMMA ScanStarts ==
    ASSUME ClientTypeOK, client' = [client EXCEPT !.backoffScan = TRUE, !.state = task.initial]
    PROVE  /\ IsClient(client') /\ Same(ClientFields, client, client', {"backoffScan", "state"})
           /\ client'.backoffScan /\ client'.state \in {"Scanning", "Backoff"}
  <1>1. PICK s \in {"Scanning", "Backoff"} : client' = [client EXCEPT !.backoffScan = TRUE, !.state = s]
    BY DEF ClientTypeOK, Tasks
  <1>2. IsClient(client) /\ s \in States
    BY DEF ClientTypeOK, States
  <1>3. IsClient(client')
    BY <1>1, <1>2 DEF IsClient, ClientFields, Flags, Numbers
  <1> QED
    BY <1>1, <1>2, <1>3 DEF IsClient, Same, ClientFields, Flags, Numbers

\* A write that is over leaves no operation.
LEMMA WriteIsOver ==
    ASSUME ClientTypeOK, client' = [client EXCEPT !.write = NoWrite, !.gattOp = NoGatt]
    PROVE  /\ IsClient(client') /\ Same(ClientFields, client, client', {"write", "gattOp"})
           /\ ~client'.write.on /\ client'.gattOp = NoGatt
  <1>a. NoWrite \in Results /\ ~NoWrite.on
    BY DEF NoWrite, Results
  <1>1. PICK w \in Results, g \in Gatts : /\ client' = [client EXCEPT !.write = w, !.gattOp = g]
                                         /\ ~w.on /\ g = NoGatt
    BY <1>a, Blank
  <1>2. IsClient(client)
    BY DEF ClientTypeOK
  <1>3. IsClient(client')
    BY <1>1, <1>2 DEF IsClient, ClientFields, Flags, Numbers
  <1> QED
    BY <1>1, <1>2, <1>3 DEF IsClient, Same, ClientFields, Flags, Numbers

\* A host that does not answer is marked silent unless a call is at its word.
LEMMA Silences ==
    ASSUME ClientTypeOK, client' = Armed(client)
    PROVE  /\ IsClient(client') /\ Same(ClientFields, client, client', {"pending", "silent", "write"})
           /\ client'.pending /\ client'.silent = (client.silent \/ ~client.submit)
           /\ client'.write.on = client.write.on /\ client'.write.done = client.write.done
           /\ client'.write.ok = client.write.ok
  <1>1. IsClient(client) /\ client.write \in Results
    BY DEF ClientTypeOK, IsClient
  <1>2. PICK s \in BOOLEAN, i \in BOOLEAN :
            /\ s = (client.silent \/ ~client.submit)
            /\ client' = [client EXCEPT !.pending = TRUE, !.silent = s, !.write.interrupted = i]
    BY DEF Armed
  <1>3. PICK w \in Results : /\ w = [client.write EXCEPT !.interrupted = i]
                            /\ w.on = client.write.on /\ w.done = client.write.done /\ w.ok = client.write.ok
    <2>1. [client.write EXCEPT !.interrupted = i] \in Results
      BY <1>1 DEF Results
    <2> QED
      BY <1>1, <2>1 DEF Results
  <1>4. client' = [client EXCEPT !.pending = TRUE, !.silent = s, !.write = w]
    BY <1>2, <1>3
  <1>5. IsClient(client')
    BY <1>1, <1>2, <1>3, <1>4 DEF IsClient, ClientFields, Flags, Numbers
  <1> QED
    BY <1>1, <1>2, <1>3, <1>4, <1>5 DEF IsClient, Same, ClientFields, Flags, Numbers

USE DEF Same, ClientFields, Flags, Numbers, StackFields, TaskFields, CleaningFields,
        Doing, Entering, Linked, LeavingLink, Dark

-----------------------------------------------------------------------------
(* The host task. *)

\* The actions of the client, the host and the radio, each of which keeps the invariant.
LEMMA AdvertiseKeeps ==
    ASSUME ClientInv, Advertise
    PROVE  ClientInv'
  <1> USE DEF ClientInv
  <1>1. /\ UNCHANGED <<stack, host, cleanup, task>>
        /\ IsClient(client')
        /\ Same(ClientFields, client, client', {"queued"})
        /\ IsInbox(inbox') /\ inbox'.critical = inbox.critical /\ inbox'.control = inbox.control
    BY Blank DEF Advertise, ClientTypeOK, IsClient, States, Results, IsInbox, InboxFields
  <1>2. ClientTypeOK' /\ Newest' = Newest
    BY <1>1 DEF ClientTypeOK, Newest
  <1>3. Phases' /\ OnTheAir' /\ Cleanups'
    BY <1>1 DEF Phases, OnTheAir, Cleanups, NoCleanup
  <1>4. News'
    BY <1>1, <1>2, Blank, NewestIsNat DEF Phases, OnTheAir, News, Heard
  <1>5. Mail'
    BY <1>1, <1>2, MailStays DEF Phases, OnTheAir, StillLinked
  <1>6. Silence' /\ Acks'
    BY <1>1 DEF Phases, Silence, Acks, Rank, Within, Writing, NoGatt
  <1> QED
    BY <1>2, <1>3, <1>4, <1>5, <1>6

LEMMA HostResetKeeps ==
    ASSUME ClientInv, HostReset
    PROVE  ClientInv'
  <1> USE DEF ClientInv
  <1>1. /\ UNCHANGED <<host, client, cleanup, inbox, task>>
        /\ stack' \in HostStacks
        /\ Same(StackFields, stack, stack', {"ready", "scan", "attempt", "link", "gatt", "closing"})
        /\ ~stack'.ready /\ stack'.attempt = 0 /\ stack'.link = 0 /\ stack'.gatt = NoGatt
    BY Blank DEF HostReset, ClientTypeOK, HostStacks
  <1>2. ClientTypeOK' /\ Newest' = Newest
    BY <1>1 DEF ClientTypeOK, Newest
  <1>3. Phases' /\ OnTheAir' /\ Cleanups'
    BY <1>1 DEF Phases, OnTheAir, Cleanups, NoCleanup
  <1>4. News'
    BY <1>1, <1>2, Blank, NewestIsNat DEF Phases, OnTheAir, News, Heard
  <1>5. Mail'
    BY <1>1, <1>2, MailStays DEF Phases, OnTheAir, StillLinked
  <1>6. Silence' /\ Acks'
    BY <1>1 DEF Phases, Silence, Acks, Rank, Within, Writing, NoGatt
  <1> QED
    BY <1>2, <1>3, <1>4, <1>5, <1>6

LEMMA HostSyncKeeps ==
    ASSUME ClientInv, HostSync
    PROVE  ClientInv'
  <1> USE DEF ClientInv
  <1>1. /\ UNCHANGED <<host, client, cleanup, inbox, task>>
        /\ host.pc = "idle" /\ task.pc = "home" /\ ~stack.ready
    BY DEF HostSync, ClientTypeOK, HostStacks
  <1>2. /\ stack.sync + 1 \in Nat \ {0}
        /\ stack' = [stack EXCEPT !.ready = TRUE, !.sync = @ + 1]
    BY DEF HostSync, ClientTypeOK, HostStacks
  <1>3. /\ stack' \in HostStacks
        /\ Same(StackFields, stack, stack', {"ready", "sync"})
    BY <1>1, <1>2, Blank DEF ClientTypeOK, HostStacks
  <1>4. ClientTypeOK' /\ Newest' = Newest
    BY <1>1, <1>3 DEF ClientTypeOK, Newest
  <1>5. Phases' /\ OnTheAir' /\ Cleanups'
    BY <1>1, <1>3 DEF Phases, OnTheAir, Cleanups, NoCleanup
  <1>6. News'
    BY <1>1, <1>3, <1>4, Blank, NewestIsNat DEF Phases, OnTheAir, News, Heard
  <1>7. Mail'
    BY <1>1, <1>3, <1>4, MailStays DEF Phases, OnTheAir, StillLinked
  <1>8. Silence' /\ Acks'
    BY <1>1, <1>3 DEF Phases, Silence, Acks, Rank, Within, Writing, NoGatt
  <1> QED
    BY <1>4, <1>5, <1>6, <1>7, <1>8

LEMMA SilenceEndsKeeps ==
    ASSUME ClientInv, SilenceEnds
    PROVE  ClientInv'
  <1> USE DEF ClientInv
  <1>1. /\ UNCHANGED <<host, cleanup, inbox, task>>
        /\ IsClient(client')
        /\ Same(ClientFields, client, client', {"silent"})
        /\ stack' \in HostStacks
        /\ Same(StackFields, stack, stack', {"quiet"})
        /\ ~stack'.quiet
    BY Blank DEF SilenceEnds, ClientTypeOK, IsClient, States, Results, HostStacks
  <1>2. ClientTypeOK' /\ Newest' = Newest
    BY <1>1 DEF ClientTypeOK, Newest
  <1>3. Phases' /\ OnTheAir' /\ Cleanups'
    BY <1>1 DEF Phases, OnTheAir, Cleanups, NoCleanup
  <1>4. News'
    BY <1>1, <1>2, Blank, NewestIsNat DEF Phases, OnTheAir, News, Heard
  <1>5. Mail'
    BY <1>1, <1>2, MailStays DEF Phases, OnTheAir, StillLinked
  <1>6. Silence' /\ Acks'
    BY <1>1 DEF Phases, Silence, Acks, Rank, Within, Writing, NoGatt
  <1> QED
    BY <1>2, <1>3, <1>4, <1>5, <1>6

LEMMA ScanStopsKeeps ==
    ASSUME ClientInv, ScanStops
    PROVE  ClientInv'
  <1> USE DEF ClientInv
  <1>1. CASE stack.scan = client.scanOp
    <2>1. /\ UNCHANGED <<client, cleanup, inbox, task>>
          /\ host.pc = "idle"
      BY <1>1 DEF ScanStops, Push
    <2>2. /\ stack' = [stack EXCEPT !.scan = 0]
          /\ host' = [pc |-> "push", kind |-> "scan", op |-> stack.scan, gatt |-> NoGatt, ok |-> TRUE]
      BY <1>1 DEF ScanStops, Push
    <2>3. /\ stack' \in HostStacks
          /\ Same(StackFields, stack, stack', {"scan"})
      BY <1>1, <2>1, <2>2, Blank DEF ClientTypeOK, HostStacks
    <2>4. /\ host' \in HostTasks
          /\ host'.pc = "push" /\ host'.kind = "scan" /\ host'.gatt = NoGatt
      BY <1>1, <2>1, <2>2, Blank DEF ClientTypeOK, HostTasks, EventKinds, HostStacks
    <2>5. ClientTypeOK' /\ Newest' = Newest
      BY <1>1, <2>1, <2>3, <2>4 DEF ClientTypeOK, Newest
    <2>6. Phases' /\ OnTheAir' /\ Cleanups'
      BY <1>1, <2>1, <2>3, <2>4 DEF Phases, OnTheAir, Cleanups, NoCleanup
    <2>7. News'
      BY <1>1, <2>1, <2>3, <2>4, <2>5, Blank, NewestIsNat DEF Phases, OnTheAir, News, Heard
    <2>8. Mail'
      BY <1>1, <2>1, <2>3, <2>4, <2>5, MailStays DEF Phases, OnTheAir, StillLinked
    <2>9. Silence' /\ Acks'
      BY <1>1, <2>1, <2>3, <2>4 DEF Phases, Silence, Acks, Rank, Within, Writing, NoGatt
    <2> QED
      BY <2>5, <2>6, <2>7, <2>8, <2>9
  <1>2. CASE stack.scan # client.scanOp
    <2>1. /\ UNCHANGED <<host, client, cleanup, inbox, task>>
          /\ host.pc = "idle"
      BY <1>2 DEF ScanStops
    <2>2. stack' = [stack EXCEPT !.scan = 0]
      BY <1>2 DEF ScanStops
    <2>3. /\ stack' \in HostStacks
          /\ Same(StackFields, stack, stack', {"scan"})
      BY <1>2, <2>1, <2>2, Blank DEF ClientTypeOK, HostStacks
    <2>4. ClientTypeOK' /\ Newest' = Newest
      BY <1>2, <2>1, <2>3 DEF ClientTypeOK, Newest
    <2>5. Phases' /\ OnTheAir' /\ Cleanups'
      BY <1>2, <2>1, <2>3 DEF Phases, OnTheAir, Cleanups, NoCleanup
    <2>6. News'
      BY <1>2, <2>1, <2>3, <2>4, Blank, NewestIsNat DEF Phases, OnTheAir, News, Heard
    <2>7. Mail'
      BY <1>2, <2>1, <2>3, <2>4, MailStays DEF Phases, OnTheAir, StillLinked
    <2>8. Silence' /\ Acks'
      BY <1>2, <2>1, <2>3 DEF Phases, Silence, Acks, Rank, Within, Writing, NoGatt
    <2> QED
      BY <2>4, <2>5, <2>6, <2>7, <2>8
  <1> QED
    BY <1>1, <1>2 DEF ScanStops

LEMMA LinkEndedKeeps ==
    ASSUME ClientInv, LinkEnded
    PROVE  ClientInv'
  <1> USE DEF ClientInv
  <1>1. /\ UNCHANGED <<client, cleanup, inbox, task>>
        /\ stack.link # 0
        /\ host.pc = "idle"
    BY DEF LinkEnded, NoHost
  <1>2. /\ host' = [pc |-> "gap", kind |-> "none", op |-> stack.link, gatt |-> NoGatt, ok |-> FALSE]
        /\ stack' = [stack EXCEPT !.link = 0, !.closing = FALSE]
    BY DEF LinkEnded, NoHost
  <1>3. /\ stack' \in HostStacks
        /\ Same(StackFields, stack, stack', {"link", "closing"})
        /\ stack'.link = 0
    BY <1>1, <1>2, Blank DEF ClientTypeOK, HostStacks
  <1>4. /\ host' \in HostTasks
        /\ host'.pc = "gap" /\ host'.kind = "none" /\ host'.gatt = NoGatt /\ host'.op = stack.link
    BY <1>1, <1>2, Blank DEF ClientTypeOK, HostTasks, EventKinds, HostStacks
  <1>5. ClientTypeOK' /\ Newest' = Newest
    BY <1>1, <1>3, <1>4 DEF ClientTypeOK, Newest
  <1>6. Phases' /\ OnTheAir' /\ Cleanups'
    BY <1>1, <1>3, <1>4 DEF Phases, OnTheAir, Cleanups, NoCleanup
  <1>7. News'
    BY <1>1, <1>3, <1>4, <1>5, Blank, NewestIsNat DEF Phases, OnTheAir, News, Heard
  <1>8. Mail'
    BY <1>1, <1>3, <1>4, <1>5, MailStays DEF Phases, OnTheAir, StillLinked
  <1>9. Silence' /\ Acks'
    BY <1>1, <1>3, <1>4 DEF Phases, Silence, Acks, Rank, Within, Writing, NoGatt
  <1> QED
    BY <1>5, <1>6, <1>7, <1>8, <1>9

LEMMA GapCleanupKeeps ==
    ASSUME ClientInv, GapCleanup
    PROVE  ClientInv'
  <1> USE DEF ClientInv
  <1>1. CASE GapOfCleanup
    <2>1. /\ UNCHANGED <<inbox, task>>
          /\ host.pc = "gap" /\ cleanup.handle
      BY <1>1 DEF GapCleanup, GapOfCleanup
    <2>2. /\ host' = NoHost
          /\ stack' = [stack EXCEPT !.quiet = TRUE]
          /\ cleanup' = [cleanup EXCEPT !.gap = TRUE]
          /\ client' = IF client.submit THEN [client EXCEPT !.gapInSubmit = TRUE] ELSE [client EXCEPT !.silent = TRUE]
      BY <1>1 DEF GapCleanup, GapOfCleanup
    <2>3. /\ stack' \in HostStacks
          /\ Same(StackFields, stack, stack', {"quiet"})
      BY <1>1, <2>1, <2>2, Blank DEF ClientTypeOK, HostStacks
    <2>4. /\ IsClient(client')
          /\ client.submit => Same(ClientFields, client, client', {"gapInSubmit"}) /\ client'.gapInSubmit
          /\ ~client.submit => Same(ClientFields, client, client', {"silent"}) /\ client'.silent
      BY <1>1, <2>1, <2>2, Blank DEF ClientTypeOK, IsClient, States, Results
    <2>5. /\ cleanup' \in Cleaning
          /\ Same(CleaningFields, cleanup, cleanup', {"gap"})
      BY <1>1, <2>1, <2>2, Blank DEF ClientTypeOK, Cleaning
    <2>6. /\ host'.pc = "idle" /\ host'.kind = "none" /\ host'.gatt = NoGatt /\ host'.op = 0
          /\ host' \in HostTasks
      BY <1>1, <2>1, <2>2, Blank DEF ClientTypeOK, HostTasks, EventKinds
    <2>7. ClientTypeOK' /\ Newest' = Newest
      BY <1>1, <2>1, <2>3, <2>4, <2>5, <2>6 DEF ClientTypeOK, Newest
    <2>8. Phases' /\ OnTheAir' /\ Cleanups'
      BY <1>1, <2>1, <2>3, <2>4, <2>5, <2>6 DEF Phases, OnTheAir, Cleanups, NoCleanup
    <2>9. News'
      BY <1>1, <2>1, <2>3, <2>4, <2>5, <2>6, <2>7, Blank, NewestIsNat DEF Phases, OnTheAir, News,
        Heard
    <2>10. Mail'
      BY <1>1, <2>1, <2>3, <2>4, <2>5, <2>6, <2>7, MailStays DEF Phases, OnTheAir, StillLinked
    <2>11. Acks'
      BY <1>1, <2>1, <2>3, <2>4, <2>5, <2>6 DEF Phases, Acks, Rank, Within, Writing, NoGatt
    <2>12. Silence'
      BY <1>1, <2>1, <2>3, <2>4, <2>5, <2>6 DEF Phases, Silence, Acks, Cleanups, NoCleanup,
        Writing
    <2> QED
      BY <2>7, <2>8, <2>9, <2>10, <2>11, <2>12
  <1>2. CASE ~GapOfCleanup
    <2>1. /\ UNCHANGED <<stack, client, cleanup, inbox, task>>
          /\ host.pc = "gap"
          /\ host' \in HostTasks
          /\ host'.pc = "arm" /\ host'.kind = host.kind /\ host'.gatt = host.gatt /\ host'.op = host.op
      BY <1>2, Blank DEF GapCleanup, ClientTypeOK, HostTasks, EventKinds
    <2>2. ClientTypeOK' /\ Newest' = Newest
      BY <1>2, <2>1 DEF ClientTypeOK, Newest
    <2>3. Phases' /\ OnTheAir' /\ Cleanups'
      BY <1>2, <2>1 DEF Phases, OnTheAir, Cleanups, NoCleanup
    <2>4. News'
      BY <1>2, <2>1, <2>2, Blank, NewestIsNat DEF Phases, OnTheAir, News, Heard
    <2>5. Mail'
      BY <1>2, <2>1, <2>2, MailStays DEF Phases, OnTheAir, StillLinked
    <2>6. Silence' /\ Acks'
      BY <1>2, <2>1 DEF Phases, Silence, Acks, Rank, Within, Writing, NoGatt
    <2> QED
      BY <2>2, <2>3, <2>4, <2>5, <2>6
  <1> QED
    BY <1>1, <1>2 DEF GapCleanup

LEMMA GapCurrentKeeps ==
    ASSUME ClientInv, GapCurrent
    PROVE  ClientInv'
  <1> USE DEF ClientInv
  <1>1. CASE host.op = client.linkOp /\ client.handle
    <2>1. /\ UNCHANGED <<cleanup, inbox, task>>
          /\ IsClient(client')
          /\ Same(ClientFields, client, client', {"pending", "silent", "write"})
          /\ client'.pending /\ client'.silent = (client.silent \/ ~client.submit)
          /\ client'.write.on = client.write.on /\ client'.write.done = client.write.done /\ client'.write.ok = client.write.ok
          /\ host.pc = "arm"
      BY <1>1, Silences DEF GapCurrent, Push
    <2>2. /\ host' = [pc |-> "push", kind |-> "disconnect", op |-> host.op, gatt |-> NoGatt, ok |-> TRUE]
          /\ stack' = [stack EXCEPT !.quiet = TRUE]
      BY <1>1, Silences DEF GapCurrent, Push
    <2>3. /\ stack' \in HostStacks
          /\ Same(StackFields, stack, stack', {"quiet"})
      BY <1>1, <2>1, <2>2, Blank DEF ClientTypeOK, HostStacks
    <2>4. /\ host' \in HostTasks
          /\ host'.pc = "push" /\ host'.kind = "disconnect" /\ host'.gatt = NoGatt /\ host'.op = host.op
      BY <1>1, <2>1, <2>2, Blank DEF ClientTypeOK, HostTasks, EventKinds
    <2>5. ClientTypeOK' /\ Newest' = Newest
      BY <1>1, <2>1, <2>3, <2>4 DEF ClientTypeOK, Newest
    <2>6. Phases' /\ OnTheAir' /\ Cleanups'
      BY <1>1, <2>1, <2>3, <2>4 DEF Phases, OnTheAir, Cleanups, NoCleanup
    <2>7. News'
      BY <1>1, <2>1, <2>3, <2>4, <2>5, Blank, NewestIsNat DEF Phases, OnTheAir, News, Heard
    <2>8. Mail'
      BY <1>1, <2>1, <2>3, <2>4, <2>5, MailStays DEF Phases, OnTheAir, StillLinked
    <2>9. Silence'
      BY <1>1, <2>1, <2>3, <2>4 DEF Phases, Silence
    <2>10. Acks'
      BY <1>1, <2>1, <2>3, <2>4 DEF Phases, Acks, Rank, Within, Writing, NoGatt
    <2> QED
      BY <2>5, <2>6, <2>7, <2>8, <2>9, <2>10
  <1>2. CASE ~(host.op = client.linkOp /\ client.handle)
    <2>1. UNCHANGED <<stack, client, cleanup, inbox, task>>
      BY <1>2 DEF GapCurrent
    <2>2. host' = NoHost
      BY <1>2 DEF GapCurrent
    <2>3. /\ host'.pc = "idle" /\ host'.kind = "none" /\ host'.gatt = NoGatt /\ host'.op = 0
          /\ host' \in HostTasks
      BY <1>2, <2>1, <2>2, Blank DEF ClientTypeOK, HostTasks, EventKinds
    <2>4. ClientTypeOK' /\ Newest' = Newest
      BY <1>2, <2>1, <2>3 DEF ClientTypeOK, Newest
    <2>5. Phases' /\ OnTheAir' /\ Cleanups'
      BY <1>2, <2>1, <2>3 DEF Phases, OnTheAir, Cleanups, NoCleanup
    <2>6. News'
      BY <1>2, <2>1, <2>3, <2>4, Blank, NewestIsNat DEF Phases, OnTheAir, News, Heard
    <2>7. Mail'
      BY <1>2, <2>1, <2>3, <2>4, MailStays DEF Phases, OnTheAir, StillLinked
    <2>8. Silence' /\ Acks'
      BY <1>2, <2>1, <2>3 DEF Phases, Silence, Acks, Rank, Within, Writing, NoGatt
    <2> QED
      BY <2>4, <2>5, <2>6, <2>7, <2>8
  <1> QED
    BY <1>1, <1>2 DEF GapCurrent

LEMMA ConnectDoneKeeps ==
    ASSUME ClientInv, NEW ok \in BOOLEAN, ConnectDone(ok)
    PROVE  ClientInv'
  <1> USE DEF ClientInv
  <1>1. CASE CurrentConnect(stack.attempt)
    <2>1. /\ UNCHANGED <<cleanup, inbox, task>>
          /\ host.pc = "idle"
          /\ stack.attempt # 0
          /\ stack.attempt = client.linkOp /\ client.state = "Connecting" /\ ~client.pending
      BY <1>1 DEF ConnectDone, CurrentConnect, Push, ClientTypeOK, HostStacks
    <2>2. /\ stack.attempt \in Nat
          /\ stack' = [stack EXCEPT !.attempt = 0, !.link = IF ok THEN stack.attempt ELSE @]
          /\ client' = [client EXCEPT !.handle = @ \/ ok, !.connected = TRUE]
          /\ host' = [pc |-> "push", kind |-> "connect", op |-> stack.attempt, gatt |-> NoGatt, ok |-> ok]
      BY <1>1 DEF ConnectDone, CurrentConnect, Push, ClientTypeOK, HostStacks
    <2>3. /\ stack' \in HostStacks
          /\ Same(StackFields, stack, stack', {"attempt", "link"})
          /\ stack'.attempt = 0 /\ stack'.link = IF ok THEN stack.attempt ELSE stack.link
      BY <1>1, <2>1, <2>2, Blank DEF ClientTypeOK, HostStacks
    <2>4. /\ IsClient(client')
          /\ Same(ClientFields, client, client', {"handle", "connected"})
          /\ client'.handle = (client.handle \/ ok) /\ client'.connected
      BY <1>1, <2>1, <2>2, Blank DEF ClientTypeOK, IsClient, States, Results
    <2>5. /\ host' \in HostTasks
          /\ host'.pc = "push" /\ host'.kind = "connect" /\ host'.op = stack.attempt /\ host'.gatt = NoGatt /\ host'.ok = ok
      BY <1>1, <2>1, <2>2, Blank DEF ClientTypeOK, HostTasks, EventKinds
    <2>6. ClientTypeOK' /\ Newest' = Newest
      BY <1>1, <2>1, <2>3, <2>4, <2>5 DEF ClientTypeOK, Newest
    <2>7. Phases' /\ OnTheAir' /\ Cleanups'
      BY <1>1, <2>1, <2>3, <2>4, <2>5 DEF Phases, OnTheAir, Cleanups, NoCleanup
    <2>8. News'
      BY <1>1, <2>1, <2>3, <2>4, <2>5, <2>6, Blank, NewestIsNat DEF Phases, OnTheAir, News, Heard
    <2>9. Mail'
      BY <1>1, <2>1, <2>3, <2>4, <2>5, <2>6, MailStays DEF Phases, OnTheAir, StillLinked
    <2>10. Silence' /\ Acks'
      BY <1>1, <2>1, <2>3, <2>4, <2>5 DEF Phases, Silence, Acks, Rank, Within, Writing, NoGatt
    <2> QED
      BY <2>6, <2>7, <2>8, <2>9, <2>10
  <1>2. CASE ~CurrentConnect(stack.attempt) /\ CleanupConnect(stack.attempt)
    <2>1. /\ UNCHANGED <<client, host, inbox, task>>
          /\ host.pc = "idle"
          /\ stack.attempt # 0
          /\ stack.attempt = cleanup.op /\ cleanup.sync = stack.sync
      BY <1>2 DEF ConnectDone, CurrentConnect, CleanupConnect, ClientTypeOK, HostStacks
    <2>2. /\ stack.attempt \in Nat
          /\ stack' = [stack EXCEPT !.attempt = 0, !.link = IF ok THEN stack.attempt ELSE @]
          /\ cleanup' = AfterCleanupConnect(ok)
      BY <1>2 DEF ConnectDone, CurrentConnect, CleanupConnect, ClientTypeOK, HostStacks
    <2>3. /\ stack' \in HostStacks
          /\ Same(StackFields, stack, stack', {"attempt", "link"})
          /\ stack'.attempt = 0 /\ stack'.link = IF ok THEN stack.attempt ELSE stack.link
      BY <1>2, <2>1, <2>2, Blank DEF ClientTypeOK, HostStacks, AfterCleanupConnect, NoCleanup
    <2>4. /\ cleanup' \in Cleaning
          /\ cleanup.handle => cleanup' = cleanup
          /\ ~cleanup.handle /\ ok => cleanup'.handle /\ Same(CleaningFields, cleanup, cleanup', {"handle", "terminate"})
          /\ ~cleanup.handle /\ ~ok => cleanup' = NoCleanup
      BY <1>2, <2>1, <2>2, Blank DEF ClientTypeOK, Cleaning, AfterCleanupConnect, NoCleanup
    <2>5. ClientTypeOK' /\ Newest' = Newest
      BY <1>2, <2>1, <2>3, <2>4 DEF ClientTypeOK, Newest
    <2>6. Phases' /\ OnTheAir' /\ Cleanups'
      BY <1>2, <2>1, <2>3, <2>4 DEF Phases, OnTheAir, Cleanups, NoCleanup
    <2>7. News'
      BY <1>2, <2>1, <2>3, <2>4, <2>5, Blank, NewestIsNat DEF Phases, OnTheAir, News, Heard,
        NoCleanup
    <2>8. Mail'
      BY <1>2, <2>1, <2>3, <2>4, <2>5, MailStays DEF Phases, OnTheAir, StillLinked
    <2>9. Silence' /\ Acks'
      BY <1>2, <2>1, <2>3, <2>4 DEF Phases, Silence, Acks, Rank, Within, Writing, NoGatt
    <2> QED
      BY <2>5, <2>6, <2>7, <2>8, <2>9
  <1>3. CASE ~CurrentConnect(stack.attempt) /\ ~CleanupConnect(stack.attempt)
    <2>1. /\ UNCHANGED <<client, host, cleanup, inbox, task>>
          /\ host.pc = "idle"
          /\ stack.attempt # 0
          /\ ~(stack.attempt = client.linkOp /\ client.state = "Connecting" /\ ~client.pending)
          /\ ~(stack.attempt = cleanup.op /\ cleanup.sync = stack.sync)
      BY <1>3 DEF ConnectDone, CurrentConnect, CleanupConnect, ClientTypeOK, HostStacks
    <2>2. /\ stack.attempt \in Nat
          /\ stack' = [stack EXCEPT !.attempt = 0, !.link = IF ok THEN stack.attempt ELSE @]
      BY <1>3 DEF ConnectDone, CurrentConnect, CleanupConnect, ClientTypeOK, HostStacks
    <2>3. /\ stack' \in HostStacks
          /\ Same(StackFields, stack, stack', {"attempt", "link"})
          /\ stack'.attempt = 0 /\ stack'.link = IF ok THEN stack.attempt ELSE stack.link
      BY <1>3, <2>1, <2>2, Blank DEF ClientTypeOK, HostStacks
    <2>4. ClientTypeOK' /\ Newest' = Newest
      BY <1>3, <2>1, <2>3 DEF ClientTypeOK, Newest
    <2>5. Phases' /\ OnTheAir' /\ Cleanups'
      BY <1>3, <2>1, <2>3 DEF Phases, OnTheAir, Cleanups, NoCleanup
    <2>6. News'
      BY <1>3, <2>1, <2>3, <2>4, Blank, NewestIsNat DEF Phases, OnTheAir, News, Heard
    <2>7. Mail'
      BY <1>3, <2>1, <2>3, <2>4, MailStays DEF Phases, OnTheAir, StillLinked
    <2>8. Silence' /\ Acks'
      BY <1>3, <2>1, <2>3 DEF Phases, Silence, Acks, Rank, Within, Writing, NoGatt
    <2> QED
      BY <2>4, <2>5, <2>6, <2>7, <2>8
  <1> QED
    BY <1>1, <1>2, <1>3 DEF ConnectDone

LEMMA GattDoneKeeps ==
    ASSUME ClientInv, NEW ok \in BOOLEAN, GattDone(ok)
    PROVE  ClientInv'
  <1> USE DEF ClientInv
  <1>1. CASE MatchGatt(stack.gatt)
    <2>1. /\ UNCHANGED <<client, cleanup, inbox, task>>
          /\ host.pc = "idle"
          /\ stack.gatt # NoGatt /\ stack.gatt = client.gattOp
      BY <1>1, DiscoveryIs DEF GattDone, MatchGatt, Acknowledges
    <2>2. /\ stack' = [stack EXCEPT !.gatt = NoGatt, !.acked = IF ok /\ stack.gatt[2] > 5 THEN stack.gatt ELSE @]
          /\ host' = [pc |-> "result", kind |-> "gatt", op |-> stack.gatt[1], gatt |-> stack.gatt, ok |-> ok]
      BY <1>1, DiscoveryIs DEF GattDone, MatchGatt, Acknowledges
    <2>3. /\ stack' \in HostStacks
          /\ Same(StackFields, stack, stack', {"gatt", "acked"})
          /\ stack'.gatt = NoGatt
          /\ stack'.acked = IF ok /\ stack.gatt[2] > 5 THEN stack.gatt ELSE stack.acked
      BY <1>1, <2>1, <2>2, Blank DEF ClientTypeOK, HostStacks, Gatts
    <2>4. /\ host' \in HostTasks
          /\ host'.pc = "result" /\ host'.kind = "gatt" /\ host'.gatt = stack.gatt /\ host'.op = stack.gatt[1] /\ host'.ok = ok
      BY <1>1, <2>1, <2>2, Blank DEF ClientTypeOK, HostTasks, EventKinds, Gatts, HostStacks
    <2>5. ClientTypeOK' /\ Newest' = Newest
      BY <1>1, <2>1, <2>3, <2>4 DEF ClientTypeOK, Newest
    <2>6. Phases' /\ OnTheAir' /\ Cleanups'
      BY <1>1, <2>1, <2>3, <2>4 DEF Phases, OnTheAir, Cleanups, NoCleanup
    <2>7. News'
      BY <1>1, <2>1, <2>3, <2>4, <2>5, Blank, NewestIsNat DEF Phases, OnTheAir, News, Heard, Acks
    <2>8. Mail'
      BY <1>1, <2>1, <2>3, <2>4, <2>5, MailStays DEF Phases, OnTheAir, StillLinked
    <2>9. Silence' /\ Acks'
      BY <1>1, <2>1, <2>3, <2>4 DEF Phases, Silence, Acks, Rank, Within, Writing, NoGatt
    <2> QED
      BY <2>5, <2>6, <2>7, <2>8, <2>9
  <1>2. CASE ~MatchGatt(stack.gatt)
    <2>1. /\ UNCHANGED <<client, host, cleanup, inbox, task>>
          /\ host.pc = "idle"
          /\ stack.gatt # NoGatt /\ stack.gatt # client.gattOp
      BY <1>2, DiscoveryIs DEF GattDone, MatchGatt, Acknowledges
    <2>2. stack' = [stack EXCEPT !.gatt = NoGatt, !.acked = IF ok /\ stack.gatt[2] > 5 THEN stack.gatt ELSE @]
      BY <1>2, DiscoveryIs DEF GattDone, MatchGatt, Acknowledges
    <2>3. /\ stack' \in HostStacks
          /\ Same(StackFields, stack, stack', {"gatt", "acked"})
          /\ stack'.gatt = NoGatt
          /\ stack'.acked = IF ok /\ stack.gatt[2] > 5 THEN stack.gatt ELSE stack.acked
      BY <1>2, <2>1, <2>2, Blank DEF ClientTypeOK, HostStacks, Gatts
    <2>4. ClientTypeOK' /\ Newest' = Newest
      BY <1>2, <2>1, <2>3 DEF ClientTypeOK, Newest
    <2>5. Phases' /\ OnTheAir' /\ Cleanups'
      BY <1>2, <2>1, <2>3 DEF Phases, OnTheAir, Cleanups, NoCleanup
    <2>6. News'
      BY <1>2, <2>1, <2>3, <2>4, Blank, NewestIsNat DEF Phases, OnTheAir, News, Heard, Acks
    <2>7. Mail'
      BY <1>2, <2>1, <2>3, <2>4, MailStays DEF Phases, OnTheAir, StillLinked
    <2>8. Silence' /\ Acks'
      BY <1>2, <2>1, <2>3 DEF Phases, Silence, Acks, Rank, Within, Writing, NoGatt
    <2> QED
      BY <2>4, <2>5, <2>6, <2>7, <2>8
  <1> QED
    BY <1>1, <1>2 DEF GattDone

LEMMA GattResultKeeps ==
    ASSUME ClientInv, GattResult
    PROVE  ClientInv'
  <1> USE DEF ClientInv
  <1>1. CASE host.gatt[2] <= Len(Discovery)
    <2>1. /\ UNCHANGED <<stack, client, cleanup, inbox, task>>
          /\ host.pc = "result"
          /\ host.gatt[2] <= 5
      BY <1>1, DiscoveryIs DEF GattResult
    <2>2. host' = [host EXCEPT !.pc = "push"]
      BY <1>1, DiscoveryIs DEF GattResult
    <2>3. /\ host' \in HostTasks
          /\ host'.pc = "push" /\ host'.kind = host.kind /\ host'.gatt = host.gatt /\ host'.op = host.op
      BY <1>1, <2>1, <2>2, Blank DEF ClientTypeOK, HostTasks, EventKinds
    <2>4. ClientTypeOK' /\ Newest' = Newest
      BY <1>1, <2>1, <2>3 DEF ClientTypeOK, Newest
    <2>5. Phases' /\ OnTheAir' /\ Cleanups'
      BY <1>1, <2>1, <2>3 DEF Phases, OnTheAir, Cleanups, NoCleanup
    <2>6. News'
      BY <1>1, <2>1, <2>3, <2>4, Blank, NewestIsNat, DiscoveryIs DEF Phases, OnTheAir, News,
        Heard, ClientTypeOK, HostTasks, Gatts
    <2>7. Mail'
      BY <1>1, <2>1, <2>3, <2>4, MailStays DEF Phases, OnTheAir, StillLinked
    <2>8. Silence' /\ Acks'
      BY <1>1, <2>1, <2>3 DEF Phases, Silence, Acks, Rank, Within, Writing, NoGatt
    <2> QED
      BY <2>4, <2>5, <2>6, <2>7, <2>8
  <1>2. CASE ~(host.gatt[2] <= Len(Discovery)) /\ MatchGatt(host.gatt) /\ client.write.on /\ ~client.write.done
    <2>1. /\ UNCHANGED <<stack, cleanup, inbox, task>>
          /\ host.pc = "result"
          /\ host.gatt[2] > 5
          /\ host.gatt = client.gattOp /\ client.write.on /\ ~client.write.done
      BY <1>2, DiscoveryIs DEF GattResult, MatchGatt, ClientTypeOK, HostTasks, Gatts
    <2>2. /\ host' = NoHost
          /\ client' = [client EXCEPT !.write.done = TRUE, !.write.ok = host.ok]
      BY <1>2, DiscoveryIs DEF GattResult, MatchGatt, ClientTypeOK, HostTasks, Gatts
    <2>3. /\ host' \in HostTasks
          /\ host'.pc = "idle" /\ host'.kind = "none" /\ host'.gatt = NoGatt /\ host'.op = 0
      BY <1>2, <2>1, <2>2, Blank DEF ClientTypeOK, HostTasks, EventKinds
    <2>4. /\ IsClient(client')
          /\ Same(ClientFields, client, client', {"write"})
          /\ client'.write.on /\ client'.write.done /\ client'.write.ok = host.ok
      BY <1>2, <2>1, <2>2, Blank DEF ClientTypeOK, IsClient, States, Results, HostTasks
    <2>5. ClientTypeOK' /\ Newest' = Newest
      BY <1>2, <2>1, <2>3, <2>4 DEF ClientTypeOK, Newest
    <2>6. Phases' /\ OnTheAir' /\ Cleanups'
      BY <1>2, <2>1, <2>3, <2>4 DEF Phases, OnTheAir, Cleanups, NoCleanup
    <2>7. News'
      BY <1>2, <2>1, <2>3, <2>4, <2>5, Blank, NewestIsNat DEF Phases, OnTheAir, News, Heard
    <2>8. Mail'
      BY <1>2, <2>1, <2>3, <2>4, <2>5, MailStays DEF Phases, OnTheAir, StillLinked
    <2>9. Silence' /\ Acks'
      BY <1>2, <2>1, <2>3, <2>4 DEF Phases, Silence, Acks, Rank, Within, Writing, NoGatt
    <2> QED
      BY <2>5, <2>6, <2>7, <2>8, <2>9
  <1>3. CASE ~(host.gatt[2] <= Len(Discovery)) /\ ~(MatchGatt(host.gatt) /\ client.write.on /\ ~client.write.done)
    <2>1. /\ UNCHANGED <<stack, client, cleanup, inbox, task>>
          /\ host.pc = "result"
      BY <1>3, DiscoveryIs DEF GattResult
    <2>2. host' = NoHost
      BY <1>3, DiscoveryIs DEF GattResult
    <2>3. /\ host' \in HostTasks
          /\ host'.pc = "idle" /\ host'.kind = "none" /\ host'.gatt = NoGatt /\ host'.op = 0
      BY <1>3, <2>1, <2>2, Blank DEF ClientTypeOK, HostTasks, EventKinds
    <2>4. ClientTypeOK' /\ Newest' = Newest
      BY <1>3, <2>1, <2>3 DEF ClientTypeOK, Newest
    <2>5. Phases' /\ OnTheAir' /\ Cleanups'
      BY <1>3, <2>1, <2>3 DEF Phases, OnTheAir, Cleanups, NoCleanup
    <2>6. News'
      BY <1>3, <2>1, <2>3, <2>4, Blank, NewestIsNat DEF Phases, OnTheAir, News, Heard
    <2>7. Mail'
      BY <1>3, <2>1, <2>3, <2>4, MailStays DEF Phases, OnTheAir, StillLinked
    <2>8. Silence' /\ Acks'
      BY <1>3, <2>1, <2>3 DEF Phases, Silence, Acks, Rank, Within, Writing, NoGatt
    <2> QED
      BY <2>4, <2>5, <2>6, <2>7, <2>8
  <1> QED
    BY <1>1, <1>2, <1>3 DEF GattResult

LEMMA PushEventKeeps ==
    ASSUME ClientInv, PushEvent
    PROVE  ClientInv'
  <1> USE DEF ClientInv
  <1>1. CASE host.kind = "gatt"
    <2>1. /\ UNCHANGED <<stack, client, cleanup, task>>
          /\ host.pc = "push"
      BY <1>1 DEF PushEvent
    <2>2. /\ host' = NoHost
          /\ inbox' = [inbox EXCEPT !.control = Append(@, [kind |-> host.kind, op |-> host.op, gatt |-> host.gatt, ok |-> host.ok])]
      BY <1>1 DEF PushEvent
    <2>3. /\ host' \in HostTasks
          /\ host'.pc = "idle" /\ host'.kind = "none" /\ host'.gatt = NoGatt /\ host'.op = 0
      BY <1>1, <2>1, <2>2, EventsAppended, Blank DEF ClientTypeOK, HostTasks, EventKinds,
        HostEvents, News
    <2>4. /\ IsInbox(inbox') /\ inbox'.critical = inbox.critical
          /\ inbox'.control = Append(inbox.control, [kind |-> host.kind, op |-> host.op, gatt |-> host.gatt, ok |-> host.ok])
      BY <1>1, <2>1, <2>2, EventsAppended, Blank DEF ClientTypeOK, IsInbox, InboxFields,
        HostEvents, News, HostTasks
    <2>5. ClientTypeOK' /\ Newest' = Newest
      BY <1>1, <2>1, <2>3, <2>4 DEF ClientTypeOK, Newest
    <2>6. Phases' /\ OnTheAir' /\ Cleanups'
      BY <1>1, <2>1, <2>3, <2>4 DEF Phases, OnTheAir, Cleanups, NoCleanup
    <2>7. News'
      BY <1>1, <2>1, <2>3, <2>4, <2>5, Blank, NewestIsNat DEF Phases, OnTheAir, News, Heard
    <2>8. Mail'
      <3>1. PICK e \in HostEvents : e = [kind |-> host.kind, op |-> host.op, gatt |-> host.gatt, ok |-> host.ok]
        BY <1>1, <2>1, <2>3, <2>4 DEF ClientTypeOK, HostTasks, HostEvents, News
      <3>2. IsControl(e)'
        BY <1>1, <2>1, <2>3, <2>4, <2>5, <3>1 DEF News, Heard, IsControl
      <3>3. \A f \in HostEvents : IsCritical(f) => IsCritical(f)'
        BY <2>1, <2>3, <2>4, <2>5 DEF IsCritical, Heard
      <3>4. inbox.control \in Seq(HostEvents) /\ inbox'.control = Append(inbox.control, e)
        BY <2>1, <2>3, <2>4, <3>1 DEF ClientTypeOK, IsInbox
      <3>5. ASSUME NEW i \in 1..Len(inbox'.control) PROVE IsControl(inbox.control[i])'
        <4>1. CASE i \in 1..Len(inbox.control) /\ inbox'.control[i] = inbox.control[i]
          <5>1. PICK f \in HostEvents : f = inbox.control[i]
            BY <4>1, <3>4
          <5>2. IsControl(f)
            BY <4>1, <5>1 DEF Mail
          <5>3. IsControl(f)'
            BY <5>2, <3>3 DEF IsControl
          <5> QED
            BY <4>1, <5>1, <5>3 DEF IsCritical, IsControl, Heard
        <4>2. CASE inbox'.control[i] = e
          BY <4>2, <3>2 DEF IsCritical, IsControl, Heard
        <4> QED
          BY <4>1, <4>2, <3>4, EventsAppended
      <3>6. ASSUME NEW i \in 1..Len(inbox'.critical) PROVE IsCritical(inbox.critical[i])'
        <4>1. inbox.critical \in Seq(HostEvents) /\ inbox'.critical = inbox.critical
          BY <2>1, <2>3, <2>4 DEF ClientTypeOK, IsInbox
        <4>2. PICK f \in HostEvents : f = inbox.critical[i]
          BY <4>1
        <4>3. IsCritical(f)
          BY <4>1, <4>2 DEF Mail
        <4>4. IsCritical(f)'
          BY <4>3, <3>3 DEF IsControl
        <4> QED
          BY <4>1, <4>2, <4>4 DEF IsCritical, IsControl, Heard
      <3> QED
        BY <3>5, <3>6 DEF Mail
    <2>9. Silence' /\ Acks'
      BY <1>1, <2>1, <2>3, <2>4 DEF Phases, Silence, Acks, Rank, Within, Writing, NoGatt
    <2> QED
      BY <2>5, <2>6, <2>7, <2>8, <2>9
  <1>2. CASE host.kind # "gatt"
    <2>1. /\ UNCHANGED <<stack, client, cleanup, task>>
          /\ host.pc = "push"
      BY <1>2 DEF PushEvent
    <2>2. /\ host' = NoHost
          /\ inbox' = [inbox EXCEPT !.critical = Append(@, [kind |-> host.kind, op |-> host.op, gatt |-> host.gatt, ok |-> host.ok])]
      BY <1>2 DEF PushEvent
    <2>3. /\ host' \in HostTasks
          /\ host'.pc = "idle" /\ host'.kind = "none" /\ host'.gatt = NoGatt /\ host'.op = 0
      BY <1>2, <2>1, <2>2, EventsAppended, Blank DEF ClientTypeOK, HostTasks, EventKinds,
        HostEvents, News
    <2>4. /\ IsInbox(inbox') /\ inbox'.control = inbox.control
          /\ inbox'.critical = Append(inbox.critical, [kind |-> host.kind, op |-> host.op, gatt |-> host.gatt, ok |-> host.ok])
      BY <1>2, <2>1, <2>2, EventsAppended, Blank DEF ClientTypeOK, IsInbox, InboxFields,
        HostEvents, News, HostTasks
    <2>5. ClientTypeOK' /\ Newest' = Newest
      BY <1>2, <2>1, <2>3, <2>4 DEF ClientTypeOK, Newest
    <2>6. Phases' /\ OnTheAir' /\ Cleanups'
      BY <1>2, <2>1, <2>3, <2>4 DEF Phases, OnTheAir, Cleanups, NoCleanup
    <2>7. News'
      BY <1>2, <2>1, <2>3, <2>4, <2>5, Blank, NewestIsNat DEF Phases, OnTheAir, News, Heard
    <2>8. Mail'
      <3>1. PICK e \in HostEvents : e = [kind |-> host.kind, op |-> host.op, gatt |-> host.gatt, ok |-> host.ok]
        BY <1>2, <2>1, <2>3, <2>4 DEF ClientTypeOK, HostTasks, HostEvents, News
      <3>2. IsCritical(e)'
        BY <1>2, <2>1, <2>3, <2>4, <2>5, <3>1 DEF News, Heard, IsCritical
      <3>3. \A f \in HostEvents : IsCritical(f) => IsCritical(f)'
        BY <2>1, <2>3, <2>4, <2>5 DEF IsCritical, Heard
      <3>4. inbox.critical \in Seq(HostEvents) /\ inbox'.critical = Append(inbox.critical, e)
        BY <2>1, <2>3, <2>4, <3>1 DEF ClientTypeOK, IsInbox
      <3>5. ASSUME NEW i \in 1..Len(inbox'.critical) PROVE IsCritical(inbox.critical[i])'
        <4>1. CASE i \in 1..Len(inbox.critical) /\ inbox'.critical[i] = inbox.critical[i]
          <5>1. PICK f \in HostEvents : f = inbox.critical[i]
            BY <4>1, <3>4
          <5>2. IsCritical(f)
            BY <4>1, <5>1 DEF Mail
          <5>3. IsCritical(f)'
            BY <5>2, <3>3 DEF IsControl
          <5> QED
            BY <4>1, <5>1, <5>3 DEF IsCritical, IsControl, Heard
        <4>2. CASE inbox'.critical[i] = e
          BY <4>2, <3>2 DEF IsCritical, IsControl, Heard
        <4> QED
          BY <4>1, <4>2, <3>4, EventsAppended
      <3>6. ASSUME NEW i \in 1..Len(inbox'.control) PROVE IsControl(inbox.control[i])'
        <4>1. inbox.control \in Seq(HostEvents) /\ inbox'.control = inbox.control
          BY <2>1, <2>3, <2>4 DEF ClientTypeOK, IsInbox
        <4>2. PICK f \in HostEvents : f = inbox.control[i]
          BY <4>1
        <4>3. IsControl(f)
          BY <4>1, <4>2 DEF Mail
        <4>4. IsControl(f)'
          BY <4>3, <3>3 DEF IsControl
        <4> QED
          BY <4>1, <4>2, <4>4 DEF IsCritical, IsControl, Heard
      <3> QED
        BY <3>5, <3>6 DEF Mail
    <2>9. Silence' /\ Acks'
      BY <1>2, <2>1, <2>3, <2>4 DEF Phases, Silence, Acks, Rank, Within, Writing, NoGatt
    <2> QED
      BY <2>5, <2>6, <2>7, <2>8, <2>9
  <1> QED
    BY <1>1, <1>2 DEF PushEvent

-----------------------------------------------------------------------------
(* The worker: submitRadioProcedure and what follows it. *)

LEMMA SubmitKeeps ==
    ASSUME ClientInv, Submit
    PROVE  ClientInv'
  <1> USE DEF ClientInv
  <1>1. CASE MaySubmit
    <2>1. /\ UNCHANGED <<stack, host, cleanup, inbox>>
          /\ task.pc = "submit" /\ ~client.submit /\ ~client.pending
          /\ ~client.silent \/ task.proc = "command"
      BY <1>1 DEF Submit, MaySubmit
    <2>2. /\ client' = [client EXCEPT !.submit = TRUE]
          /\ task' = [task EXCEPT !.pc = "call"]
      BY <1>1 DEF Submit, MaySubmit
    <2>3. /\ IsClient(client')
          /\ Same(ClientFields, client, client', {"submit"})
          /\ client'.submit
      BY <1>1, <2>1, <2>2, Blank DEF ClientTypeOK, IsClient, States, Results
    <2>4. /\ task' \in Tasks
          /\ Same(TaskFields, task, task', {"pc"})
          /\ task'.pc = "call"
      BY <1>1, <2>1, <2>2, Blank DEF ClientTypeOK, Tasks, ClientPlaces, Procedures, LossReasons
    <2>5. ClientTypeOK' /\ Newest' = Newest
      BY <1>1, <2>1, <2>3, <2>4 DEF ClientTypeOK, Newest
    <2>6. Phases' /\ OnTheAir' /\ Cleanups'
      BY <1>1, <2>1, <2>3, <2>4 DEF Phases, OnTheAir, Cleanups, NoCleanup
    <2>7. News'
      BY <1>1, <2>1, <2>3, <2>4, <2>5, Blank, NewestIsNat DEF Phases, OnTheAir, News, Heard
    <2>8. Mail'
      BY <1>1, <2>1, <2>3, <2>4, <2>5, MailStays DEF Phases, OnTheAir, StillLinked
    <2>9. Silence' /\ Acks'
      BY <1>1, <2>1, <2>3, <2>4 DEF Phases, Silence, Acks, Rank, Within, Writing, NoGatt
    <2> QED
      BY <2>5, <2>6, <2>7, <2>8, <2>9
  <1>2. CASE ~MaySubmit
    <2>1. /\ UNCHANGED <<stack, host, client, cleanup, inbox>>
          /\ task.pc = "submit"
      BY <1>2 DEF Submit
    <2>2. task' = [task EXCEPT !.pc = "done", !.rc = "busy"]
      BY <1>2 DEF Submit
    <2>3. /\ task' \in Tasks
          /\ Same(TaskFields, task, task', {"pc", "rc"})
          /\ task'.pc = "done" /\ task'.rc = "busy"
      BY <1>2, <2>1, <2>2, Blank DEF ClientTypeOK, Tasks, ClientPlaces, Procedures, LossReasons
    <2>4. ClientTypeOK' /\ Newest' = Newest
      BY <1>2, <2>1, <2>3 DEF ClientTypeOK, Newest
    <2>5. Phases' /\ OnTheAir' /\ Cleanups'
      BY <1>2, <2>1, <2>3 DEF Phases, OnTheAir, Cleanups, NoCleanup
    <2>6. News'
      BY <1>2, <2>1, <2>3, <2>4, Blank, NewestIsNat DEF Phases, OnTheAir, News, Heard
    <2>7. Mail'
      BY <1>2, <2>1, <2>3, <2>4, MailStays DEF Phases, OnTheAir, StillLinked
    <2>8. Silence' /\ Acks'
      BY <1>2, <2>1, <2>3 DEF Phases, Silence, Acks, Rank, Within, Writing, NoGatt
    <2> QED
      BY <2>4, <2>5, <2>6, <2>7, <2>8
  <1> QED
    BY <1>1, <1>2 DEF Submit

LEMMA AcceptedKeeps ==
    ASSUME ClientInv, Accepted
    PROVE  ClientInv'
  <1> USE DEF ClientInv
  <1>1. CASE task.proc \in {"scan"}
    <2>1. /\ UNCHANGED <<host, client, cleanup, inbox>>
          /\ task.pc = "call" /\ stack.ready
      BY <1>1 DEF Accepted, Possible, Performed, Answer
    <2>2. /\ task' = [task EXCEPT !.pc = "end", !.rc = "ok"]
          /\ stack' = [stack EXCEPT !.scan = client.scanOp]
      BY <1>1 DEF Accepted, Possible, Performed, Answer
    <2>3. /\ stack' \in HostStacks
          /\ Same(StackFields, stack, stack', {"scan"})
      BY <1>1, <2>1, <2>2, Blank DEF ClientTypeOK, HostStacks, IsClient
    <2>4. /\ task' \in Tasks
          /\ Same(TaskFields, task, task', {"pc", "rc"})
          /\ task'.pc = "end" /\ task'.rc = "ok"
      BY <1>1, <2>1, <2>2, Blank DEF ClientTypeOK, Tasks, ClientPlaces, Procedures, LossReasons,
        IsClient
    <2>5. ClientTypeOK' /\ Newest' = Newest
      BY <1>1, <2>1, <2>3, <2>4 DEF ClientTypeOK, Newest
    <2>6. Phases' /\ OnTheAir' /\ Cleanups'
      BY <1>1, <2>1, <2>3, <2>4 DEF Phases, OnTheAir, Cleanups, NoCleanup
    <2>7. News'
      BY <1>1, <2>1, <2>3, <2>4, <2>5, Blank, NewestIsNat DEF Phases, OnTheAir, News, Heard
    <2>8. Mail'
      BY <1>1, <2>1, <2>3, <2>4, <2>5, MailStays DEF Phases, OnTheAir, StillLinked
    <2>9. Silence' /\ Acks'
      BY <1>1, <2>1, <2>3, <2>4 DEF Phases, Silence, Acks, Rank, Within, Writing, NoGatt
    <2> QED
      BY <2>5, <2>6, <2>7, <2>8, <2>9
  <1>2. CASE task.proc \in {"select", "stopScan"}
    <2>1. /\ UNCHANGED <<host, client, cleanup, inbox>>
          /\ task.pc = "call" /\ stack.ready
      BY <1>2 DEF Accepted, Possible, Performed, Answer
    <2>2. /\ task' = [task EXCEPT !.pc = "end", !.rc = "ok"]
          /\ stack' = [stack EXCEPT !.scan = 0]
      BY <1>2 DEF Accepted, Possible, Performed, Answer
    <2>3. /\ stack' \in HostStacks
          /\ Same(StackFields, stack, stack', {"scan"})
      BY <1>2, <2>1, <2>2, Blank DEF ClientTypeOK, HostStacks
    <2>4. /\ task' \in Tasks
          /\ Same(TaskFields, task, task', {"pc", "rc"})
          /\ task'.pc = "end" /\ task'.rc = "ok"
      BY <1>2, <2>1, <2>2, Blank DEF ClientTypeOK, Tasks, ClientPlaces, Procedures, LossReasons
    <2>5. ClientTypeOK' /\ Newest' = Newest
      BY <1>2, <2>1, <2>3, <2>4 DEF ClientTypeOK, Newest
    <2>6. Phases' /\ OnTheAir' /\ Cleanups'
      BY <1>2, <2>1, <2>3, <2>4 DEF Phases, OnTheAir, Cleanups, NoCleanup
    <2>7. News'
      BY <1>2, <2>1, <2>3, <2>4, <2>5, Blank, NewestIsNat DEF Phases, OnTheAir, News, Heard
    <2>8. Mail'
      BY <1>2, <2>1, <2>3, <2>4, <2>5, MailStays DEF Phases, OnTheAir, StillLinked
    <2>9. Silence' /\ Acks'
      BY <1>2, <2>1, <2>3, <2>4 DEF Phases, Silence, Acks, Rank, Within, Writing, NoGatt
    <2> QED
      BY <2>5, <2>6, <2>7, <2>8, <2>9
  <1>3. CASE task.proc \in {"connect"}
    <2>1. /\ UNCHANGED <<host, client, cleanup, inbox>>
          /\ task.pc = "call" /\ stack.ready
          /\ stack.attempt = 0
      BY <1>3 DEF Accepted, Possible, Performed, Answer
    <2>2. /\ task' = [task EXCEPT !.pc = "end", !.rc = "ok"]
          /\ stack' = [stack EXCEPT !.attempt = client.linkOp]
      BY <1>3 DEF Accepted, Possible, Performed, Answer
    <2>3. /\ stack' \in HostStacks
          /\ Same(StackFields, stack, stack', {"attempt"})
          /\ stack'.attempt = client.linkOp
      BY <1>3, <2>1, <2>2, Blank DEF ClientTypeOK, HostStacks, IsClient
    <2>4. /\ task' \in Tasks
          /\ Same(TaskFields, task, task', {"pc", "rc"})
          /\ task'.pc = "end" /\ task'.rc = "ok"
      BY <1>3, <2>1, <2>2, Blank DEF ClientTypeOK, Tasks, ClientPlaces, Procedures, LossReasons,
        IsClient
    <2>5. ClientTypeOK' /\ Newest' = Newest
      BY <1>3, <2>1, <2>3, <2>4 DEF ClientTypeOK, Newest
    <2>6. Phases' /\ OnTheAir' /\ Cleanups'
      BY <1>3, <2>1, <2>3, <2>4 DEF Phases, OnTheAir, Cleanups, NoCleanup
    <2>7. News'
      BY <1>3, <2>1, <2>3, <2>4, <2>5, Blank, NewestIsNat DEF Phases, OnTheAir, News, Heard
    <2>8. Mail'
      BY <1>3, <2>1, <2>3, <2>4, <2>5, MailStays DEF Phases, OnTheAir, StillLinked
    <2>9. Silence' /\ Acks'
      BY <1>3, <2>1, <2>3, <2>4 DEF Phases, Silence, Acks, Rank, Within, Writing, NoGatt
    <2> QED
      BY <2>5, <2>6, <2>7, <2>8, <2>9
  <1>4. CASE task.proc \in {"gatt", "command"}
    <2>1. /\ UNCHANGED <<host, client, cleanup, inbox>>
          /\ task.pc = "call" /\ stack.ready
          /\ stack.link # 0
      BY <1>4 DEF Accepted, Possible, Performed, Answer
    <2>2. /\ task' = [task EXCEPT !.pc = "end", !.rc = "ok"]
          /\ stack' = [stack EXCEPT !.gatt = client.gattOp]
      BY <1>4 DEF Accepted, Possible, Performed, Answer
    <2>3. /\ stack' \in HostStacks
          /\ Same(StackFields, stack, stack', {"gatt"})
          /\ stack'.gatt = client.gattOp
      BY <1>4, <2>1, <2>2, Blank DEF ClientTypeOK, HostStacks, IsClient, Gatts
    <2>4. /\ task' \in Tasks
          /\ Same(TaskFields, task, task', {"pc", "rc"})
          /\ task'.pc = "end" /\ task'.rc = "ok"
      BY <1>4, <2>1, <2>2, Blank DEF ClientTypeOK, Tasks, ClientPlaces, Procedures, LossReasons,
        IsClient, Gatts
    <2>5. ClientTypeOK' /\ Newest' = Newest
      BY <1>4, <2>1, <2>3, <2>4 DEF ClientTypeOK, Newest
    <2>6. Phases' /\ OnTheAir' /\ Cleanups'
      BY <1>4, <2>1, <2>3, <2>4 DEF Phases, OnTheAir, Cleanups, NoCleanup
    <2>7. News'
      BY <1>4, <2>1, <2>3, <2>4, <2>5, Blank, NewestIsNat DEF Phases, OnTheAir, News, Heard, Acks
    <2>8. Mail'
      BY <1>4, <2>1, <2>3, <2>4, <2>5, MailStays DEF Phases, OnTheAir, StillLinked
    <2>9. Silence'
      BY <1>4, <2>1, <2>3, <2>4 DEF Phases, Silence
    <2>10. Acks'
      BY <1>4, <2>1, <2>3, <2>4 DEF Phases, Acks, Rank, Within, Writing, NoGatt, ClientTypeOK,
        IsClient
    <2> QED
      BY <2>5, <2>6, <2>7, <2>8, <2>9, <2>10
  <1>5. CASE task.proc \in {"terminate"}
    <2>1. /\ UNCHANGED <<host, client, cleanup, inbox>>
          /\ task.pc = "call" /\ stack.ready
          /\ stack.link # 0
      BY <1>5 DEF Accepted, Possible, Performed, Answer
    <2>2. /\ task' = [task EXCEPT !.pc = "end", !.rc = "ok"]
          /\ stack' = [stack EXCEPT !.closing = TRUE]
      BY <1>5 DEF Accepted, Possible, Performed, Answer
    <2>3. /\ stack' \in HostStacks
          /\ Same(StackFields, stack, stack', {"closing"})
      BY <1>5, <2>1, <2>2, Blank DEF ClientTypeOK, HostStacks
    <2>4. /\ task' \in Tasks
          /\ Same(TaskFields, task, task', {"pc", "rc"})
          /\ task'.pc = "end" /\ task'.rc = "ok"
      BY <1>5, <2>1, <2>2, Blank DEF ClientTypeOK, Tasks, ClientPlaces, Procedures, LossReasons
    <2>5. ClientTypeOK' /\ Newest' = Newest
      BY <1>5, <2>1, <2>3, <2>4 DEF ClientTypeOK, Newest
    <2>6. Phases' /\ OnTheAir' /\ Cleanups'
      BY <1>5, <2>1, <2>3, <2>4 DEF Phases, OnTheAir, Cleanups, NoCleanup
    <2>7. News'
      BY <1>5, <2>1, <2>3, <2>4, <2>5, Blank, NewestIsNat DEF Phases, OnTheAir, News, Heard
    <2>8. Mail'
      BY <1>5, <2>1, <2>3, <2>4, <2>5, MailStays DEF Phases, OnTheAir, StillLinked
    <2>9. Silence' /\ Acks'
      BY <1>5, <2>1, <2>3, <2>4 DEF Phases, Silence, Acks, Rank, Within, Writing, NoGatt
    <2> QED
      BY <2>5, <2>6, <2>7, <2>8, <2>9
  <1>6. CASE task.proc \in {"stopConnect"}
    <2>1. /\ UNCHANGED <<stack, host, client, cleanup, inbox>>
          /\ task.pc = "call" /\ stack.ready
      BY <1>6 DEF Accepted, Possible, Performed, Answer
    <2>2. task' = [task EXCEPT !.pc = "end", !.rc = "ok"]
      BY <1>6 DEF Accepted, Possible, Performed, Answer
    <2>3. /\ task' \in Tasks
          /\ Same(TaskFields, task, task', {"pc", "rc"})
          /\ task'.pc = "end" /\ task'.rc = "ok"
      BY <1>6, <2>1, <2>2, Blank DEF ClientTypeOK, Tasks, ClientPlaces, Procedures, LossReasons
    <2>4. ClientTypeOK' /\ Newest' = Newest
      BY <1>6, <2>1, <2>3 DEF ClientTypeOK, Newest
    <2>5. Phases' /\ OnTheAir' /\ Cleanups'
      BY <1>6, <2>1, <2>3 DEF Phases, OnTheAir, Cleanups, NoCleanup
    <2>6. News'
      BY <1>6, <2>1, <2>3, <2>4, Blank, NewestIsNat DEF Phases, OnTheAir, News, Heard
    <2>7. Mail'
      BY <1>6, <2>1, <2>3, <2>4, MailStays DEF Phases, OnTheAir, StillLinked
    <2>8. Silence' /\ Acks'
      BY <1>6, <2>1, <2>3 DEF Phases, Silence, Acks, Rank, Within, Writing, NoGatt
    <2> QED
      BY <2>4, <2>5, <2>6, <2>7, <2>8
  <1> QED
    BY <1>1, <1>2, <1>3, <1>4, <1>5, <1>6 DEF Accepted, Phases, ClientTypeOK, Tasks, Procedures

LEMMA RefusedKeeps ==
    ASSUME ClientInv, Refused
    PROVE  ClientInv'
  <1> USE DEF ClientInv
  <1>1. /\ UNCHANGED <<stack, host, client, cleanup, inbox>>
        /\ task.pc = "call"
        /\ task' \in Tasks
        /\ Same(TaskFields, task, task', {"pc", "rc"})
        /\ task'.pc = "end" /\ task'.rc # "ok"
        /\ task'.rc = "gone" => stack.link = 0
    BY ToAnswer, Blank DEF Refused, Answer
  <1>2. ClientTypeOK' /\ Newest' = Newest
    BY <1>1 DEF ClientTypeOK, Newest
  <1>3. Phases' /\ OnTheAir' /\ Cleanups'
    BY <1>1 DEF Phases, OnTheAir, Cleanups, NoCleanup
  <1>4. News'
    BY <1>1, <1>2, Blank, NewestIsNat DEF Phases, OnTheAir, News, Heard
  <1>5. Mail'
    BY <1>1, <1>2, MailStays DEF Phases, OnTheAir, StillLinked
  <1>6. Silence' /\ Acks'
    BY <1>1 DEF Phases, Silence, Acks, Rank, Within, Writing, NoGatt
  <1> QED
    BY <1>2, <1>3, <1>4, <1>5, <1>6

LEMMA EndSubmitKeeps ==
    ASSUME ClientInv, EndSubmit
    PROVE  ClientInv'
  <1> USE DEF ClientInv
  <1>1. /\ UNCHANGED <<stack, host, cleanup, inbox>>
        /\ task.pc = "end"
    BY DEF EndSubmit, Submitted
  <1>2. /\ client' = [client EXCEPT !.submit = FALSE, !.gapInSubmit = FALSE,
                         !.silent = @ \/ client.pending \/ client.gapInSubmit]
        /\ task' = [task EXCEPT !.pc = "done"]
    BY DEF EndSubmit, Submitted
  <1>3. /\ IsClient(client')
        /\ Same(ClientFields, client, client', {"submit", "gapInSubmit", "silent"})
        /\ ~client'.submit /\ client'.silent = (client.silent \/ client.pending \/ client.gapInSubmit)
    BY <1>1, <1>2, Blank DEF ClientTypeOK, IsClient, States, Results
  <1>4. /\ task' \in Tasks
        /\ Same(TaskFields, task, task', {"pc"})
        /\ task'.pc = "done"
    BY <1>1, <1>2, Blank DEF ClientTypeOK, Tasks, ClientPlaces, Procedures, LossReasons
  <1>5. ClientTypeOK' /\ Newest' = Newest
    BY <1>1, <1>3, <1>4 DEF ClientTypeOK, Newest
  <1>6. Phases' /\ OnTheAir' /\ Cleanups'
    BY <1>1, <1>3, <1>4 DEF Phases, OnTheAir, Cleanups, NoCleanup
  <1>7. News'
    BY <1>1, <1>3, <1>4, <1>5, Blank, NewestIsNat DEF Phases, OnTheAir, News, Heard
  <1>8. Mail'
    BY <1>1, <1>3, <1>4, <1>5, MailStays DEF Phases, OnTheAir, StillLinked
  <1>9. Acks'
    BY <1>1, <1>3, <1>4 DEF Phases, Acks, Rank, Within, Writing, NoGatt
  <1>10. Silence'
    BY <1>1, <1>3, <1>4 DEF Phases, Silence
  <1> QED
    BY <1>5, <1>6, <1>7, <1>8, <1>9, <1>10

LEMMA ScanAnsweredKeeps ==
    ASSUME ClientInv, task.pc = "done", ScanAnswered, UNCHANGED <<stack, host, inbox>>
    PROVE  ClientInv'
  <1> USE DEF ClientInv
  <1>1. CASE task.rc = "ok"
    <2>1. /\ UNCHANGED <<stack, host, cleanup, inbox>>
          /\ task.pc = "done" /\ task.proc \in {"scan"}
          /\ IsClient(client')
          /\ Same(ClientFields, client, client', {"backoffScan", "state"})
          /\ client'.backoffScan /\ client'.state \in {"Scanning", "Backoff"}
          /\ task' \in Tasks
          /\ task'.pc = IF task.command = "none" THEN "home" ELSE "judge"
          /\ task'.command = task.command /\ task'.op \in {0, task.op}
          /\ task.command # "none" => task'.op = task.op
          /\ task'.reason = "reset" => task'.reason = task.reason /\ task'.term = task.term
      BY <1>1, ScanStarts, Returning, Blank DEF ScanAnswered
    <2>2. ClientTypeOK' /\ Newest' = Newest
      BY <1>1, <2>1 DEF ClientTypeOK, Newest
    <2>3. Phases' /\ OnTheAir' /\ Cleanups'
      BY <1>1, <2>1 DEF Phases, OnTheAir, Cleanups, NoCleanup
    <2>4. News'
      BY <1>1, <2>1, <2>2, Blank, NewestIsNat DEF Phases, OnTheAir, News, Heard
    <2>5. Mail'
      BY <1>1, <2>1, <2>2, MailStays DEF Phases, OnTheAir, StillLinked
    <2>6. Silence' /\ Acks'
      BY <1>1, <2>1 DEF Phases, Silence, Acks, Rank, Within, Writing, NoGatt
    <2> QED
      BY <2>2, <2>3, <2>4, <2>5, <2>6
  <1>2. CASE task.rc # "ok"
    <2>1. /\ UNCHANGED <<stack, host, client, cleanup, inbox>>
          /\ task.pc = "done" /\ task.proc \in {"scan"}
          /\ task' \in Tasks
          /\ Same(TaskFields, task, task', {"pc", "term", "reason"})
          /\ task'.pc = "finish" /\ task'.term = FALSE /\ task'.reason # "reset"
      BY <1>2, ToFinish, Blank DEF ScanAnswered, LossReasons
    <2>2. ClientTypeOK' /\ Newest' = Newest
      BY <1>2, <2>1 DEF ClientTypeOK, Newest
    <2>3. Phases' /\ OnTheAir' /\ Cleanups'
      BY <1>2, <2>1 DEF Phases, OnTheAir, Cleanups, NoCleanup
    <2>4. News'
      BY <1>2, <2>1, <2>2, Blank, NewestIsNat DEF Phases, OnTheAir, News, Heard
    <2>5. Mail'
      BY <1>2, <2>1, <2>2, MailStays DEF Phases, OnTheAir, StillLinked
    <2>6. Silence' /\ Acks'
      BY <1>2, <2>1 DEF Phases, Silence, Acks, Rank, Within, Writing, NoGatt
    <2> QED
      BY <2>2, <2>3, <2>4, <2>5, <2>6
  <1> QED
    BY <1>1, <1>2 DEF ScanAnswered

LEMMA SelectAnsweredKeeps ==
    ASSUME ClientInv, task.pc = "done", SelectAnswered, UNCHANGED <<stack, host, inbox>>
    PROVE  ClientInv'
  <1> USE DEF ClientInv
  <1>1. CASE task.rc = "ok"
    <2>1. /\ UNCHANGED <<stack, host, cleanup, inbox>>
          /\ task.pc = "done" /\ task.proc \in {"select"}
      BY <1>1 DEF SelectAnswered, BeginSettle, Radio
    <2>2. /\ client' = [client EXCEPT !.state = "Connecting", !.linkOp = client.scans, !.connected = FALSE]
          /\ task' = [task EXCEPT !.pc = "submit", !.proc = "connect", !.back = "none"]
      BY <1>1 DEF SelectAnswered, BeginSettle, Radio
    <2>3. /\ IsClient(client')
          /\ Same(ClientFields, client, client', {"state", "linkOp", "connected"})
          /\ client'.state = "Connecting" /\ client'.linkOp = client.scans /\ ~client'.connected
      BY <1>1, <2>1, <2>2, Blank DEF ClientTypeOK, IsClient, States, Results
    <2>4. /\ task' \in Tasks
          /\ Same(TaskFields, task, task', {"pc", "proc", "back"})
          /\ task'.pc = "submit" /\ task'.proc = "connect"
      BY <1>1, <2>1, <2>2, Blank DEF ClientTypeOK, Tasks, ClientPlaces, Procedures, LossReasons
    <2>5. ClientTypeOK' /\ Newest' = Newest + 1 /\ client'.linkOp = Newest'
      BY <1>1, <2>1, <2>3, <2>4 DEF ClientTypeOK, Newest, Phases, News, IsClient
    <2>6. Phases'
      BY <1>1, <2>1, <2>3, <2>4, <2>5, NewestIsNat DEF Phases, News
    <2>7. OnTheAir'
      BY <1>1, <2>1, <2>3, <2>4, <2>5, NewestIsNat DEF Phases, OnTheAir, News
    <2>8. Cleanups'
      BY <1>1, <2>1, <2>3, <2>4 DEF Phases, OnTheAir, Cleanups, NoCleanup
    <2>9. News'
      BY <1>1, <2>1, <2>3, <2>4, <2>5, Blank, NewestIsNat DEF Phases, OnTheAir, News, Heard,
        EventKinds, ClientTypeOK, IsClient, HostStacks, HostTasks, Cleaning, Tasks, Gatts
    <2>10. Mail'
      <3>1. ASSUME NEW i \in 1..Len(inbox.critical) PROVE IsCritical(inbox.critical[i])'
        <4>1. PICK e \in HostEvents : e = inbox.critical[i]
          BY DEF ClientTypeOK, IsInbox
        <4>2. IsCritical(e) /\ e.op \in Nat
          BY <4>1 DEF Mail, HostEvents
        <4>3. IsCritical(e)'
          BY <2>1, <2>3, <2>4, <2>5, <4>2, NewestIsNat DEF IsCritical, Heard, EventKinds
        <4> QED
          BY <2>1, <2>3, <2>4, <4>1, <4>3 DEF IsCritical, Heard
      <3> QED
        BY <2>1, <2>3, <2>4, <3>1 DEF Mail, IsControl
    <2>11. Silence'
      BY <1>1, <2>1, <2>3, <2>4 DEF Phases, Silence
    <2>12. Acks'
      BY <1>1, <2>1, <2>3, <2>4, <2>5, NewestIsNat DEF Phases, Acks, Rank, Within, Writing,
        NoGatt, News, ClientTypeOK, IsClient
    <2> QED
      BY <2>5, <2>6, <2>7, <2>8, <2>9, <2>10, <2>11, <2>12
  <1>2. CASE task.rc # "ok"
    <2>1. /\ UNCHANGED <<stack, host, client, cleanup, inbox>>
          /\ task.pc = "done" /\ task.proc \in {"select"}
          /\ task' \in Tasks
          /\ Same(TaskFields, task, task', {"pc", "term", "reason"})
          /\ task'.pc = "finish" /\ task'.term = FALSE /\ task'.reason # "reset"
      BY <1>2, ToFinish, Blank DEF SelectAnswered, LossReasons
    <2>2. ClientTypeOK' /\ Newest' = Newest
      BY <1>2, <2>1 DEF ClientTypeOK, Newest
    <2>3. Phases' /\ OnTheAir' /\ Cleanups'
      BY <1>2, <2>1 DEF Phases, OnTheAir, Cleanups, NoCleanup
    <2>4. News'
      BY <1>2, <2>1, <2>2, Blank, NewestIsNat DEF Phases, OnTheAir, News, Heard
    <2>5. Mail'
      BY <1>2, <2>1, <2>2, MailStays DEF Phases, OnTheAir, StillLinked
    <2>6. Silence' /\ Acks'
      BY <1>2, <2>1 DEF Phases, Silence, Acks, Rank, Within, Writing, NoGatt
    <2> QED
      BY <2>2, <2>3, <2>4, <2>5, <2>6
  <1> QED
    BY <1>1, <1>2 DEF SelectAnswered

LEMMA ConnectAnsweredKeeps ==
    ASSUME ClientInv, task.pc = "done", ConnectAnswered, UNCHANGED <<stack, host, inbox>>
    PROVE  ClientInv'
  <1> USE DEF ClientInv
  <1>1. CASE task.rc = "ok"
    <2>1. /\ UNCHANGED <<stack, host, client, cleanup, inbox>>
          /\ task.pc = "done" /\ task.proc \in {"connect"}
      BY <1>1 DEF ConnectAnswered
    <2>2. task' = [task EXCEPT !.pc = "events"]
      BY <1>1 DEF ConnectAnswered
    <2>3. /\ task' \in Tasks
          /\ Same(TaskFields, task, task', {"pc"})
          /\ task'.pc = "events"
      BY <1>1, <2>1, <2>2, Blank DEF ClientTypeOK, Tasks, ClientPlaces, Procedures, LossReasons
    <2>4. ClientTypeOK' /\ Newest' = Newest
      BY <1>1, <2>1, <2>3 DEF ClientTypeOK, Newest
    <2>5. Phases' /\ OnTheAir' /\ Cleanups'
      BY <1>1, <2>1, <2>3 DEF Phases, OnTheAir, Cleanups, NoCleanup
    <2>6. News'
      BY <1>1, <2>1, <2>3, <2>4, Blank, NewestIsNat DEF Phases, OnTheAir, News, Heard
    <2>7. Mail'
      BY <1>1, <2>1, <2>3, <2>4, MailStays DEF Phases, OnTheAir, StillLinked
    <2>8. Silence' /\ Acks'
      BY <1>1, <2>1, <2>3 DEF Phases, Silence, Acks, Rank, Within, Writing, NoGatt
    <2> QED
      BY <2>4, <2>5, <2>6, <2>7, <2>8
  <1>2. CASE task.rc # "ok"
    <2>1. /\ UNCHANGED <<stack, host, cleanup, inbox>>
          /\ task.pc = "done" /\ task.proc \in {"connect"}
          /\ task' \in Tasks
          /\ Same(TaskFields, task, task', {"pc", "term", "reason"})
          /\ task'.pc = "finish" /\ task'.term = FALSE /\ task'.reason # "reset"
      BY <1>2, ToFinish DEF ConnectAnswered, LossReasons
    <2>2. client' = [client EXCEPT !.connected = TRUE]
      BY <1>2, ToFinish DEF ConnectAnswered, LossReasons
    <2>3. /\ IsClient(client')
          /\ Same(ClientFields, client, client', {"connected"})
          /\ client'.connected
      BY <1>2, <2>1, <2>2, Blank DEF ClientTypeOK, IsClient, States, Results
    <2>4. ClientTypeOK' /\ Newest' = Newest
      BY <1>2, <2>1, <2>3 DEF ClientTypeOK, Newest
    <2>5. Phases' /\ OnTheAir' /\ Cleanups'
      BY <1>2, <2>1, <2>3 DEF Phases, OnTheAir, Cleanups, NoCleanup
    <2>6. News'
      BY <1>2, <2>1, <2>3, <2>4, Blank, NewestIsNat DEF Phases, OnTheAir, News, Heard
    <2>7. Mail'
      BY <1>2, <2>1, <2>3, <2>4, MailStays DEF Phases, OnTheAir, StillLinked
    <2>8. Silence' /\ Acks'
      BY <1>2, <2>1, <2>3 DEF Phases, Silence, Acks, Rank, Within, Writing, NoGatt
    <2> QED
      BY <2>4, <2>5, <2>6, <2>7, <2>8
  <1> QED
    BY <1>1, <1>2 DEF ConnectAnswered

LEMMA GattAnsweredKeeps ==
    ASSUME ClientInv, task.pc = "done", GattAnswered, UNCHANGED <<stack, host, inbox>>
    PROVE  ClientInv'
  <1> USE DEF ClientInv
  <1>1. CASE task.rc = "ok"
    <2>1. /\ UNCHANGED <<stack, host, client, cleanup, inbox>>
          /\ task.pc = "done" /\ task.proc \in {"gatt"}
      BY <1>1 DEF GattAnswered
    <2>2. task' = [task EXCEPT !.pc = "events"]
      BY <1>1 DEF GattAnswered
    <2>3. /\ task' \in Tasks
          /\ Same(TaskFields, task, task', {"pc"})
          /\ task'.pc = "events"
      BY <1>1, <2>1, <2>2, Blank DEF ClientTypeOK, Tasks, ClientPlaces, Procedures, LossReasons
    <2>4. ClientTypeOK' /\ Newest' = Newest
      BY <1>1, <2>1, <2>3 DEF ClientTypeOK, Newest
    <2>5. Phases' /\ OnTheAir' /\ Cleanups'
      BY <1>1, <2>1, <2>3 DEF Phases, OnTheAir, Cleanups, NoCleanup
    <2>6. News'
      BY <1>1, <2>1, <2>3, <2>4, Blank, NewestIsNat DEF Phases, OnTheAir, News, Heard
    <2>7. Mail'
      BY <1>1, <2>1, <2>3, <2>4, MailStays DEF Phases, OnTheAir, StillLinked
    <2>8. Silence' /\ Acks'
      BY <1>1, <2>1, <2>3 DEF Phases, Silence, Acks, Rank, Within, Writing, NoGatt
    <2> QED
      BY <2>4, <2>5, <2>6, <2>7, <2>8
  <1>2. CASE task.rc # "ok"
    <2>1. /\ UNCHANGED <<stack, host, client, cleanup, inbox>>
          /\ task.pc = "done" /\ task.proc \in {"gatt"}
          /\ task' \in Tasks
          /\ Same(TaskFields, task, task', {"pc", "term", "reason"})
          /\ task'.pc = "finish" /\ task'.term = TRUE /\ task'.reason # "reset"
      BY <1>2, ToFinish, Blank DEF GattAnswered, LossReasons
    <2>2. ClientTypeOK' /\ Newest' = Newest
      BY <1>2, <2>1 DEF ClientTypeOK, Newest
    <2>3. Phases' /\ OnTheAir' /\ Cleanups'
      BY <1>2, <2>1 DEF Phases, OnTheAir, Cleanups, NoCleanup
    <2>4. News'
      BY <1>2, <2>1, <2>2, Blank, NewestIsNat DEF Phases, OnTheAir, News, Heard
    <2>5. Mail'
      BY <1>2, <2>1, <2>2, MailStays DEF Phases, OnTheAir, StillLinked
    <2>6. Silence' /\ Acks'
      BY <1>2, <2>1 DEF Phases, Silence, Acks, Rank, Within, Writing, NoGatt
    <2> QED
      BY <2>2, <2>3, <2>4, <2>5, <2>6
  <1> QED
    BY <1>1, <1>2 DEF GattAnswered

LEMMA StopAnsweredKeeps ==
    ASSUME ClientInv, task.pc = "done", StopAnswered, UNCHANGED <<stack, host, inbox>>
    PROVE  ClientInv'
  <1> USE DEF ClientInv
  <1>1. /\ UNCHANGED <<stack, host, client, cleanup, inbox>>
        /\ task.pc = "done" /\ task.proc \in {"stopScan", "stopConnect"}
    BY DEF StopAnswered
  <1>2. task' = [task EXCEPT !.pc = "reconcile", !.back = "clear"]
    BY DEF StopAnswered
  <1>3. /\ task' \in Tasks
        /\ Same(TaskFields, task, task', {"pc", "back"})
        /\ task'.pc = "reconcile" /\ task'.back = "clear"
    BY <1>1, <1>2, Blank DEF ClientTypeOK, Tasks, ClientPlaces, Procedures, LossReasons
  <1>4. ClientTypeOK' /\ Newest' = Newest
    BY <1>1, <1>3 DEF ClientTypeOK, Newest
  <1>5. Phases' /\ OnTheAir' /\ Cleanups'
    BY <1>1, <1>3 DEF Phases, OnTheAir, Cleanups, NoCleanup
  <1>6. News'
    BY <1>1, <1>3, <1>4, Blank, NewestIsNat DEF Phases, OnTheAir, News, Heard
  <1>7. Mail'
    BY <1>1, <1>3, <1>4, MailStays DEF Phases, OnTheAir, StillLinked
  <1>8. Silence' /\ Acks'
    BY <1>1, <1>3 DEF Phases, Silence, Acks, Rank, Within, Writing, NoGatt
  <1> QED
    BY <1>4, <1>5, <1>6, <1>7, <1>8

LEMMA TerminateAnsweredKeeps ==
    ASSUME ClientInv, task.pc = "done", TerminateAnswered, UNCHANGED <<stack, host, inbox>>
    PROVE  ClientInv'
  <1> USE DEF ClientInv
  <1>1. CASE cleanup.op = task.op /\ ~cleanup.gap /\ task.rc = "gone"
    <2>1. /\ UNCHANGED <<stack, host, inbox>>
          /\ task.pc = "done" /\ task.proc \in {"terminate"}
          /\ cleanup' = NoCleanup
          /\ task' \in Tasks
          /\ task'.pc \in {"clear", "scan", "home", "judge"} /\ (task'.pc = "home" => task'.command = "none")
          /\ task'.command = task.command /\ task'.op \in {0, task.op}
          /\ task.command # "none" => task'.op = task.op
          /\ task'.reason = "reset" => task'.reason = task.reason /\ task'.term = task.term
      BY <1>1, Leaving, Moved DEF TerminateAnswered
    <2>2. client' = [client EXCEPT !.silent = TRUE]
      BY <1>1, Leaving, Moved DEF TerminateAnswered
    <2>3. cleanup' \in Cleaning
      BY <1>1, <2>1, <2>2, Blank DEF ClientTypeOK, Cleaning, NoCleanup
    <2>4. /\ IsClient(client')
          /\ Same(ClientFields, client, client', {"silent"})
          /\ client'.silent
      BY <1>1, <2>1, <2>2, Blank DEF ClientTypeOK, IsClient, States, Results, NoCleanup
    <2>5. ClientTypeOK' /\ Newest' = Newest
      BY <1>1, <2>1, <2>3, <2>4 DEF ClientTypeOK, Newest
    <2>6. Phases' /\ OnTheAir' /\ Cleanups'
      BY <1>1, <2>1, <2>3, <2>4 DEF Phases, OnTheAir, Cleanups, NoCleanup
    <2>7. News'
      BY <1>1, <2>1, <2>3, <2>4, <2>5, Blank, NewestIsNat DEF Phases, OnTheAir, News, Heard,
        NoCleanup
    <2>8. Mail'
      BY <1>1, <2>1, <2>3, <2>4, <2>5, MailStays DEF Phases, OnTheAir, StillLinked
    <2>9. Silence' /\ Acks'
      BY <1>1, <2>1, <2>3, <2>4 DEF Phases, Silence, Acks, Rank, Within, Writing, NoGatt
    <2> QED
      BY <2>5, <2>6, <2>7, <2>8, <2>9
  <1>2. CASE cleanup.op = task.op /\ ~cleanup.gap /\ task.rc # "gone"
    <2>1. /\ UNCHANGED <<stack, host, inbox>>
          /\ task.pc = "done" /\ task.proc \in {"terminate"}
          /\ task' \in Tasks
          /\ task'.pc \in {"clear", "scan", "home", "judge"} /\ (task'.pc = "home" => task'.command = "none")
          /\ task'.command = task.command /\ task'.op \in {0, task.op}
          /\ task.command # "none" => task'.op = task.op
          /\ task'.reason = "reset" => task'.reason = task.reason /\ task'.term = task.term
      BY <1>2, Leaving, Moved DEF TerminateAnswered
    <2>2. /\ cleanup' = [cleanup EXCEPT !.terminate = @ /\ task.rc # "ok"]
          /\ client' = [client EXCEPT !.silent = TRUE]
      BY <1>2, Leaving, Moved DEF TerminateAnswered
    <2>3. /\ cleanup' \in Cleaning
          /\ Same(CleaningFields, cleanup, cleanup', {"terminate"})
          /\ cleanup'.terminate => cleanup.terminate
      BY <1>2, <2>1, <2>2, Blank DEF ClientTypeOK, Cleaning
    <2>4. /\ IsClient(client')
          /\ Same(ClientFields, client, client', {"silent"})
          /\ client'.silent
      BY <1>2, <2>1, <2>2, Blank DEF ClientTypeOK, IsClient, States, Results
    <2>5. ClientTypeOK' /\ Newest' = Newest
      BY <1>2, <2>1, <2>3, <2>4 DEF ClientTypeOK, Newest
    <2>6. Phases'
      BY <1>2, <2>1, <2>3, <2>4 DEF Phases
    <2>7. OnTheAir'
      BY <1>2, <2>1, <2>3, <2>4 DEF Phases, OnTheAir
    <2>8. Cleanups'
      BY <1>2, <2>1, <2>3, <2>4, CleaningEnded DEF Phases, OnTheAir, Cleanups, NoCleanup,
        ClientTypeOK
    <2>9. News'
      BY <1>2, <2>1, <2>3, <2>4, <2>5, Blank, NewestIsNat DEF Phases, OnTheAir, News, Heard
    <2>10. Mail'
      BY <1>2, <2>1, <2>3, <2>4, <2>5, MailStays DEF Phases, OnTheAir, StillLinked
    <2>11. Silence' /\ Acks'
      BY <1>2, <2>1, <2>3, <2>4 DEF Phases, Silence, Acks, Rank, Within, Writing, NoGatt
    <2> QED
      BY <2>5, <2>6, <2>7, <2>8, <2>9, <2>10, <2>11
  <1>3. CASE ~(cleanup.op = task.op /\ ~cleanup.gap)
    <2>1. /\ UNCHANGED <<stack, host, client, cleanup, inbox>>
          /\ task.pc = "done" /\ task.proc \in {"terminate"}
          /\ task' \in Tasks
          /\ task'.pc \in {"clear", "scan", "home", "judge"} /\ (task'.pc = "home" => task'.command = "none")
          /\ task'.command = task.command /\ task'.op \in {0, task.op}
          /\ task.command # "none" => task'.op = task.op
          /\ task'.reason = "reset" => task'.reason = task.reason /\ task'.term = task.term
      BY <1>3, Leaving, Moved, Blank DEF TerminateAnswered
    <2>2. ClientTypeOK' /\ Newest' = Newest
      BY <1>3, <2>1 DEF ClientTypeOK, Newest
    <2>3. Phases' /\ OnTheAir' /\ Cleanups'
      BY <1>3, <2>1 DEF Phases, OnTheAir, Cleanups, NoCleanup
    <2>4. News'
      BY <1>3, <2>1, <2>2, Blank, NewestIsNat DEF Phases, OnTheAir, News, Heard
    <2>5. Mail'
      BY <1>3, <2>1, <2>2, MailStays DEF Phases, OnTheAir, StillLinked
    <2>6. Silence' /\ Acks'
      BY <1>3, <2>1 DEF Phases, Silence, Acks, Rank, Within, Writing, NoGatt
    <2> QED
      BY <2>2, <2>3, <2>4, <2>5, <2>6
  <1> QED
    BY <1>1, <1>2, <1>3 DEF TerminateAnswered

LEMMA CommandAnsweredKeeps ==
    ASSUME ClientInv, task.pc = "done", CommandAnswered, UNCHANGED <<stack, host, inbox>>
    PROVE  ClientInv'
  <1> USE DEF ClientInv
  <1>1. CASE task.rc = "ok"
    <2>1. /\ UNCHANGED <<stack, host, client, cleanup, inbox>>
          /\ task.pc = "done" /\ task.proc \in {"command"}
      BY <1>1 DEF CommandAnswered
    <2>2. task' = [task EXCEPT !.pc = "await"]
      BY <1>1 DEF CommandAnswered
    <2>3. /\ task' \in Tasks
          /\ Same(TaskFields, task, task', {"pc"})
          /\ task'.pc = "await"
      BY <1>1, <2>1, <2>2, Blank DEF ClientTypeOK, Tasks, ClientPlaces, Procedures, LossReasons
    <2>4. ClientTypeOK' /\ Newest' = Newest
      BY <1>1, <2>1, <2>3 DEF ClientTypeOK, Newest
    <2>5. Phases' /\ OnTheAir' /\ Cleanups'
      BY <1>1, <2>1, <2>3 DEF Phases, OnTheAir, Cleanups, NoCleanup
    <2>6. News'
      BY <1>1, <2>1, <2>3, <2>4, Blank, NewestIsNat DEF Phases, OnTheAir, News, Heard
    <2>7. Mail'
      BY <1>1, <2>1, <2>3, <2>4, MailStays DEF Phases, OnTheAir, StillLinked
    <2>8. Silence' /\ Acks'
      BY <1>1, <2>1, <2>3 DEF Phases, Silence, Acks, Rank, Within, Writing, NoGatt
    <2> QED
      BY <2>4, <2>5, <2>6, <2>7, <2>8
  <1>2. CASE task.rc # "ok"
    <2>1. /\ UNCHANGED <<stack, host, cleanup, inbox>>
          /\ task.pc = "done" /\ task.proc \in {"command"}
          /\ IsClient(client')
          /\ Same(ClientFields, client, client', {"write", "gattOp"})
          /\ ~client'.write.on /\ client'.gattOp = NoGatt
          /\ task' \in Tasks
          /\ Same(TaskFields, task, task', {"pc", "command"})
          /\ task'.pc = "service" /\ task'.command \in {"rejected", "failed"}
      BY <1>2, WriteIsOver, ToService, Blank DEF CommandAnswered
    <2>2. ClientTypeOK' /\ Newest' = Newest
      BY <1>2, <2>1 DEF ClientTypeOK, Newest
    <2>3. Phases' /\ OnTheAir' /\ Cleanups'
      BY <1>2, <2>1 DEF Phases, OnTheAir, Cleanups, NoCleanup
    <2>4. News'
      BY <1>2, <2>1, <2>2, Blank, NewestIsNat DEF Phases, OnTheAir, News, Heard
    <2>5. Mail'
      BY <1>2, <2>1, <2>2, MailStays DEF Phases, OnTheAir, StillLinked
    <2>6. Silence'
      BY <1>2, <2>1 DEF Phases, Silence
    <2>7. Acks'
      BY <1>2, <2>1 DEF Phases, Acks, Rank, Within, Writing, NoGatt, News
    <2> QED
      BY <2>2, <2>3, <2>4, <2>5, <2>6, <2>7
  <1> QED
    BY <1>1, <1>2 DEF CommandAnswered

-----------------------------------------------------------------------------
(* The worker: finishLink, the cleanup and a new scan. *)

LEMMA EndLinkKeeps ==
    ASSUME ClientInv, EndLink
    PROVE  ClientInv'
  <1> USE DEF ClientInv
  <1>1. CASE client.active /\ TerminatesPeer(task) /\ HandsOver
    <2>1. /\ UNCHANGED <<stack, host, inbox>>
          /\ task.pc = "finish"
          /\ task.term /\ ~client.pending /\ (client.handle \/ (client.state = "Connecting" /\ ~client.connected))
          /\ task' \in Tasks
          /\ Same(TaskFields, task, task', {"pc", "proc", "back"})
          /\ \/ task'.pc = "submit" /\ task'.proc \in {"stopScan", "stopConnect"}
             \/ task'.pc = "reconcile" /\ task'.back = "clear"
          /\ IsClient(client')
          /\ Same(ClientFields, client, client', {"state", "active", "backoffScan", "handle", "pending", "scanOp", "linkOp", "gattOp", "closed", "commands"})
          /\ client'.state = "Idle" /\ ~client'.active /\ ~client'.backoffScan /\ ~client'.handle
          /\ ~client'.pending /\ client'.linkOp = 0 /\ client'.gattOp = NoGatt /\ client'.commands = 0
      BY <1>1, TearsDown, Forgets DEF EndLink, CleanupAfter, HandsOver, TerminatesPeer
    <2>2. cleanup' = [op |-> client.linkOp, sync |-> client.sync, handle |-> client.handle,
                       terminate |-> client.handle, gap |-> FALSE]
      BY <1>1, TearsDown, Forgets DEF EndLink, CleanupAfter, HandsOver, TerminatesPeer
    <2>3. /\ cleanup' \in Cleaning
          /\ cleanup'.op = client.linkOp /\ cleanup'.sync = client.sync /\ cleanup'.handle = client.handle
          /\ cleanup'.terminate = client.handle /\ ~cleanup'.gap
      BY <1>1, <2>1, <2>2, Blank DEF ClientTypeOK, Cleaning, IsClient
    <2>4. ClientTypeOK' /\ Newest <= Newest'
      BY <1>1, <2>1, <2>3 DEF ClientTypeOK, Newest, IsClient
    <2>5. Phases' /\ OnTheAir' /\ Cleanups'
      BY <1>1, <2>1, <2>3 DEF Phases, OnTheAir, Cleanups, NoCleanup
    <2>6. News'
      BY <1>1, <2>1, <2>3, <2>4, Blank, NewestIsNat, NewsGrows DEF Phases, OnTheAir, News, Heard
    <2>7. Mail'
      BY <1>1, <2>1, <2>3, <2>4, MailStays DEF Phases, OnTheAir, StillLinked
    <2>8. Silence'
      BY <1>1, <2>1, <2>3 DEF Phases, Silence
    <2>9. Acks'
      BY <1>1, <2>1, <2>3 DEF Phases, Acks, Rank, Within, Writing, NoGatt, News
    <2> QED
      BY <2>4, <2>5, <2>6, <2>7, <2>8, <2>9
  <1>2. CASE client.active /\ ~(TerminatesPeer(task) /\ HandsOver)
    <2>1. /\ UNCHANGED <<stack, host, inbox>>
          /\ task.pc = "finish"
          /\ ~task.term \/ task.reason = "reset" \/ client.pending
             \/ ~(client.handle \/ (client.state = "Connecting" /\ ~client.connected))
          /\ task' \in Tasks
          /\ Same(TaskFields, task, task', {"pc", "proc", "back"})
          /\ \/ task'.pc = "submit" /\ task'.proc \in {"stopScan", "stopConnect"}
             \/ task'.pc = "reconcile" /\ task'.back = "clear"
          /\ IsClient(client')
          /\ Same(ClientFields, client, client', {"state", "active", "backoffScan", "handle", "pending", "scanOp", "linkOp", "gattOp", "closed", "commands"})
          /\ client'.state = "Idle" /\ ~client'.active /\ ~client'.backoffScan /\ ~client'.handle
          /\ ~client'.pending /\ client'.linkOp = 0 /\ client'.gattOp = NoGatt /\ client'.commands = 0
      BY <1>2, TearsDown, Forgets DEF EndLink, CleanupAfter, HandsOver, TerminatesPeer
    <2>2. cleanup' \in {NoCleanup, cleanup}
      BY <1>2, TearsDown, Forgets DEF EndLink, CleanupAfter, HandsOver, TerminatesPeer
    <2>3. cleanup' = NoCleanup /\ cleanup' \in Cleaning
      BY <1>2, <2>1, <2>2, Blank DEF ClientTypeOK, Cleaning, NoCleanup, Phases, Cleanups
    <2>4. ClientTypeOK' /\ Newest <= Newest'
      BY <1>2, <2>1, <2>3 DEF ClientTypeOK, Newest, IsClient
    <2>5. Phases' /\ OnTheAir' /\ Cleanups'
      BY <1>2, <2>1, <2>3 DEF Phases, OnTheAir, Cleanups, NoCleanup
    <2>6. News'
      BY <1>2, <2>1, <2>3, <2>4, Blank, NewestIsNat, NewsGrows DEF Phases, OnTheAir, News, Heard
    <2>7. Mail'
      BY <1>2, <2>1, <2>3, <2>4, MailStays DEF Phases, OnTheAir, StillLinked
    <2>8. Silence'
      BY <1>2, <2>1, <2>3 DEF Phases, Silence
    <2>9. Acks'
      BY <1>2, <2>1, <2>3 DEF Phases, Acks, Rank, Within, Writing, NoGatt, News
    <2> QED
      BY <2>4, <2>5, <2>6, <2>7, <2>8, <2>9
  <1>3. CASE ~client.active /\ task.reason = "reset"
    <2>1. /\ UNCHANGED <<stack, host, inbox>>
          /\ task.pc = "finish"
          /\ cleanup' = NoCleanup
          /\ task' \in Tasks
          /\ task'.pc \in {"clear", "scan", "home", "judge"} /\ (task'.pc = "home" => task'.command = "none")
          /\ task'.command = task.command /\ task'.op \in {0, task.op}
          /\ task.command # "none" => task'.op = task.op
          /\ task'.reason = "reset" => task'.reason = task.reason /\ task'.term = task.term
      BY <1>3, Leaving, Moved DEF EndLink
    <2>2. client' = [client EXCEPT !.state = "Idle"]
      BY <1>3, Leaving, Moved DEF EndLink
    <2>3. /\ IsClient(client')
          /\ Same(ClientFields, client, client', {"state"})
          /\ client'.state = "Idle"
      BY <1>3, <2>1, <2>2, Blank DEF ClientTypeOK, IsClient, States, Results, NoCleanup
    <2>4. cleanup' \in Cleaning
      BY <1>3, <2>1, <2>2, Blank DEF ClientTypeOK, Cleaning, NoCleanup
    <2>5. ClientTypeOK' /\ Newest' = Newest
      BY <1>3, <2>1, <2>3, <2>4 DEF ClientTypeOK, Newest, IsClient
    <2>6. Phases' /\ OnTheAir' /\ Cleanups'
      BY <1>3, <2>1, <2>3, <2>4 DEF Phases, OnTheAir, Cleanups, NoCleanup
    <2>7. News'
      BY <1>3, <2>1, <2>3, <2>4, <2>5, Blank, NewestIsNat DEF Phases, OnTheAir, News, Heard,
        NoCleanup
    <2>8. Mail'
      BY <1>3, <2>1, <2>3, <2>4, <2>5, MailStays DEF Phases, OnTheAir, StillLinked
    <2>9. Silence' /\ Acks'
      BY <1>3, <2>1, <2>3, <2>4 DEF Phases, Silence, Acks, Rank, Within, Writing, NoGatt
    <2> QED
      BY <2>5, <2>6, <2>7, <2>8, <2>9
  <1>4. CASE ~client.active /\ task.reason # "reset"
    <2>1. /\ UNCHANGED <<stack, host, cleanup, inbox>>
          /\ task.pc = "finish"
          /\ task' \in Tasks
          /\ task'.pc \in {"clear", "scan", "home", "judge"} /\ (task'.pc = "home" => task'.command = "none")
          /\ task'.command = task.command /\ task'.op \in {0, task.op}
          /\ task.command # "none" => task'.op = task.op
          /\ task'.reason = "reset" => task'.reason = task.reason /\ task'.term = task.term
      BY <1>4, Leaving, Moved DEF EndLink
    <2>2. client' = [client EXCEPT !.state = IF @ = "Backoff" /\ task.reason \notin {"user", "reset"} THEN @ ELSE "Idle"]
      BY <1>4, Leaving, Moved DEF EndLink
    <2>3. /\ IsClient(client')
          /\ Same(ClientFields, client, client', {"state"})
          /\ client'.state \in {"Idle", "Backoff"}
      BY <1>4, <2>1, <2>2, Blank DEF ClientTypeOK, IsClient, States, Results
    <2>4. ClientTypeOK' /\ Newest' = Newest
      BY <1>4, <2>1, <2>3 DEF ClientTypeOK, Newest
    <2>5. Phases' /\ OnTheAir' /\ Cleanups'
      BY <1>4, <2>1, <2>3 DEF Phases, OnTheAir, Cleanups, NoCleanup
    <2>6. News'
      BY <1>4, <2>1, <2>3, <2>4, Blank, NewestIsNat DEF Phases, OnTheAir, News, Heard
    <2>7. Mail'
      BY <1>4, <2>1, <2>3, <2>4, MailStays DEF Phases, OnTheAir, StillLinked
    <2>8. Silence' /\ Acks'
      BY <1>4, <2>1, <2>3 DEF Phases, Silence, Acks, Rank, Within, Writing, NoGatt
    <2> QED
      BY <2>4, <2>5, <2>6, <2>7, <2>8
  <1> QED
    BY <1>1, <1>2, <1>3, <1>4 DEF EndLink

LEMMA ReconcileKeeps ==
    ASSUME ClientInv, Reconcile
    PROVE  ClientInv'
  <1> USE DEF ClientInv
  <1>1. CASE ~cleanup.gap /\ cleanup.terminate /\ ~client.silent /\ stack.ready /\ cleanup.sync = stack.sync
    <2>1. /\ UNCHANGED <<stack, host, client, cleanup, inbox>>
          /\ task.pc = "reconcile"
          /\ cleanup.handle
      BY <1>1 DEF Reconcile, Radio, Cleanups
    <2>2. task' = [task EXCEPT !.pc = "submit", !.proc = "terminate", !.back = task.back, !.op = cleanup.op]
      BY <1>1 DEF Reconcile, Radio, Cleanups
    <2>3. /\ task' \in Tasks
          /\ Same(TaskFields, task, task', {"pc", "proc", "back", "op"})
          /\ task'.pc = "submit" /\ task'.proc = "terminate" /\ task'.op = cleanup.op
      BY <1>1, <2>1, <2>2, Blank DEF ClientTypeOK, Tasks, ClientPlaces, Procedures, LossReasons,
        Cleaning
    <2>4. ClientTypeOK' /\ Newest' = Newest
      BY <1>1, <2>1, <2>3 DEF ClientTypeOK, Newest
    <2>5. Phases' /\ OnTheAir' /\ Cleanups'
      BY <1>1, <2>1, <2>3 DEF Phases, OnTheAir, Cleanups, NoCleanup
    <2>6. News'
      BY <1>1, <2>1, <2>3, <2>4, Blank, NewestIsNat DEF Phases, OnTheAir, News, Heard
    <2>7. Mail'
      BY <1>1, <2>1, <2>3, <2>4, MailStays DEF Phases, OnTheAir, StillLinked
    <2>8. Silence'
      BY <1>1, <2>1, <2>3 DEF Phases, Silence
    <2>9. Acks'
      BY <1>1, <2>1, <2>3 DEF Phases, Acks, Rank, Within, Writing, NoGatt, Cleanups, NoCleanup
    <2> QED
      BY <2>4, <2>5, <2>6, <2>7, <2>8, <2>9
  <1>2. CASE ~(~cleanup.gap /\ cleanup.terminate /\ ~client.silent /\ stack.ready /\ cleanup.sync = stack.sync)
               /\ task.back = "clear"
    <2>1. /\ UNCHANGED <<stack, host, client, inbox>>
          /\ task.pc = "reconcile"
          /\ IF cleanup.gap THEN cleanup' = NoCleanup ELSE cleanup' = cleanup
      BY <1>2 DEF Reconcile
    <2>2. task' = [task EXCEPT !.pc = "clear"]
      BY <1>2 DEF Reconcile
    <2>3. cleanup' \in Cleaning
      BY <1>2, <2>1, <2>2, Blank DEF ClientTypeOK, Cleaning
    <2>4. /\ task' \in Tasks
          /\ Same(TaskFields, task, task', {"pc"})
          /\ task'.pc = "clear"
      BY <1>2, <2>1, <2>2, Blank DEF ClientTypeOK, Tasks, ClientPlaces, Procedures, LossReasons
    <2>5. ClientTypeOK' /\ Newest' = Newest
      BY <1>2, <2>1, <2>3, <2>4 DEF ClientTypeOK, Newest
    <2>6. Phases' /\ OnTheAir' /\ Cleanups'
      BY <1>2, <2>1, <2>3, <2>4 DEF Phases, OnTheAir, Cleanups, NoCleanup
    <2>7. News'
      BY <1>2, <2>1, <2>3, <2>4, <2>5, Blank, NewestIsNat DEF Phases, OnTheAir, News, Heard,
        NoCleanup
    <2>8. Mail'
      BY <1>2, <2>1, <2>3, <2>4, <2>5, MailStays DEF Phases, OnTheAir, StillLinked
    <2>9. Silence' /\ Acks'
      BY <1>2, <2>1, <2>3, <2>4 DEF Phases, Silence, Acks, Rank, Within, Writing, NoGatt
    <2> QED
      BY <2>5, <2>6, <2>7, <2>8, <2>9
  <1>3. CASE ~(~cleanup.gap /\ cleanup.terminate /\ ~client.silent /\ stack.ready /\ cleanup.sync = stack.sync)
               /\ task.back # "clear" /\ cleanup.op = 0
    <2>1. /\ UNCHANGED <<stack, host, client, inbox>>
          /\ task.pc = "reconcile"
          /\ IF cleanup.gap THEN cleanup' = NoCleanup ELSE cleanup' = cleanup
      BY <1>3 DEF Reconcile
    <2>2. task' = [task EXCEPT !.pc = "pending"]
      BY <1>3 DEF Reconcile
    <2>3. cleanup' \in Cleaning
      BY <1>3, <2>1, <2>2, Blank DEF ClientTypeOK, Cleaning
    <2>4. /\ task' \in Tasks
          /\ Same(TaskFields, task, task', {"pc"})
          /\ task'.pc = "pending"
      BY <1>3, <2>1, <2>2, Blank DEF ClientTypeOK, Tasks, ClientPlaces, Procedures, LossReasons
    <2>5. ClientTypeOK' /\ Newest' = Newest
      BY <1>3, <2>1, <2>3, <2>4 DEF ClientTypeOK, Newest
    <2>6. Phases' /\ OnTheAir' /\ Cleanups'
      BY <1>3, <2>1, <2>3, <2>4 DEF Phases, OnTheAir, Cleanups, NoCleanup
    <2>7. News'
      BY <1>3, <2>1, <2>3, <2>4, <2>5, Blank, NewestIsNat DEF Phases, OnTheAir, News, Heard,
        NoCleanup
    <2>8. Mail'
      BY <1>3, <2>1, <2>3, <2>4, <2>5, MailStays DEF Phases, OnTheAir, StillLinked
    <2>9. Silence' /\ Acks'
      BY <1>3, <2>1, <2>3, <2>4 DEF Phases, Silence, Acks, Rank, Within, Writing, NoGatt
    <2> QED
      BY <2>5, <2>6, <2>7, <2>8, <2>9
  <1>4. CASE ~(~cleanup.gap /\ cleanup.terminate /\ ~client.silent /\ stack.ready /\ cleanup.sync = stack.sync)
               /\ task.back # "clear" /\ cleanup.op # 0
    <2>1. /\ UNCHANGED <<stack, host, client, inbox>>
          /\ task.pc = "reconcile"
          /\ IF cleanup.gap THEN cleanup' = NoCleanup ELSE cleanup' = cleanup
          /\ task' \in Tasks
          /\ task'.pc \in {"clear", "scan", "home", "judge"} /\ (task'.pc = "home" => task'.command = "none")
          /\ task'.command = task.command /\ task'.op \in {0, task.op}
          /\ task.command # "none" => task'.op = task.op
          /\ task'.reason = "reset" => task'.reason = task.reason /\ task'.term = task.term
          /\ cleanup' \in Cleaning
      BY <1>4, Leaving, Blank DEF Reconcile, ClientTypeOK, Cleaning, Tasks, ClientPlaces,
        Procedures, LossReasons
    <2>2. ClientTypeOK' /\ Newest' = Newest
      BY <1>4, <2>1 DEF ClientTypeOK, Newest
    <2>3. Phases' /\ OnTheAir' /\ Cleanups'
      BY <1>4, <2>1 DEF Phases, OnTheAir, Cleanups, NoCleanup
    <2>4. News'
      BY <1>4, <2>1, <2>2, Blank, NewestIsNat DEF Phases, OnTheAir, News, Heard, NoCleanup
    <2>5. Mail'
      BY <1>4, <2>1, <2>2, MailStays DEF Phases, OnTheAir, StillLinked
    <2>6. Silence' /\ Acks'
      BY <1>4, <2>1 DEF Phases, Silence, Acks, Rank, Within, Writing, NoGatt
    <2> QED
      BY <2>2, <2>3, <2>4, <2>5, <2>6
  <1> QED
    BY <1>1, <1>2, <1>3, <1>4 DEF Reconcile

LEMMA ClearKeeps ==
    ASSUME ClientInv, Clear
    PROVE  ClientInv'
  <1> USE DEF ClientInv
  <1>1. /\ UNCHANGED <<stack, host, cleanup>>
        /\ task.pc = "clear"
        /\ IsClient(client')
        /\ Same(ClientFields, client, client', {"write", "state"})
        /\ client'.state \in {client.state, "Backoff"} /\ ~client'.write.on
        /\ task' \in Tasks
        /\ task'.pc \in {"clear", "scan", "home", "judge"} /\ (task'.pc = "home" => task'.command = "none")
        /\ task'.command = task.command /\ task'.op \in {0, task.op}
        /\ task.command # "none" => task'.op = task.op
        /\ task'.reason = "reset" => task'.reason = task.reason /\ task'.term = task.term
    BY ClearingLeaves, ClearingWaits, Leaving DEF Clear, EmptyInbox, Acks, Writing
  <1>2. inbox' = [critical |-> <<>>, candidate |-> 0, control |-> <<>>]
    BY ClearingLeaves, ClearingWaits, Leaving DEF Clear, EmptyInbox, Acks, Writing
  <1>3. /\ IsInbox(inbox')
        /\ inbox'.critical = <<>> /\ inbox'.control = <<>>
    BY <1>1, <1>2, Blank DEF ClientTypeOK, IsInbox, InboxFields, Gatts, HostEvents
  <1>4. ClientTypeOK' /\ Newest' = Newest
    BY <1>1, <1>3 DEF ClientTypeOK, Newest
  <1>5. Phases' /\ OnTheAir' /\ Cleanups'
    BY <1>1, <1>3 DEF Phases, OnTheAir, Cleanups, NoCleanup
  <1>6. News'
    BY <1>1, <1>3, <1>4, Blank, NewestIsNat DEF Phases, OnTheAir, News, Heard
  <1>7. Mail'
    BY <1>1, <1>3 DEF Mail
  <1>8. Silence'
    BY <1>1, <1>3 DEF Phases, Silence
  <1>9. Acks'
    BY <1>1, <1>3 DEF Phases, Acks, Rank, Within, Writing, NoGatt
  <1> QED
    BY <1>4, <1>5, <1>6, <1>7, <1>8, <1>9

LEMMA BeginScanKeeps ==
    ASSUME ClientInv, BeginScan
    PROVE  ClientInv'
  <1> USE DEF ClientInv
  <1>1. CASE ScanAllowed
    <2>1. /\ UNCHANGED <<stack, host, cleanup>>
          /\ task.pc = "scan"
          /\ ~client.silent /\ cleanup.op = 0
          /\ ~client.active
          /\ task' \in Tasks
          /\ Same(TaskFields, task, task', {"pc", "proc", "back", "rescan"})
          /\ task'.pc = "submit" /\ task'.proc = "scan"
          /\ IsInbox(inbox') /\ inbox'.critical = inbox.critical /\ inbox'.control = inbox.control
          /\ IsClient(client')
          /\ Same(ClientFields, client, client', {"scans", "scanOp", "active", "sync", "queued"})
          /\ client.scans \in Nat /\ client'.scans = client.scans + 1
          /\ client'.active /\ client'.sync = stack.sync /\ stack.sync # 0
      BY <1>1, ScanBegins, Blank DEF BeginScan, ScanAllowed, Phases
    <2>2. ClientTypeOK' /\ Newest' = Newest
      BY <1>1, <2>1 DEF ClientTypeOK, Newest, Phases
    <2>3. Phases'
      BY <1>1, <2>1 DEF Phases
    <2>4. OnTheAir'
      BY <1>1, <2>1 DEF Phases, OnTheAir
    <2>5. Cleanups'
      BY <1>1, <2>1 DEF Phases, OnTheAir, Cleanups, NoCleanup
    <2>6. News'
      BY <1>1, <2>1, <2>2, Blank, NewestIsNat DEF Phases, OnTheAir, News, Heard
    <2>7. Mail'
      BY <1>1, <2>1, <2>2, MailStays DEF Phases, OnTheAir, StillLinked
    <2>8. Silence'
      BY <1>1, <2>1 DEF Phases, Silence
    <2>9. Acks'
      BY <1>1, <2>1 DEF Phases, Acks, Rank, Within, Writing, NoGatt
    <2> QED
      BY <2>2, <2>3, <2>4, <2>5, <2>6, <2>7, <2>8, <2>9
  <1>2. CASE ~ScanAllowed
    <2>1. /\ UNCHANGED <<stack, host, client, cleanup, inbox>>
          /\ task.pc = "scan"
          /\ task' \in Tasks
          /\ task'.pc = IF task.command = "none" THEN "home" ELSE "judge"
          /\ task'.command = task.command /\ task'.op \in {0, task.op}
          /\ task.command # "none" => task'.op = task.op
          /\ task'.reason = "reset" => task'.reason = task.reason /\ task'.term = task.term
      BY <1>2, Returning, Blank DEF BeginScan
    <2>2. ClientTypeOK' /\ Newest' = Newest
      BY <1>2, <2>1 DEF ClientTypeOK, Newest
    <2>3. Phases' /\ OnTheAir' /\ Cleanups'
      BY <1>2, <2>1 DEF Phases, OnTheAir, Cleanups, NoCleanup
    <2>4. News'
      BY <1>2, <2>1, <2>2, Blank, NewestIsNat DEF Phases, OnTheAir, News, Heard
    <2>5. Mail'
      BY <1>2, <2>1, <2>2, MailStays DEF Phases, OnTheAir, StillLinked
    <2>6. Silence' /\ Acks'
      BY <1>2, <2>1 DEF Phases, Silence, Acks, Rank, Within, Writing, NoGatt
    <2> QED
      BY <2>2, <2>3, <2>4, <2>5, <2>6
  <1> QED
    BY <1>1, <1>2 DEF BeginScan

LEMMA CheckHostKeeps ==
    ASSUME ClientInv, CheckHost
    PROVE  ClientInv'
  <1> USE DEF ClientInv
  <1>1. CASE client.sync \notin {0, stack.sync}
    <2>1. /\ UNCHANGED <<stack, host, cleanup, inbox>>
          /\ task.pc = "service"
          /\ task' \in Tasks
          /\ Same(TaskFields, task, task', {"pc", "term", "reason"})
          /\ task'.pc = "finish" /\ ~task'.term
      BY <1>1, ToFinish DEF CheckHost, LossReasons
    <2>2. client' = [client EXCEPT !.sync = stack.sync]
      BY <1>1, ToFinish DEF CheckHost, LossReasons
    <2>3. /\ IsClient(client')
          /\ Same(ClientFields, client, client', {"sync"})
          /\ client'.sync = stack.sync
      BY <1>1, <2>1, <2>2, Blank DEF ClientTypeOK, IsClient, States, Results, HostStacks
    <2>4. ClientTypeOK' /\ Newest' = Newest
      BY <1>1, <2>1, <2>3 DEF ClientTypeOK, Newest
    <2>5. OnTheAir' /\ Cleanups'
      BY <1>1, <2>1, <2>3 DEF Phases, OnTheAir, Cleanups, NoCleanup
    <2>6. Phases'
      BY <1>1, <2>1, <2>3 DEF Phases, ClientTypeOK, HostStacks
    <2>7. News'
      BY <1>1, <2>1, <2>3, <2>4, Blank, NewestIsNat DEF Phases, OnTheAir, News, Heard
    <2>8. Mail'
      BY <1>1, <2>1, <2>3, <2>4, MailStays DEF Phases, OnTheAir, StillLinked
    <2>9. Silence' /\ Acks'
      BY <1>1, <2>1, <2>3 DEF Phases, Silence, Acks, Rank, Within, Writing, NoGatt
    <2> QED
      BY <2>4, <2>5, <2>6, <2>7, <2>8, <2>9
  <1>2. CASE ~(client.sync \notin {0, stack.sync}) /\ ~stack.ready /\ (client.state # "Idle" \/ cleanup.op # 0)
    <2>1. /\ UNCHANGED <<stack, host, client, cleanup, inbox>>
          /\ task.pc = "service"
          /\ task' \in Tasks
          /\ Same(TaskFields, task, task', {"pc", "term", "reason"})
          /\ task'.pc = "finish" /\ ~task'.term
      BY <1>2, ToFinish, Blank DEF CheckHost, LossReasons
    <2>2. ClientTypeOK' /\ Newest' = Newest
      BY <1>2, <2>1 DEF ClientTypeOK, Newest
    <2>3. Phases' /\ OnTheAir' /\ Cleanups'
      BY <1>2, <2>1 DEF Phases, OnTheAir, Cleanups, NoCleanup
    <2>4. News'
      BY <1>2, <2>1, <2>2, Blank, NewestIsNat DEF Phases, OnTheAir, News, Heard
    <2>5. Mail'
      BY <1>2, <2>1, <2>2, MailStays DEF Phases, OnTheAir, StillLinked
    <2>6. Silence' /\ Acks'
      BY <1>2, <2>1 DEF Phases, Silence, Acks, Rank, Within, Writing, NoGatt
    <2> QED
      BY <2>2, <2>3, <2>4, <2>5, <2>6
  <1>3. CASE ~(client.sync \notin {0, stack.sync}) /\ ~(~stack.ready /\ (client.state # "Idle" \/ cleanup.op # 0))
    <2>1. /\ UNCHANGED <<stack, host, client, cleanup, inbox>>
          /\ task.pc = "service"
      BY <1>3 DEF CheckHost
    <2>2. task' = [task EXCEPT !.pc = "reconcile", !.back = "pending"]
      BY <1>3 DEF CheckHost
    <2>3. /\ task' \in Tasks
          /\ Same(TaskFields, task, task', {"pc", "back"})
          /\ task'.pc = "reconcile" /\ task'.back = "pending"
      BY <1>3, <2>1, <2>2, Blank DEF ClientTypeOK, Tasks, ClientPlaces, Procedures, LossReasons
    <2>4. ClientTypeOK' /\ Newest' = Newest
      BY <1>3, <2>1, <2>3 DEF ClientTypeOK, Newest
    <2>5. Phases' /\ OnTheAir' /\ Cleanups'
      BY <1>3, <2>1, <2>3 DEF Phases, OnTheAir, Cleanups, NoCleanup
    <2>6. News'
      BY <1>3, <2>1, <2>3, <2>4, Blank, NewestIsNat DEF Phases, OnTheAir, News, Heard
    <2>7. Mail'
      BY <1>3, <2>1, <2>3, <2>4, MailStays DEF Phases, OnTheAir, StillLinked
    <2>8. Silence' /\ Acks'
      BY <1>3, <2>1, <2>3 DEF Phases, Silence, Acks, Rank, Within, Writing, NoGatt
    <2> QED
      BY <2>4, <2>5, <2>6, <2>7, <2>8
  <1> QED
    BY <1>1, <1>2, <1>3 DEF CheckHost

LEMMA CheckPendingKeeps ==
    ASSUME ClientInv, CheckPending
    PROVE  ClientInv'
  <1> USE DEF ClientInv
  <1>1. CASE client.pending
    <2>1. /\ UNCHANGED <<stack, host, client, cleanup, inbox>>
          /\ task.pc = "pending"
          /\ task' \in Tasks
          /\ Same(TaskFields, task, task', {"pc", "term", "reason"})
          /\ task'.pc = "finish" /\ task'.term = FALSE /\ task'.reason # "reset"
      BY <1>1, ToFinish, Blank DEF CheckPending, LossReasons
    <2>2. ClientTypeOK' /\ Newest' = Newest
      BY <1>1, <2>1 DEF ClientTypeOK, Newest
    <2>3. Phases' /\ OnTheAir' /\ Cleanups'
      BY <1>1, <2>1 DEF Phases, OnTheAir, Cleanups, NoCleanup
    <2>4. News'
      BY <1>1, <2>1, <2>2, Blank, NewestIsNat DEF Phases, OnTheAir, News, Heard
    <2>5. Mail'
      BY <1>1, <2>1, <2>2, MailStays DEF Phases, OnTheAir, StillLinked
    <2>6. Silence' /\ Acks'
      BY <1>1, <2>1 DEF Phases, Silence, Acks, Rank, Within, Writing, NoGatt
    <2> QED
      BY <2>2, <2>3, <2>4, <2>5, <2>6
  <1>2. CASE ~client.pending /\ client.silent
    <2>1. /\ UNCHANGED <<stack, host, client, cleanup, inbox>>
          /\ task.pc = "pending"
          /\ task' \in Tasks
          /\ task'.pc = IF task.command = "none" THEN "home" ELSE "judge"
          /\ task'.command = task.command /\ task'.op \in {0, task.op}
          /\ task.command # "none" => task'.op = task.op
          /\ task'.reason = "reset" => task'.reason = task.reason /\ task'.term = task.term
      BY <1>2, Returning, Blank DEF CheckPending
    <2>2. ClientTypeOK' /\ Newest' = Newest
      BY <1>2, <2>1 DEF ClientTypeOK, Newest
    <2>3. Phases' /\ OnTheAir' /\ Cleanups'
      BY <1>2, <2>1 DEF Phases, OnTheAir, Cleanups, NoCleanup
    <2>4. News'
      BY <1>2, <2>1, <2>2, Blank, NewestIsNat DEF Phases, OnTheAir, News, Heard
    <2>5. Mail'
      BY <1>2, <2>1, <2>2, MailStays DEF Phases, OnTheAir, StillLinked
    <2>6. Silence' /\ Acks'
      BY <1>2, <2>1 DEF Phases, Silence, Acks, Rank, Within, Writing, NoGatt
    <2> QED
      BY <2>2, <2>3, <2>4, <2>5, <2>6
  <1>3. CASE ~client.pending /\ ~client.silent
    <2>1. /\ UNCHANGED <<stack, host, client, cleanup, inbox>>
          /\ task.pc = "pending"
      BY <1>3 DEF CheckPending
    <2>2. task' = [task EXCEPT !.pc = "events"]
      BY <1>3 DEF CheckPending
    <2>3. /\ task' \in Tasks
          /\ Same(TaskFields, task, task', {"pc"})
          /\ task'.pc = "events"
      BY <1>3, <2>1, <2>2, Blank DEF ClientTypeOK, Tasks, ClientPlaces, Procedures, LossReasons
    <2>4. ClientTypeOK' /\ Newest' = Newest
      BY <1>3, <2>1, <2>3 DEF ClientTypeOK, Newest
    <2>5. Phases' /\ OnTheAir' /\ Cleanups'
      BY <1>3, <2>1, <2>3 DEF Phases, OnTheAir, Cleanups, NoCleanup
    <2>6. News'
      BY <1>3, <2>1, <2>3, <2>4, Blank, NewestIsNat DEF Phases, OnTheAir, News, Heard
    <2>7. Mail'
      BY <1>3, <2>1, <2>3, <2>4, MailStays DEF Phases, OnTheAir, StillLinked
    <2>8. Silence' /\ Acks'
      BY <1>3, <2>1, <2>3 DEF Phases, Silence, Acks, Rank, Within, Writing, NoGatt
    <2> QED
      BY <2>4, <2>5, <2>6, <2>7, <2>8
  <1> QED
    BY <1>1, <1>2, <1>3 DEF CheckPending

-----------------------------------------------------------------------------
(* The worker: the events. *)

\* An event of an earlier operation changes nothing.
LEMMA IgnoredKeeps ==
    ASSUME ClientInv, task.pc = "events", UNCHANGED <<stack, host, cleanup>>, Popped, UNCHANGED <<client, task>>
    PROVE  ClientInv'
  <1> USE DEF ClientInv
  <1>1. /\ UNCHANGED <<stack, host, client, cleanup, task>>
        /\ Popped
        /\ IsInbox(inbox')
    BY Blank DEF Popped, ClientTypeOK, IsInbox, InboxFields
  <1>2. ClientTypeOK' /\ Newest' = Newest
    BY <1>1 DEF ClientTypeOK, Newest
  <1>3. Phases' /\ OnTheAir' /\ Cleanups'
    BY <1>1 DEF Phases, OnTheAir, Cleanups, NoCleanup
  <1>4. News'
    BY <1>1, <1>2, Blank, NewestIsNat DEF Phases, OnTheAir, News, Heard
  <1>5. Mail'
    BY <1>1, <1>2, MailPops DEF Phases, OnTheAir, StillLinked
  <1>6. Silence' /\ Acks'
    BY <1>1 DEF Phases, Silence, Acks, Rank, Within, Writing, NoGatt
  <1> QED
    BY <1>2, <1>3, <1>4, <1>5, <1>6

\* An event that ends the link.
LEMMA FinishingKeeps ==
    ASSUME ClientInv, NEW t \in BOOLEAN, NEW r \in LossReasons \ {"reset"}, task.pc = "events", UNCHANGED <<stack, host, cleanup>>, Popped,
           UNCHANGED client, task' = FinishLink(task, t, r), t \/ Dark
    PROVE  ClientInv'
  <1> USE DEF ClientInv
  <1>1. /\ UNCHANGED <<stack, host, client, cleanup>>
        /\ Popped
        /\ t \/ Dark
        /\ IsInbox(inbox')
        /\ task' \in Tasks
        /\ Same(TaskFields, task, task', {"pc", "term", "reason"})
        /\ task'.pc = "finish" /\ task'.term = t /\ task'.reason # "reset"
    BY ToFinish, Blank DEF Popped
  <1>2. ClientTypeOK' /\ Newest' = Newest
    BY <1>1 DEF ClientTypeOK, Newest
  <1>3. Phases' /\ OnTheAir' /\ Cleanups'
    BY <1>1 DEF Phases, OnTheAir, Cleanups, NoCleanup
  <1>4. News'
    BY <1>1, <1>2, Blank, NewestIsNat DEF Phases, OnTheAir, News, Heard
  <1>5. Mail'
    BY <1>1, <1>2, MailPops DEF Phases, OnTheAir, StillLinked
  <1>6. Silence' /\ Acks'
    BY <1>1 DEF Phases, Silence, Acks, Rank, Within, Writing, NoGatt
  <1> QED
    BY <1>2, <1>3, <1>4, <1>5, <1>6

\* An event that leads to the next stage of the discovery.
LEMMA DiscoveringKeeps ==
    ASSUME ClientInv, NEW k \in Stages, task.pc = "events", UNCHANGED <<stack, host, cleanup>>, Popped,
           BeginGatt(k),
           IF k = 1 THEN client.state = "Connecting" /\ client.connected ELSE client.state = Discovery[k - 1]
    PROVE  ClientInv'
  <1> USE DEF ClientInv
  <1>1. /\ UNCHANGED <<stack, host, cleanup>>
        /\ task.pc = "events" /\ client.linkOp # 0
        /\ Popped
        /\ k \in 1..5 /\ Discovery[k] \in Linked \ {"Connecting", "Ready"}
        /\ task' \in Tasks
        /\ Same(TaskFields, task, task', {"pc", "proc", "back"})
        /\ task'.pc = "submit" /\ task'.proc = "gatt"
        /\ IsInbox(inbox')
        /\ IsClient(client')
        /\ Same(ClientFields, client, client', {"state", "gattOp"})
        /\ client'.state = Discovery[k] /\ client'.gattOp = <<client.linkOp, k>>
    <2>1. client.linkOp \in Nat /\ <<client.linkOp, k>> \in Gatts /\ k \in 1..5 /\ Discovery[k] \in States
      BY DiscoveryIs DEF ClientTypeOK, IsClient, Gatts, States
    <2>2. client' = [client EXCEPT !.state = Discovery[k], !.gattOp = <<client.linkOp, k>>]
          /\ task' = Radio(task, "gatt", "none") /\ "gatt" \in Procedures
      BY DEF BeginGatt, Procedures
    <2>3. /\ IsClient(client') /\ Same(ClientFields, client, client', {"state", "gattOp"})
          /\ client'.state = Discovery[k] /\ client'.gattOp = <<client.linkOp, k>>
      BY <2>1, <2>2, Moving
    <2>4. client.linkOp # 0
      BY <2>1, DiscoveryIs DEF Phases
    <2> QED
      BY <2>1, <2>2, <2>3, <2>4, ToRadio, DiscoveryIs DEF Popped
  <1>2. ClientTypeOK' /\ Newest' = Newest
    BY <1>1 DEF ClientTypeOK, Newest
  <1>3. Phases'
    BY <1>1, DiscoveryIs DEF Phases
  <1>4. OnTheAir'
    BY <1>1, DiscoveryIs DEF Phases, OnTheAir
  <1>5. Cleanups'
    BY <1>1 DEF Phases, OnTheAir, Cleanups, NoCleanup
  <1>6. News'
    BY <1>1, <1>2, Blank, NewestIsNat DEF Phases, OnTheAir, News, Heard
  <1>7. Mail'
    BY <1>1, <1>2, MailPops DEF Phases, OnTheAir, StillLinked
  <1>8. Silence'
    BY <1>1 DEF Phases, Silence
  <1>9. Acks'
    BY <1>1, DiscoveryIs DEF Phases, Acks, Rank, Within, Writing, NoGatt, ClientTypeOK,
      HostStacks, HostTasks, Gatts
  <1> QED
    BY <1>2, <1>3, <1>4, <1>5, <1>6, <1>7, <1>8, <1>9

\* The event that makes the link ready.
LEMMA SubscribedKeeps ==
    ASSUME ClientInv, task.pc = "events", UNCHANGED <<stack, host, cleanup>>, Popped,
           client.state = Discovery[5], client' = [client EXCEPT !.state = "Ready"], UNCHANGED task
    PROVE  ClientInv'
  <1> USE DEF ClientInv
  <1>1. /\ UNCHANGED <<stack, host, cleanup, task>>
        /\ task.pc = "events"
        /\ IsInbox(inbox')
        /\ Popped
        /\ client.state = "Initializing"
    BY DiscoveryIs DEF Popped
  <1>2. client' = [client EXCEPT !.state = "Ready"]
    BY DiscoveryIs DEF Popped
  <1>3. /\ IsClient(client')
        /\ Same(ClientFields, client, client', {"state"})
        /\ client'.state = "Ready"
    BY <1>1, <1>2, Blank DEF ClientTypeOK, IsClient, States, Results
  <1>4. ClientTypeOK' /\ Newest' = Newest
    BY <1>1, <1>3 DEF ClientTypeOK, Newest
  <1>5. Phases' /\ OnTheAir' /\ Cleanups'
    BY <1>1, <1>3 DEF Phases, OnTheAir, Cleanups, NoCleanup
  <1>6. News'
    BY <1>1, <1>3, <1>4, Blank, NewestIsNat DEF Phases, OnTheAir, News, Heard
  <1>7. Mail'
    BY <1>1, <1>3, <1>4, MailPops DEF Phases, OnTheAir, StillLinked
  <1>8. Silence' /\ Acks'
    BY <1>1, <1>3 DEF Phases, Silence, Acks, Rank, Within, Writing, NoGatt
  <1> QED
    BY <1>4, <1>5, <1>6, <1>7, <1>8

\* An event that is never dropped is taken up or ignored.
LEMMA HandlingCritical ==
    ASSUME ClientInv, NEW e \in HostEvents, IsCritical(e), task.pc = "events",
           UNCHANGED <<stack, host, cleanup>>, Popped,
           IF Matches(e) THEN Handle(e) ELSE UNCHANGED <<client, task>>
    PROVE  ClientInv'
  <1> USE DEF ClientInv
  <1>1. CASE UNCHANGED <<client, task>>
    BY <1>1, IgnoredKeeps
  <1>2. CASE Matches(e) /\ e.kind = "scan" /\ client.state \in {"Scanning", "Backoff"}
             /\ UNCHANGED client /\ task' = FinishLink(task, FALSE, "scan")
    <2>1. Dark
      BY <1>2 DEF Phases, OnTheAir
    <2> QED
      BY <1>2, <2>1, FinishingKeeps DEF LossReasons
  <1>3. CASE Matches(e) /\ e.kind = "connect" /\ client.state = "Connecting" /\ e.ok /\ BeginGatt(1)
    <2>1. client.linkOp # 0 /\ e.op = client.linkOp
      BY <1>3 DEF Phases, Matches
    <2>2. client.connected
      BY <1>3, <2>1 DEF IsCritical, Heard
    <2> QED
      BY <1>3, <2>2, DiscoveringKeeps, DiscoveryIs
  <1>4. CASE Matches(e) /\ e.kind = "connect" /\ client.state = "Connecting" /\ ~e.ok
             /\ UNCHANGED client /\ task' = FinishLink(task, FALSE, "connect")
    <2>1. client.linkOp # 0 /\ e.op = client.linkOp
      BY <1>4 DEF Phases, Matches
    <2>2. Dark
      BY <1>4, <2>1 DEF IsCritical, Heard
    <2> QED
      BY <1>4, <2>2, FinishingKeeps DEF LossReasons
  <1>5. CASE Matches(e) /\ e.kind = "disconnect" /\ client.handle
             /\ UNCHANGED client /\ task' = FinishLink(task, FALSE, "gap")
    <2>1. client.linkOp # 0 /\ e.op = client.linkOp
      BY <1>5 DEF Phases, Matches
    <2>2. client.pending
      BY <1>5, <2>1 DEF IsCritical, Heard
    <2>3. Dark
      BY <1>5, <2>2 DEF Phases, OnTheAir
    <2> QED
      BY <1>5, <2>3, FinishingKeeps DEF LossReasons
  <1>6. e.kind # "gatt" /\ client.state # "CancelPending"
    BY DEF IsCritical, Phases, Doing
  <1> QED
    BY <1>1, <1>2, <1>3, <1>4, <1>5, <1>6 DEF Handle

LEMMA PopCriticalKeeps ==
    ASSUME ClientInv, PopCritical
    PROVE  ClientInv'
  <1>1. inbox.critical \in Seq(HostEvents) /\ inbox.critical # <<>> /\ IsInbox(inbox)
    BY DEF ClientInv, ClientTypeOK, IsInbox, PopCritical
  <1>2. PICK e \in HostEvents : e = Head(inbox.critical)
    BY <1>1, EventsTaken
  <1>3. IsCritical(e)
    BY <1>1, <1>2, EventsTaken DEF ClientInv, Mail
  <1>4. Popped
    BY <1>1, EventsTaken DEF PopCritical, Popped, IsInbox, InboxFields
  <1>5. /\ task.pc = "events" /\ UNCHANGED <<stack, host, cleanup>>
        /\ IF Matches(e) THEN Handle(e) ELSE UNCHANGED <<client, task>>
    BY <1>2 DEF PopCritical
  <1> QED
    BY <1>3, <1>4, <1>5, HandlingCritical

\* So is one that may be dropped.
LEMMA HandlingControl ==
    ASSUME ClientInv, NEW e \in HostEvents, IsControl(e), task.pc = "events",
           UNCHANGED <<stack, host, cleanup>>, Popped,
           IF Matches(e) THEN Handle(e) ELSE UNCHANGED <<client, task>>
    PROVE  ClientInv'
  <1> USE DEF ClientInv
  <1>1. CASE UNCHANGED <<client, task>>
    BY <1>1, IgnoredKeeps
  <1>2. ASSUME NEW r \in LossReasons \ {"reset"}, UNCHANGED client, task' = FinishLink(task, TRUE, r)
        PROVE  ClientInv'
    BY <1>2, FinishingKeeps
  <1>3. CASE client.state = Discovery[5] /\ UNCHANGED task
             /\ client' = [client EXCEPT !.state = "Ready"]
    BY <1>3, SubscribedKeeps
  <1>4. ASSUME NEW k \in Stages, k # 5, client.state = Discovery[k], BeginGatt(k + 1)
        PROVE  ClientInv'
    <2>1. k + 1 \in Stages /\ k + 1 # 1 /\ (k + 1) - 1 = k
      BY <1>4, DiscoveryIs
    <2> QED
      BY <1>4, <2>1, DiscoveringKeeps
  <1>5. /\ e.kind = "gatt" /\ e.gatt[2] \in Stages /\ Len(Discovery) = 5
        /\ {"gatt", "unsupported"} \subseteq LossReasons \ {"reset"}
    BY DiscoveryIs DEF IsControl, LossReasons
  <1>6. CASE Matches(e) /\ client.state = Discovery[e.gatt[2]]
    <2>1. Handle(e)
      BY <1>6
    <2> QED
      BY <1>2, <1>3, <1>4, <1>5, <1>6, <2>1 DEF Handle
  <1>7. CASE ~(Matches(e) /\ client.state = Discovery[e.gatt[2]])
    BY <1>1, <1>5, <1>7 DEF Handle
  <1> QED
    BY <1>6, <1>7

LEMMA PopControlKeeps ==
    ASSUME ClientInv, PopControl
    PROVE  ClientInv'
  <1>1. inbox.control \in Seq(HostEvents) /\ inbox.control # <<>> /\ IsInbox(inbox)
    BY DEF ClientInv, ClientTypeOK, IsInbox, PopControl
  <1>2. PICK e \in HostEvents : e = Head(inbox.control)
    BY <1>1, EventsTaken
  <1>3. IsControl(e)
    BY <1>1, <1>2, EventsTaken DEF ClientInv, Mail
  <1>4. Popped
    BY <1>1, EventsTaken DEF PopControl, Popped, IsInbox, InboxFields
  <1>5. /\ task.pc = "events" /\ UNCHANGED <<stack, host, cleanup>>
        /\ IF Matches(e) THEN Handle(e) ELSE UNCHANGED <<client, task>>
    BY <1>2 DEF PopControl
  <1> QED
    BY <1>3, <1>4, <1>5, HandlingControl

LEMMA PopCandidateKeeps ==
    ASSUME ClientInv, PopCandidate
    PROVE  ClientInv'
  <1> USE DEF ClientInv
  <1>1. /\ task.pc = "events" /\ UNCHANGED <<stack, host, cleanup>>
        /\ Popped
    BY DEF PopCandidate, Popped, ClientTypeOK, IsInbox, InboxFields
  <1>2. CASE UNCHANGED <<client, task>>
    BY <1>1, <1>2, IgnoredKeeps
  <1>3. CASE client.state = "Scanning" /\ client' = [client EXCEPT !.state = "CancelPending"]
             /\ task' = Radio(task, "select", "none")
    <2>1. client' = [client EXCEPT !.state = "CancelPending", !.gattOp = client.gattOp]
          /\ client.gattOp \in Gatts /\ "CancelPending" \in States /\ "select" \in Procedures
      BY <1>3 DEF ClientTypeOK, IsClient, States, Procedures
    <2>2. /\ IsClient(client') /\ Same(ClientFields, client, client', {"state"})
          /\ client'.state = "CancelPending"
      BY <2>1, Moving DEF ClientTypeOK
    <2>3. /\ task' \in Tasks /\ Same(TaskFields, task, task', {"pc", "proc", "back"})
          /\ task'.pc = "submit" /\ task'.proc = "select"
      BY <1>3, <2>1, ToRadio
    <2>4. IsInbox(inbox')
      BY <1>1 DEF Popped
    <2>5. ClientTypeOK' /\ Newest' = Newest
      BY <1>1, <2>2, <2>3, <2>4 DEF ClientTypeOK, Newest
    <2>6. Phases' /\ OnTheAir' /\ Cleanups'
      BY <1>1, <1>3, <2>2, <2>3 DEF Phases, OnTheAir, Cleanups
    <2>7. News'
      BY <1>1, <2>2, <2>3, <2>5, NewestIsNat DEF News, Heard
    <2>8. Mail'
      BY <1>1, <1>3, <2>2, <2>5, MailPops DEF StillLinked, Phases
    <2>9. Silence' /\ Acks'
      BY <1>1, <1>3, <2>2, <2>3 DEF Phases, Silence, Acks, Rank, Within, Writing, NoGatt
    <2> QED
      BY <2>5, <2>6, <2>7, <2>8, <2>9
  <1> QED
    BY <1>2, <1>3 DEF PopCandidate

-----------------------------------------------------------------------------
(* The worker: the commands, and the calls of the facade. *)

LEMMA BackoffEndsKeeps ==
    ASSUME ClientInv, BackoffEnds
    PROVE  ClientInv'
  <1> USE DEF ClientInv
  <1>1. CASE client.backoffScan
    <2>1. /\ UNCHANGED <<stack, host, cleanup, inbox>>
          /\ task.pc = "events" /\ client.state = "Backoff"
          /\ task' \in Tasks
          /\ task'.pc = IF task.command = "none" THEN "home" ELSE "judge"
          /\ task'.command = task.command /\ task'.op \in {0, task.op}
          /\ task.command # "none" => task'.op = task.op
          /\ task'.reason = "reset" => task'.reason = task.reason /\ task'.term = task.term
      BY <1>1, Returning DEF BackoffEnds, NoEvent
    <2>2. client' = [client EXCEPT !.state = "Scanning"]
      BY <1>1, Returning DEF BackoffEnds, NoEvent
    <2>3. /\ IsClient(client')
          /\ Same(ClientFields, client, client', {"state"})
          /\ client'.state = "Scanning"
      BY <1>1, <2>1, <2>2, Blank DEF ClientTypeOK, IsClient, States, Results
    <2>4. ClientTypeOK' /\ Newest' = Newest
      BY <1>1, <2>1, <2>3 DEF ClientTypeOK, Newest
    <2>5. Phases' /\ OnTheAir' /\ Cleanups'
      BY <1>1, <2>1, <2>3 DEF Phases, OnTheAir, Cleanups, NoCleanup
    <2>6. News'
      BY <1>1, <2>1, <2>3, <2>4, Blank, NewestIsNat DEF Phases, OnTheAir, News, Heard
    <2>7. Mail'
      BY <1>1, <2>1, <2>3, <2>4, MailStays DEF Phases, OnTheAir, StillLinked
    <2>8. Silence' /\ Acks'
      BY <1>1, <2>1, <2>3 DEF Phases, Silence, Acks, Rank, Within, Writing, NoGatt
    <2> QED
      BY <2>4, <2>5, <2>6, <2>7, <2>8
  <1>2. CASE ~client.backoffScan
    <2>1. /\ UNCHANGED <<stack, host, cleanup, inbox>>
          /\ task.pc = "events" /\ client.state = "Backoff"
          /\ task' \in Tasks
          /\ Same(TaskFields, task, task', {"pc"})
          /\ task'.pc = "scan"
      BY <1>2 DEF BackoffEnds, NoEvent, ClientTypeOK, Tasks, ClientPlaces
    <2>2. client' = [client EXCEPT !.state = "Idle"]
      BY <1>2 DEF BackoffEnds, NoEvent, ClientTypeOK, Tasks, ClientPlaces
    <2>3. /\ IsClient(client')
          /\ Same(ClientFields, client, client', {"state"})
          /\ client'.state = "Idle"
      BY <1>2, <2>1, <2>2, Blank DEF ClientTypeOK, IsClient, States, Results
    <2>4. ClientTypeOK' /\ Newest' = Newest
      BY <1>2, <2>1, <2>3 DEF ClientTypeOK, Newest
    <2>5. Phases' /\ OnTheAir' /\ Cleanups'
      BY <1>2, <2>1, <2>3 DEF Phases, OnTheAir, Cleanups, NoCleanup
    <2>6. News'
      BY <1>2, <2>1, <2>3, <2>4, Blank, NewestIsNat DEF Phases, OnTheAir, News, Heard
    <2>7. Mail'
      BY <1>2, <2>1, <2>3, <2>4, MailStays DEF Phases, OnTheAir, StillLinked
    <2>8. Silence' /\ Acks'
      BY <1>2, <2>1, <2>3 DEF Phases, Silence, Acks, Rank, Within, Writing, NoGatt
    <2> QED
      BY <2>4, <2>5, <2>6, <2>7, <2>8
  <1> QED
    BY <1>1, <1>2 DEF BackoffEnds

LEMMA ServiceEndsKeeps ==
    ASSUME ClientInv, ServiceEnds
    PROVE  ClientInv'
  <1> USE DEF ClientInv
  <1>1. /\ UNCHANGED <<stack, host, client, cleanup, inbox>>
        /\ task.pc = "events"
        /\ task' \in Tasks
        /\ task'.pc = IF task.command = "none" THEN "home" ELSE "judge"
        /\ task'.command = task.command /\ task'.op \in {0, task.op}
        /\ task.command # "none" => task'.op = task.op
        /\ task'.reason = "reset" => task'.reason = task.reason /\ task'.term = task.term
    BY Returning, Blank DEF ServiceEnds, NoEvent
  <1>2. ClientTypeOK' /\ Newest' = Newest
    BY <1>1 DEF ClientTypeOK, Newest
  <1>3. Phases' /\ OnTheAir' /\ Cleanups'
    BY <1>1 DEF Phases, OnTheAir, Cleanups, NoCleanup
  <1>4. News'
    BY <1>1, <1>2, Blank, NewestIsNat DEF Phases, OnTheAir, News, Heard
  <1>5. Mail'
    BY <1>1, <1>2, MailStays DEF Phases, OnTheAir, StillLinked
  <1>6. Silence' /\ Acks'
    BY <1>1 DEF Phases, Silence, Acks, Rank, Within, Writing, NoGatt
  <1> QED
    BY <1>2, <1>3, <1>4, <1>5, <1>6

LEMMA AwaitEndsKeeps ==
    ASSUME ClientInv, AwaitEnds
    PROVE  ClientInv'
  <1> USE DEF ClientInv
  <1>1. /\ UNCHANGED <<stack, host, cleanup, inbox>>
        /\ task.pc = "await"
        /\ task' \in Tasks
        /\ Same(TaskFields, task, task', {"pc", "command"})
        /\ task'.pc = "service" /\ task'.command # "none"
        /\ task'.command = "ok" => client.write.done /\ client.write.ok
        /\ IsClient(client')
        /\ Same(ClientFields, client, client', {"write", "gattOp"})
        /\ ~client'.write.on /\ client'.gattOp = NoGatt
    BY WriteIsOver, ToService, Blank DEF AwaitEnds, Outcome
  <1>2. ClientTypeOK' /\ Newest' = Newest
    BY <1>1 DEF ClientTypeOK, Newest
  <1>3. Phases' /\ OnTheAir' /\ Cleanups'
    BY <1>1 DEF Phases, OnTheAir, Cleanups, NoCleanup
  <1>4. News'
    BY <1>1, <1>2, Blank, NewestIsNat DEF Phases, OnTheAir, News, Heard
  <1>5. Mail'
    BY <1>1, <1>2, MailStays DEF Phases, OnTheAir, StillLinked
  <1>6. Silence'
    BY <1>1 DEF Phases, Silence
  <1>7. Acks'
    BY <1>1 DEF Phases, Acks, Rank, Within, Writing, NoGatt, News
  <1> QED
    BY <1>2, <1>3, <1>4, <1>5, <1>6, <1>7

LEMMA JudgeCommandKeeps ==
    ASSUME ClientInv, JudgeCommand
    PROVE  ClientInv'
  <1> USE DEF ClientInv
  <1>1. CASE task.command = "failed" /\ Survived
    <2>1. /\ UNCHANGED <<stack, host, client, cleanup, inbox>>
          /\ task.pc = "judge"
          /\ task' \in Tasks
          /\ task'.pc = "finish" /\ task'.proc = "none"
          /\ task'.command = "none" /\ task'.op = 0 /\ task'.term /\ task'.reason # "reset"
      BY <1>1, FinishFromHome, Blank DEF JudgeCommand, LossReasons
    <2>2. ClientTypeOK' /\ Newest' = Newest
      BY <1>1, <2>1 DEF ClientTypeOK, Newest
    <2>3. Phases' /\ OnTheAir' /\ Cleanups'
      BY <1>1, <2>1 DEF Phases, OnTheAir, Cleanups, NoCleanup
    <2>4. News'
      BY <1>1, <2>1, <2>2, Blank, NewestIsNat DEF Phases, OnTheAir, News, Heard
    <2>5. Mail'
      BY <1>1, <2>1, <2>2, MailStays DEF Phases, OnTheAir, StillLinked
    <2>6. Silence' /\ Acks'
      BY <1>1, <2>1 DEF Phases, Silence, Acks, Rank, Within, Writing, NoGatt
    <2> QED
      BY <2>2, <2>3, <2>4, <2>5, <2>6
  <1>2. CASE ~(task.command = "failed" /\ Survived)
    <2>1. /\ UNCHANGED <<stack, host, client, cleanup, inbox>>
          /\ task.pc = "judge"
          /\ task' = AtHome
          /\ task' \in Tasks
          /\ task'.pc = "home" /\ task'.proc = "none" /\ task'.command = "none"
          /\ task'.op = 0 /\ task'.reason = "none"
      BY <1>2, HomeIs, Blank DEF JudgeCommand
    <2>2. ClientTypeOK' /\ Newest' = Newest
      BY <1>2, <2>1 DEF ClientTypeOK, Newest
    <2>3. Phases' /\ OnTheAir' /\ Cleanups'
      BY <1>2, <2>1 DEF Phases, OnTheAir, Cleanups, NoCleanup
    <2>4. News'
      BY <1>2, <2>1, <2>2, Blank, NewestIsNat DEF Phases, OnTheAir, News, Heard
    <2>5. Mail'
      BY <1>2, <2>1, <2>2, MailStays DEF Phases, OnTheAir, StillLinked
    <2>6. Silence' /\ Acks'
      BY <1>2, <2>1 DEF Phases, Silence, Acks, Rank, Within, Writing, NoGatt
    <2> QED
      BY <2>2, <2>3, <2>4, <2>5, <2>6
  <1> QED
    BY <1>1, <1>2 DEF JudgeCommand

LEMMA ServiceKeeps ==
    ASSUME ClientInv, Service
    PROVE  ClientInv'
  <1> USE DEF ClientInv
  <1>1. /\ UNCHANGED <<stack, host, client, cleanup, inbox>>
        /\ task.pc = "home"
        /\ task' \in Tasks
        /\ task'.pc = "service" /\ task'.proc = "none" /\ task'.command = "none"
        /\ task'.op = 0 /\ task'.reason = "none"
    BY FromHome, Blank DEF Service, Enter
  <1>2. ClientTypeOK' /\ Newest' = Newest
    BY <1>1 DEF ClientTypeOK, Newest
  <1>3. Phases' /\ OnTheAir' /\ Cleanups'
    BY <1>1 DEF Phases, OnTheAir, Cleanups, NoCleanup
  <1>4. News'
    BY <1>1, <1>2, Blank, NewestIsNat DEF Phases, OnTheAir, News, Heard
  <1>5. Mail'
    BY <1>1, <1>2, MailStays DEF Phases, OnTheAir, StillLinked
  <1>6. Silence' /\ Acks'
    BY <1>1 DEF Phases, Silence, Acks, Rank, Within, Writing, NoGatt
  <1> QED
    BY <1>2, <1>3, <1>4, <1>5, <1>6

LEMMA StartScanKeeps ==
    ASSUME ClientInv, NEW other \in BOOLEAN, StartScan(other)
    PROVE  ClientInv'
  <1> USE DEF ClientInv
  <1>1. CASE client.state = "Idle"
    <2>1. /\ UNCHANGED <<stack, host, client, cleanup, inbox>>
          /\ task.pc = "home"
          /\ task' \in Tasks
          /\ task'.pc = "scan" /\ task'.proc = "none" /\ task'.command = "none"
          /\ task'.op = 0 /\ task'.reason = "none"
      BY <1>1, FromHome, Blank DEF StartScan
    <2>2. ClientTypeOK' /\ Newest' = Newest
      BY <1>1, <2>1 DEF ClientTypeOK, Newest
    <2>3. Phases' /\ OnTheAir' /\ Cleanups'
      BY <1>1, <2>1 DEF Phases, OnTheAir, Cleanups, NoCleanup
    <2>4. News'
      BY <1>1, <2>1, <2>2, Blank, NewestIsNat DEF Phases, OnTheAir, News, Heard
    <2>5. Mail'
      BY <1>1, <2>1, <2>2, MailStays DEF Phases, OnTheAir, StillLinked
    <2>6. Silence' /\ Acks'
      BY <1>1, <2>1 DEF Phases, Silence, Acks, Rank, Within, Writing, NoGatt
    <2> QED
      BY <2>2, <2>3, <2>4, <2>5, <2>6
  <1>2. CASE client.state # "Idle"
    <2>1. /\ UNCHANGED <<stack, host, client, cleanup, inbox>>
          /\ task.pc = "home"
          /\ task' \in Tasks
          /\ task'.pc = "finish" /\ task'.proc = "none"
          /\ task'.command = "none" /\ task'.op = 0 /\ task'.term /\ task'.reason # "reset"
      BY <1>2, FinishFromHome, Blank DEF StartScan, LossReasons
    <2>2. ClientTypeOK' /\ Newest' = Newest
      BY <1>2, <2>1 DEF ClientTypeOK, Newest
    <2>3. Phases' /\ OnTheAir' /\ Cleanups'
      BY <1>2, <2>1 DEF Phases, OnTheAir, Cleanups, NoCleanup
    <2>4. News'
      BY <1>2, <2>1, <2>2, Blank, NewestIsNat DEF Phases, OnTheAir, News, Heard
    <2>5. Mail'
      BY <1>2, <2>1, <2>2, MailStays DEF Phases, OnTheAir, StillLinked
    <2>6. Silence' /\ Acks'
      BY <1>2, <2>1 DEF Phases, Silence, Acks, Rank, Within, Writing, NoGatt
    <2> QED
      BY <2>2, <2>3, <2>4, <2>5, <2>6
  <1> QED
    BY <1>1, <1>2 DEF StartScan

LEMMA DisconnectKeeps ==
    ASSUME ClientInv, Disconnect
    PROVE  ClientInv'
  <1> USE DEF ClientInv
  <1>1. /\ UNCHANGED <<stack, host, client, cleanup, inbox>>
        /\ task.pc = "home"
        /\ task' \in Tasks
        /\ task'.pc = "finish" /\ task'.proc = "none"
        /\ task'.command = "none" /\ task'.op = 0 /\ task'.term /\ task'.reason # "reset"
    BY FinishFromHome, Blank DEF Disconnect, LossReasons
  <1>2. ClientTypeOK' /\ Newest' = Newest
    BY <1>1 DEF ClientTypeOK, Newest
  <1>3. Phases' /\ OnTheAir' /\ Cleanups'
    BY <1>1 DEF Phases, OnTheAir, Cleanups, NoCleanup
  <1>4. News'
    BY <1>1, <1>2, Blank, NewestIsNat DEF Phases, OnTheAir, News, Heard
  <1>5. Mail'
    BY <1>1, <1>2, MailStays DEF Phases, OnTheAir, StillLinked
  <1>6. Silence' /\ Acks'
    BY <1>1 DEF Phases, Silence, Acks, Rank, Within, Writing, NoGatt
  <1> QED
    BY <1>2, <1>3, <1>4, <1>5, <1>6

LEMMA CommandKeeps ==
    ASSUME ClientInv, NEW off \in BOOLEAN, Command(off)
    PROVE  ClientInv'
  <1> USE DEF ClientInv
  <1>1. /\ UNCHANGED <<stack, host, cleanup, inbox>>
        /\ task.pc = "home" /\ client.state = "Ready" /\ ~client.silent
        /\ IsClient(client')
        /\ Same(ClientFields, client, client', {"commands", "closed", "silent", "gattOp", "write"})
        /\ client.commands \in Nat /\ client'.commands = client.commands + 1
        /\ client'.gattOp = <<client.linkOp, 5 + client'.commands>>
        /\ client'.write.on /\ ~client'.write.done
        /\ task' \in Tasks
        /\ task'.pc = "submit" /\ task'.proc = "command" /\ task'.op = client.linkOp
        /\ task'.command = "none" /\ task'.reason = "none"
    BY CommandTyped DEF Command
  <1>2. ClientTypeOK' /\ Newest' = Newest
    BY <1>1 DEF ClientTypeOK, Newest
  <1>3. Phases' /\ OnTheAir' /\ Cleanups'
    BY <1>1 DEF Phases, OnTheAir, Cleanups, NoCleanup
  <1>4. News'
    BY <1>1, <1>2, Blank, NewestIsNat DEF Phases, OnTheAir, News, Heard
  <1>5. Mail'
    BY <1>1, <1>2, MailStays DEF Phases, OnTheAir, StillLinked
  <1>6. Silence'
    BY <1>1 DEF Phases, Silence
  <1>7. Acks'
    BY <1>1 DEF Phases, Acks, Rank, Within, Writing, NoGatt, ClientTypeOK, HostStacks, HostTasks,
      Gatts
  <1> QED
    BY <1>2, <1>3, <1>4, <1>5, <1>6, <1>7

LEMMA TimesOutKeeps ==
    ASSUME ClientInv, TimesOut
    PROVE  ClientInv'
  <1>1. /\ task.pc = "events" /\ UNCHANGED <<stack, host, client, cleanup>>
        /\ task' = FinishLink(task, TRUE, "timeout")
    BY DEF TimesOut, NoEvent
  <1>2. Popped
    BY DEF ClientInv, ClientTypeOK, Popped, TimesOut
  <1> QED
    BY <1>1, <1>2, FinishingKeeps DEF LossReasons

-----------------------------------------------------------------------------
(* The invariant and what it implies. *)

LEMMA AnsweredKeeps ==
    ASSUME ClientInv, Answered
    PROVE  ClientInv'
  BY ScanAnsweredKeeps, SelectAnsweredKeeps, ConnectAnsweredKeeps, GattAnsweredKeeps,
     StopAnsweredKeeps, TerminateAnsweredKeeps, CommandAnsweredKeeps
     DEF Answered

\* The invariant holds at power on.
LEMMA ClientStartsRight == ClientInit => ClientInv
  <1> SUFFICES ASSUME ClientInit PROVE ClientInv
    OBVIOUS
  <1>1. IsClient(client)
    <2>1. client.write \in Results /\ client.gattOp \in Gatts /\ client.state \in States
      BY Blank DEF ClientInit, NoWrite, Results, States
    <2>2. \A f \in Flags : client[f] \in BOOLEAN
      <3>1. /\ client.active = FALSE /\ client.handle = FALSE /\ client.connected = FALSE
            /\ client.pending = FALSE /\ client.submit = FALSE /\ client.silent = FALSE
            /\ client.gapInSubmit = FALSE /\ client.queued = FALSE
            /\ client.backoffScan = FALSE /\ client.closed = FALSE
        BY DEF ClientInit
      <3> QED
        BY <3>1
    <2>3. \A f \in Numbers : client[f] \in Nat
      BY DEF ClientInit
    <2>4. client = [f \in ClientFields |-> client[f]]
      BY DEF ClientInit
    <2> QED
      BY <2>1, <2>2, <2>3, <2>4 DEF IsClient
  <1>2. stack \in HostStacks
    BY Blank DEF ClientInit, HostStacks
  <1>3. IsInbox(inbox)
    BY DEF ClientInit, EmptyInbox, IsInbox, InboxFields
  <1>4. ClientTypeOK
    BY <1>1, <1>2, <1>3, Blank, HomeIs DEF ClientInit, ClientTypeOK
  <1>5. /\ stack.ready /\ stack.attempt = 0 /\ stack.link = 0 /\ stack.gatt = NoGatt /\ stack.acked = NoGatt
        /\ ~stack.quiet
    BY DEF ClientInit
  <1>6. /\ client.state = "Idle" /\ ~client.active /\ client.linkOp = 0 /\ client.gattOp = NoGatt
        /\ ~client.handle /\ ~client.pending /\ ~client.submit /\ ~client.backoffScan
        /\ client.commands = 0 /\ client.scans = 0 /\ ~client.write.on
    BY DEF ClientInit, NoWrite
  <1>7. host = NoHost /\ cleanup = NoCleanup /\ task = AtHome /\ inbox.critical = <<>> /\ inbox.control = <<>>
    BY DEF ClientInit, EmptyInbox
  <1>8. Phases /\ OnTheAir /\ Cleanups
    BY <1>5, <1>6, <1>7, HomeIs, Blank DEF Phases, OnTheAir, Cleanups, NoCleanup
  <1>9. News /\ Silence
    BY <1>5, <1>6, <1>7, HomeIs, Blank DEF News, Silence, Newest, NoCleanup
  <1>10. Mail
    BY <1>7 DEF Mail
  <1>11. Acks
    BY <1>5, <1>6, <1>7, HomeIs, Blank DEF Acks, Within, Writing
  <1> QED
    BY <1>4, <1>8, <1>9, <1>10, <1>11 DEF ClientInv

\* Every step keeps it.
LEMMA ClientStays ==
    ASSUME ClientInv, [ClientNext]_clientVars
    PROVE  ClientInv'
  <1>1. CASE HostStep
    BY <1>1, PushEventKeeps, AdvertiseKeeps, ScanStopsKeeps, LinkEndedKeeps, GapCleanupKeeps,
       GapCurrentKeeps, GattResultKeeps, ConnectDoneKeeps, GattDoneKeeps
       DEF HostStep
  <1>2. CASE TaskStep
    BY <1>2, SubmitKeeps, AcceptedKeeps, RefusedKeeps, EndSubmitKeeps, AnsweredKeeps, EndLinkKeeps,
       ReconcileKeeps, ClearKeeps, BeginScanKeeps, CheckHostKeeps, CheckPendingKeeps, PopCriticalKeeps,
       PopCandidateKeeps, PopControlKeeps, TimesOutKeeps, BackoffEndsKeeps, ServiceEndsKeeps,
       AwaitEndsKeeps, JudgeCommandKeeps
       DEF TaskStep
  <1>3. CASE Facade
    BY <1>3, ServiceKeeps, DisconnectKeeps, StartScanKeeps, CommandKeeps DEF Facade
  <1>4. CASE HostReset \/ HostSync \/ SilenceEnds
    BY <1>4, HostResetKeeps, HostSyncKeeps, SilenceEndsKeeps
  <1>5. CASE UNCHANGED clientVars
    BY <1>5 DEF clientVars, ClientInv, ClientTypeOK, Phases, OnTheAir, Cleanups, News, Newest, Heard, Mail,
       IsCritical, IsControl, Silence, Acks, Within, Rank, Writing
  <1> QED
    BY <1>1, <1>2, <1>3, <1>4, <1>5 DEF ClientNext

\* The invariant of the client: where the worker is, what is on the air, the link
\* that is being cleaned up, what the queues may hold, the silence, and what the
\* peer acknowledged.
THEOREM ClientInvariance == ClientSpec => []ClientInv
  BY ClientStartsRight, ClientStays, PTL DEF ClientSpec

\* It implies that a link has one owner.
LEMMA OwnedInside == ClientInv => OneOwnedLink
  BY DEF ClientInv, OneOwnedLink, Phases, OnTheAir, Cleanups

\* Every link and every attempt has an owner that will close it, no scan and no
\* connection begins beside another link, and a termination is for the link that
\* is cleaned up (invalidateGeneration, beginConfiguredScan,
\* reconcileLinkCleanup), for any number of scans, commands and host resets.
THEOREM LinksAreOwned == ClientSpec => []OneOwnedLink
  BY ClientInvariance, OwnedInside, PTL

\* It implies that a host that is silent is not called.
LEMMA SilenceInside ==
    ClientInv /\ [ClientNext]_clientVars => [(task.pc = "submit" /\ task'.pc = "call") => ~stack.quiet]_clientVars
  <1> SUFFICES ASSUME ClientInv, ClientNext, task.pc = "submit", task'.pc = "call" PROVE ~stack.quiet
    OBVIOUS
  <1>1. Submit /\ MaySubmit
    <2>1. ASSUME HostStep \/ HostReset \/ HostSync \/ SilenceEnds PROVE task' = task
      BY <2>1 DEF HostStep, HostReset, HostSync, SilenceEnds, PushEvent, Advertise, ScanStops, ConnectDone,
         LinkEnded, GapCleanup, GapCurrent, GattDone, GattResult
    <2>2. ASSUME Facade PROVE task.pc = "home"
      BY <2>2 DEF Facade, Service, Enter, StartScan, Disconnect, Command
    <2>3. ASSUME TaskStep, ~Submit PROVE task.pc # "submit"
      BY <2>3 DEF TaskStep, Accepted, Refused, EndSubmit, Answered, EndLink, Reconcile, Clear, BeginScan,
         CheckHost, CheckPending, PopCritical, PopCandidate, PopControl, NoEvent, TimesOut, BackoffEnds,
         ServiceEnds, AwaitEnds, JudgeCommand
    <2>4. ASSUME Submit, ~MaySubmit PROVE task'.pc # "call"
      <3>1. task \in Tasks /\ task' = [task EXCEPT !.pc = "done", !.rc = "busy"]
        BY <2>4 DEF Submit, ClientInv, ClientTypeOK
      <3> QED
        BY <3>1 DEF Tasks
    <2> QED
      BY <2>1, <2>2, <2>3, <2>4 DEF ClientNext
  <1> QED
    BY <1>1 DEF MaySubmit, ClientInv, Silence

\* No procedure begins in the quiet time after a link, also when the link ended
\* while a procedure was being submitted (submitRadioProcedure,
\* armGapSilenceIfCurrent).
THEOREM SilencesAreKept == ClientSpec => SilenceIsKept
  BY ClientInvariance, SilenceInside, PTL DEF ClientSpec, SilenceIsKept

\* It implies that OK means that the scale acknowledged.
LEMMA AcknowledgedInside == ClientInv => OkIsAcknowledged
  BY DiscoveryIs DEF ClientInv, OkIsAcknowledged, Survived, Acks

\* A command reported as done was acknowledged by the peer, that very command
\* and on the link in use (writeCommand, onWrite).
THEOREM OksAreAcknowledged == ClientSpec => []OkIsAcknowledged
  BY ClientInvariance, AcknowledgedInside, PTL
=============================================================================
