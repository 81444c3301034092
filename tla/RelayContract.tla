---------------------------- MODULE RelayContract ----------------------------
(***************************************************************************)
(* What the K1 relay driver promises the machine facade, with the timers,   *)
(* the tasks, the arming transaction and the fault handling left out: the   *)
(* contact closes for a granted time that runs out without anybody's help,  *)
(* a backflush may extend it once, a closure that safety cut short stays    *)
(* noted until it is acknowledged, and a lockout is for good, unless the    *)
(* machine is a momentary one and its logical run reaches a wall.           *)
(***************************************************************************)
EXTENDS Integers

CONSTANTS HardMax, BackflushMax,  \* longest normal and longest extended closure
          Limits,                 \* the times a caller may ask for
          UnlimitedAllowed,       \* compatibility mode: a closure without limit
          WallTrips,              \* the machine has logical run walls
          Horizon                 \* bound: ages are not counted further

VARIABLES contact,  \* the closure is in force
          granted,  \* its time limit, 0 when it has none or the contact is open
          age,      \* ticks it has lasted
          cut,      \* safety ended a closure and nobody acknowledged it
          locked,   \* no closure is granted
          wall      \* a logical run has reached its wall and is being cut
cvars == <<contact, granted, age, cut, locked, wall>>

Grants == (Limits \intersect 1..HardMax)
          \union (IF UnlimitedAllowed THEN {0} ELSE {})

Init ==
    /\ contact = FALSE /\ granted = 0 /\ age = 0 /\ cut = FALSE
    /\ locked \in BOOLEAN /\ wall = FALSE

Ended == contact' = FALSE /\ granted' = 0 /\ age' = 0

Close(limit) ==
    /\ ~contact /\ ~locked
    /\ contact' = TRUE /\ granted' = limit /\ age' = 0
    /\ UNCHANGED <<cut, locked, wall>>

Extend ==
    /\ contact /\ granted = HardMax /\ ~cut
    /\ granted' = BackflushMax
    /\ UNCHANGED <<contact, age, cut, locked, wall>>

Open == contact /\ Ended /\ UNCHANGED <<cut, locked, wall>>

Cut == contact /\ Ended /\ cut' = TRUE /\ UNCHANGED <<locked, wall>>

Lock == Ended /\ locked' = TRUE /\ UNCHANGED <<cut, wall>>

ReachWall == WallTrips /\ ~wall /\ wall' = TRUE
             /\ UNCHANGED <<contact, granted, age, cut, locked>>

\* The one step that ends a lockout; a closure it finds in force it cuts.
WallTrip == wall /\ wall' = FALSE /\ Ended
            /\ cut' = (cut \/ contact) /\ locked' = FALSE

Acknowledge == cut' = FALSE /\ UNCHANGED <<contact, granted, age, locked, wall>>

Pass ==
    /\ contact /\ (granted # 0 => age < granted)
    /\ age' = IF age < Horizon THEN age + 1 ELSE age
    /\ UNCHANGED <<contact, granted, cut, locked, wall>>

Next == (\E limit \in Grants : Close(limit)) \/ Extend \/ Open \/ Cut \/ Lock
        \/ ReachWall \/ WallTrip \/ Acknowledge \/ Pass

Spec == Init /\ [][Next]_cvars
=============================================================================
