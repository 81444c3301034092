------------------------------ MODULE DurableLog ------------------------------
(***************************************************************************)
(* What the dual-slot flash stores promise (the shot log and the activation *)
(* history of DualSlotFlashLog.h): a restart at any moment recovers one     *)
(* whole version of the store, at least as new as the last one the control  *)
(* task was told is persistent and never newer than the last mutation.      *)
(***************************************************************************)
EXTENDS Naturals

CONSTANT Versions   \* version numbers; 0 is the empty store of a new device

VARIABLES
    live,       \* the version in RAM
    durable,    \* the version a restart would recover
    settled     \* the newest version reported to be persistent

cvars == <<live, durable, settled>>

Init == live = 0 /\ durable = 0 /\ settled = 0

Mutate ==
    /\ \E v \in Versions : v > live /\ live' = v
    /\ UNCHANGED <<durable, settled>>

\* A flush commits a version, or a later attempt takes an unreported one back;
\* reporting a version promises that it stays.
Persist ==
    /\ \E v, w \in Versions :
          settled <= w /\ w <= v /\ v <= live /\ durable' = v /\ settled' = w
    /\ UNCHANGED live

\* A restart, or a load after a failed save, continues from flash.
Recover ==
    \E v \in Versions :
        /\ settled <= v /\ v <= live
        /\ live' = v /\ durable' = v /\ settled' = v

Next == Mutate \/ Persist \/ Recover

Spec == Init /\ [][Next]_cvars
=============================================================================
