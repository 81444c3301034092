-------------------------- MODULE MachineBackflush --------------------------
(* The cleaning ("backflush") observations of the machine integration:       *)
(* machine/OpenBrewByWeightMachineBackflush.h, and the part of the Micra     *)
(* service that hands them to the control loop under a lock it only tries.   *)
(*                                                                           *)
(* The operators act on one record m.  Continuity, episode and attempt are   *)
(* counters in the code and are only ever compared with the permit that the  *)
(* control loop holds, so m keeps the outcome of each comparison: cont, epi  *)
(* and attempt.  A queued change carries the comparisons made when it was    *)
(* stored, because the code stores a copy of the permit with it.             *)
EXTENDS Naturals, Sequences

CONSTANT
    Capacity       \* bound of the change queue, 8 in the code

ASSUME CapacityAssumption == Capacity \in Nat \ {0}

Phase == {"UNSUPPORTED", "UNKNOWN", "INACTIVE", "AWAITING", "ACTIVE"}

Change == [phase : Phase, epi : BOOLEAN, att : BOOLEAN]

Idle == [phase |-> "UNSUPPORTED", valid |-> FALSE, unresolved |-> FALSE,
         consumed |-> FALSE, extendable |-> FALSE, seen |-> FALSE,
         attempt |-> FALSE, cont |-> TRUE, epi |-> TRUE, queue |-> <<>>]

Observations ==
    [phase : Phase, valid : BOOLEAN, unresolved : BOOLEAN,
     consumed : BOOLEAN, extendable : BOOLEAN, seen : BOOLEAN,
     attempt : BOOLEAN, cont : BOOLEAN, epi : BOOLEAN,
     queue : UNION {[1 .. n -> Change] : n \in 0 .. Capacity}]

(* A cleaning is requested, runs, or an admitted attempt is not finished.    *)
Busy(m) == m.unresolved \/ m.phase \in {"AWAITING", "ACTIVE"} \/ m.attempt

(* The evidence is lost: what was queued goes with its continuity.           *)
Invalidated(m) ==
    IF m.phase = "UNSUPPORTED" THEN m
    ELSE [m EXCEPT !.cont = @ /\ ~(m.attempt /\ (m.valid \/ m.queue # <<>> \/ m.extendable)),
                   !.queue = <<>>, !.valid = FALSE, !.extendable = FALSE,
                   !.phase = "UNKNOWN", !.seen = FALSE]

(* The integration is switched off: the only step that forgives an           *)
(* unresolved request without an observed INACTIVE.                          *)
Reset(m) == [Invalidated(m) EXCEPT !.unresolved = FALSE, !.consumed = FALSE,
                                   !.phase = "UNSUPPORTED"]

Watched(m) ==
    IF m.phase = "UNSUPPORTED" THEN [m EXCEPT !.phase = "UNKNOWN", !.cont = ~m.attempt]
    ELSE m

(* An observed phase p; ours says that it entered the device after the       *)
(* attempt was admitted and before any later fence.                          *)
Observed(m0, p, ours) ==
    LET m == Watched(m0)
        extendable == IF p = "AWAITING" THEN m.seen /\ m.phase = "INACTIVE"
                      ELSE m.extendable
        epi == m.epi /\ ~(m.attempt /\ p = "AWAITING")
    IN  CASE p = "UNKNOWN" ->
               Invalidated([m EXCEPT !.unresolved = TRUE])
          [] p # "UNKNOWN" /\ m.valid /\ p = m.phase -> m
          [] p # "UNKNOWN" /\ ~(m.valid /\ p = m.phase)
             /\ Len(m.queue) = Capacity ->
               [Invalidated(m) EXCEPT !.unresolved = TRUE]
          [] OTHER ->
               [m EXCEPT !.epi = epi, !.extendable = extendable,
                         !.seen = @ \/ p = "INACTIVE",
                         !.unresolved = p # "INACTIVE",
                         !.consumed = @ /\ p # "INACTIVE",
                         !.valid = TRUE, !.phase = p,
                         !.queue = Append(@, [phase |-> p, epi |-> epi,
                                              att |-> ours])]

Admissible(m) == m.valid /\ m.phase = "AWAITING" /\ ~m.consumed

(* A new paddle edge uses the pending request up, admitted or not.           *)
Started(m) ==
    IF Admissible(m)
    THEN [m EXCEPT !.consumed = TRUE, !.attempt = TRUE, !.queue = <<>>,
                   !.cont = TRUE, !.epi = TRUE]
    ELSE m

Finished(m) == [m EXCEPT !.attempt = FALSE, !.cont = TRUE, !.epi = TRUE]

(* What the control loop is shown: the rest of m stays with the service.     *)
Snapshot(m) == [m EXCEPT !.seen = FALSE, !.extendable = FALSE, !.consumed = FALSE]

Taken(m) == [m EXCEPT !.queue = <<>>]
=============================================================================
