---------------------------- MODULE MCRelaySafety ----------------------------
(***************************************************************************)
(* Instance of RelaySafety for TLC: a 60 s cap of 2 ticks, a 180 s cap of   *)
(* 4, so that the operational limit may be below, at and (0) outside the    *)
(* range the driver accepts.                                                *)
(***************************************************************************)
EXTENDS RelaySafety

MCHardMax == 2
MCBackflushMax == 4
MCCloseLimits == {0, 1, 2}
=============================================================================
