---------------------------- MODULE MCMomentary ----------------------------
(* Both sensors, both ways to take a press, with and without the rinse.      *)
EXTENDS Momentary

Build(sensor, onPress, rinse) ==
    [sensor |-> sensor, onPress |-> onPress, rinse |-> rinse]

SomeBuilds ==
    {Build("FLOW", FALSE, FALSE), Build("REED", TRUE, TRUE), Build("REED", FALSE, FALSE)}
ReedOnRelease == {Build("REED", FALSE, FALSE)}
=============================================================================
