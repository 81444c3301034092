------------------------------- MODULE MCBrew -------------------------------
EXTENDS Brew

Web == {"NONE", "STOP", "REMOTE_OFF", "REMOTE_ON", "RINSE", "LEASE", "RESTART",
        "RESET_SAMPLES"}

Brewing(mode, noScale, cup) ==
    [mode |-> mode, rinse |-> TRUE, rinseArmed |-> FALSE, noScale |-> noScale,
     cupGuard |-> cup, timerOnly |-> FALSE, cleaning |-> FALSE,
     paired |-> TRUE, faults |-> Faults, commands |-> Web]

(* Cleaning without a scale, a rinse or a web client; a close or a promotion  *)
(* may be refused.                                                           *)
CleaningOnly ==
    [Brewing("NATURAL", "OFF", FALSE) EXCEPT
        !.rinse = FALSE, !.cleaning = TRUE, !.timerOnly = TRUE,
        !.paired = FALSE, !.faults = {"relay"}, !.commands = {"NONE"}]

BrewConfigs == {Brewing("NATURAL", "ONCE", FALSE), Brewing("ORIGINAL", "REQUIRE", FALSE),
                Brewing("AUTO", "OFF", TRUE), CleaningOnly}

Timed == {[Brewing("NATURAL", "ONCE", FALSE) EXCEPT
            !.commands = {"NONE"}, !.faults = {}]}

CleaningConfigs == {CleaningOnly}
=============================================================================
