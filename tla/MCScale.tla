------------------------------ MODULE MCScale ------------------------------
EXTENDS ScaleCommands
OneBeep == {"brew"}
MCBounds == {[cycles |-> 2, generations |-> 1, queue |-> 2], [cycles |-> 1, generations |-> 2, queue |-> 1]}
=============================================================================
