----------------------------- MODULE MCBuzzer -----------------------------
(* A beep of two tones, a pulse train, a pulse with notes, an alert of high
   priority, and the melody.                                               *)
EXTENDS Buzzer

Tone(gap) == [tone |-> TRUE, gap |-> gap]
Rest == [tone |-> FALSE, gap |-> FALSE]
Sound(alarm, loop, rtttl, notes) ==
    [alarm |-> alarm, loop |-> loop, rtttl |-> rtttl, notes |-> notes]
SomeSounds ==
    [s \in {"double", "train", "pulse", "lost", "melody"} |->
       CASE s = "double" -> Sound(FALSE, FALSE, FALSE, <<Tone(TRUE), Tone(TRUE)>>)
         [] s = "train"  -> Sound(FALSE, TRUE, FALSE, <<Tone(TRUE)>>)
         [] s = "pulse"  -> Sound(FALSE, TRUE, TRUE, <<Tone(FALSE), Rest>>)
         [] s = "lost"   -> Sound(TRUE, FALSE, TRUE, <<Tone(FALSE), Rest, Tone(FALSE)>>)
         [] s = "melody" -> Sound(TRUE, FALSE, TRUE, <<Tone(TRUE), Tone(FALSE)>>)]
=============================================================================
