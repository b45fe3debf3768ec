-------------------------------- MODULE MCPs2 --------------------------------
(* What the user does in the runs of Ps2.                                   *)
EXTENDS Ps2

Tap == <<"make", "break">>
Hold == <<"make", "make", "make", "make", "make", "break">>
Untranslated == <<"make", "other">>
Arrow == <<"E0", "make", "E0", "break">>
Pause == <<"E1", "make", "make", "E1", "break", "break">>

AllKeys == {Tap, Untranslated, Arrow, Pause}
HeldKeys == {Tap, Hold}
===============================================================================
