----------------------------- MODULE MCTracker ------------------------------
(* Small instances of Tracker. *)
EXTENDS Tracker

\* A caller of the library may change them at every frame.
ChangingTargets == {<<>>, <<"door">>, <<"desk">>, <<"door", "desk">>}

\* shorter silences when more sources are tracked
Silences == [n \in Slots |-> IF n = 1 THEN 2 ELSE 1]
=============================================================================
