------------------------------ MODULE MCTimers ------------------------------
(* Timers with a rule and its timer at first. *)
EXTENDS Timers

\* For ever.
TheLifetimes == {-1}
\* Any time; a time whose window begins before midnight; a start only.
TheSlots == {<<AnyTime, AnyTime>>, <<0, 3>>, <<5, AnyTime>>}
=============================================================================
