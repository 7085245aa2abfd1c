---------------------------- MODULE StartWindows ----------------------------
(***************************************************************************)
(* Times of the day as recurring timers send them to the server and show   *)
(* them again: AutoRecordings.cpp, AutoRecording.cpp, TimeRecording.cpp    *)
(* and SeriesRecordingBase.cpp. A time is a number of minutes since        *)
(* midnight, or AnyTime; Day stands for 24 * 60.                           *)
(***************************************************************************)
EXTENDS Integers

CONSTANTS
  Day,      (* minutes of a day                                            *)
  MaxDiff   (* the setting autorec_maxdiff                                 *)

ASSUME WindowsAssumption == Day \in Nat \ {0} /\ MaxDiff \in Nat /\ 2 * MaxDiff < Day

AnyTime == -1
Minutes == 0..(Day - 1)

\* What a rule that is not sent as approximate gives for "any time": 25 * 60.
NoTime == Day + 1

\* The window that is sent for the approximate start time t.
\* (Mutant of Approximate: a window that begins before midnight is left so.)
ApproximateNoDay(t) ==
  IF t = AnyTime THEN <<AnyTime, AnyTime>>
  ELSE <<t - MaxDiff, IF t + MaxDiff > Day THEN t + MaxDiff - Day ELSE t + MaxDiff>>
Approximate(t) ==
  IF t = AnyTime THEN <<AnyTime, AnyTime>>
  ELSE <<IF t - MaxDiff < 0 THEN t - MaxDiff + Day ELSE t - MaxDiff,
         IF t + MaxDiff > Day THEN t + MaxDiff - Day ELSE t + MaxDiff>>

\* The window that is sent for the start and the stop time t.
Exact(t, stop) == <<IF t = AnyTime THEN NoTime ELSE t, IF stop = AnyTime THEN NoTime ELSE stop>>

\* The time of the day that is t minutes after midnight of the first of two days.
WithinDay(t) == IF t > Day THEN t - Day ELSE t

\* The start time that is shown for the window from b to e.
ShownStart(approx, b, e) ==
  IF ~approx THEN b
  ELSE IF b = AnyTime \/ e = AnyTime THEN AnyTime
  ELSE IF e < b THEN WithinDay(b + (e + Day - b) \div 2)
  ELSE b + (e - b) \div 2

ShownStop(approx, e) == IF approx THEN AnyTime ELSE e
=============================================================================
