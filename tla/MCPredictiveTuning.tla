------------------------- MODULE MCPredictiveTuning -------------------------
(* PredictiveTuning with two channels at first, and a third later. *)
EXTENDS PredictiveTuning

TheChannels == 1..3
TheNumbers == 1..2
TheList == <<1, 2>>
=============================================================================
