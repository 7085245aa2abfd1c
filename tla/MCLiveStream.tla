---------------------------- MODULE MCLiveStream ----------------------------
(* Instances of LiveStream for TLC. *)
EXTENDS LiveStream

AllCalls == {"open", "close", "seek", "speed", "fill", "flush"}
=============================================================================
