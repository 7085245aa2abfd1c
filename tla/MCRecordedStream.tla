-------------------------- MODULE MCRecordedStream --------------------------
(* RecordedStream with two clients. *)
EXTENDS RecordedStream

TwoClients == {1, 2}
First == {1}
=============================================================================
