---------------------------- MODULE MCAsyncSync -----------------------------
(***************************************************************************)
(* AsyncSync on a small instance: a tag and a channel, a recording and a   *)
(* programme, and a second channel the server may have.                    *)
(***************************************************************************)
EXTENDS AsyncSync

TheTags == {"t1"}
OneChannel == {"c1"}
TwoChannels == {"c1", "c2"}
TheRecordings == {"r1"}
TheProgrammes == {"p1"}
=============================================================================
