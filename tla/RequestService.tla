--------------------------- MODULE RequestService ---------------------------
(***************************************************************************)
(* What the HTSP connection promises the threads that call it: each caller *)
(* has at most one call under way, and the call goes through stages.       *)
(***************************************************************************)
CONSTANT Callers      \* the threads that make requests

VARIABLE stage        \* the stage of each caller's call

Stages == {"idle",       \* no call
           "queued",     \* waiting for the connection to be registered
           "submitted",  \* written to the connection, not executed yet
           "executed",   \* the server's answer is on its way to the caller
           "lost",       \* no answer will come any more
           "answered",   \* the caller has been given the answer
           "failed"}     \* the caller has been given nothing

(***************************************************************************)
(* A request may be executed by the server and yet be lost, but a request  *)
(* is executed at most once, nobody is given an answer to a request that   *)
(* was not executed, and a lost request can only fail.                     *)
(***************************************************************************)
Moves ==
  {<<"idle", "queued">>, <<"idle", "submitted">>, <<"idle", "lost">>, <<"idle", "failed">>,
   <<"queued", "submitted">>, <<"queued", "lost">>, <<"queued", "failed">>,
   <<"submitted", "executed">>, <<"submitted", "lost">>, <<"submitted", "failed">>,
   <<"executed", "lost">>, <<"executed", "answered">>, <<"executed", "failed">>,
   <<"lost", "failed">>,
   <<"answered", "idle">>, <<"failed", "idle">>}

Init == stage = [c \in Callers |-> "idle"]

\* One connection serves all callers: when it breaks, several calls are lost.
Next == /\ stage' \in [Callers -> Stages]
        /\ \A c \in Callers : stage'[c] # stage[c] => <<stage[c], stage'[c]>> \in Moves

Spec == Init /\ [][Next]_stage
=============================================================================
