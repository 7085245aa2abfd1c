----------------------------- MODULE LiveStream -----------------------------
(***************************************************************************)
(* Live streams of pvr.hts: one demuxer with its subscription              *)
(* (HTSPDemuxer.cpp, Subscription.cpp), which is all there is unless       *)
(* predictive tuning is on.                                                *)
(*                                                                         *)
(* Four threads work on it. Kodi's player opens, reads, seeks, pauses and  *)
(* closes the stream; another thread of Kodi may abort it; the connection  *)
(* thread applies what the server sends; and the Process thread subscribes *)
(* again after a reconnect. The mutex of the connection is held by all but *)
(* the connection thread from one of their waits to the next. What the     *)
(* connection thread does with packets, starts and statuses needs only the *)
(* mutex of the demuxer, which the others take for a moment; so it can     *)
(* fall between two steps of theirs (place "run").                         *)
(*                                                                         *)
(* The connection itself is modelled in HtspConnection. Here it is up or   *)
(* not, and a request is executed by the server when it is written: the    *)
(* delay is in net, the messages and responses on their way back. A stamp  *)
(* marks what a packet belongs to: it changes when a subscription starts   *)
(* and with every seek.                                                    *)
(***************************************************************************)
EXTENDS Naturals, Sequences, SequencesExt, Functions

CONSTANTS
  MaxCalls,   (* bound: calls that the player makes                        *)
  MaxLosses,  (* bound: how often the connection is lost                   *)
  MaxNet,     (* bound: messages of the server on their way                *)
  MaxBuffer,  (* bound: packets the server has sent and nobody has read    *)
  Calls,      (* which calls the player makes, a subset of CallKinds       *)
  Events      (* what else happens, a subset of EventKinds                 *)

CallKinds == {"open", "close", "seek", "speed", "fill", "flush"}
EventKinds == {"abort",   \* Kodi aborts the stream from another thread
               "refuse",  \* the server answers a request with an error
               "stall",   \* the player reads nothing for too long
               "timeout"} \* an answer that is on its way is not waited for

ASSUME BoundsAssumption ==
  /\ MaxCalls \in Nat /\ MaxLosses \in Nat /\ MaxNet \in Nat /\ MaxBuffer \in Nat
  /\ Calls \subseteq CallKinds /\ Events \subseteq EventKinds

VARIABLES
  link,       (* the connection: the socket and m_ready, see Links         *)
  losses,     (* how often it has been lost                                *)
  disturbed,  (* a thread was in the middle of something when it was lost  *)
  pending,    (* ~m_stateRebuilt: the next message makes Process rebuild   *)
  srv,        (* the server's subscriptions of this connection, by id      *)
  net,        (* what the server has sent and nobody has read              *)
  hand,       (* a message ProcessMessage has found the demuxer for        *)
  call,       (* what every thread is doing, see Idle                      *)
  calls,      (* how many calls the player has made                        *)
  clock,      (* the last stamp the server gave                            *)
  sub,        (* m_subscription: m_id, m_speed, and whether it is active   *)
  requested,  (* m_requestedSpeed                                          *)
  actual,     (* m_actualSpeed                                             *)
  seekp,      (* m_seektime                                                *)
  seekGot,    (* the SubscriptionSeekTime on the stack of Seek: its flag   *)
              (* and time, as the stamp of what is played from then on     *)
  streams,    (* m_streamStat: the subscription whose streams it lists     *)
  source,     (* m_sourceInfo: the subscription it describes               *)
  buf,        (* m_pktBuffer                                               *)
  fed,        (* m_lastPkt > 0                                             *)
  playing,    (* m_playingLiveStream                                       *)
  since,      (* the stamp of the position the player last jumped to       *)
  crashed     (* a null pointer has been dereferenced                      *)

linkVars == <<link, losses, disturbed, pending>>
srvVars == <<srv, net, clock>>
subVars == <<sub, requested, actual>>
dmxVars == <<seekp, seekGot, streams, source, buf, fed>>
kodiVars == <<calls, playing, since, crashed>>
vars == <<linkVars, srvVars, hand, call, subVars, dmxVars, kodiVars>>

Links == {"up",      \* registered: m_ready
          "lost",    \* m_ready still, but the socket is dead
          "down",    \* a new socket that is not connected yet
          "reg"}     \* connected and being registered, not m_ready
Threads == {"player", "process", "app"}

\* Speeds, in units of SPEED_NORMAL: paused, normal, and what fills a buffer.
Speeds == {0, 1, 4}

\* Requests that wait for m_ready (SendAndWait), and those that do not.
Gated == {"openUnsub", "openSub", "openUndo", "closeUnsub", "seekSend",
          "speedSend", "fillSend", "rebuildUnsub"}
Direct == {"rebuildSub", "rebuildSpeed"}
\* Places between two requests where a thread holds the mutex, or waits for it.
Between == {"openClear", "closeClear", "closeReset", "seekGet", "abortReset",
            "rebuildBegin"}

(***************************************************************************)
(* What a thread does: the step of its operation (op), whether it waits    *)
(* for m_ready ("gate"), for a response or a seek time ("wait"), for the   *)
(* mutex ("lock") or is running with it ("run"), the response it was       *)
(* given, and what its request says: a subscription and, maybe, a speed.     *)
(***************************************************************************)
Idle == [op |-> "none", at |-> "idle", res |-> "none", id |-> 0, arg |-> 1]
At(op, at) == [Idle EXCEPT !.op = op, !.at = at]

Locked == \E t \in Threads : call[t].at = "run"
Ready == link \in {"up", "lost"}
Alive == link \in {"up", "reg"}

None == [kind |-> "none", id |-> 0, val |-> 0]
Msg(kind, id, val) == [kind |-> kind, id |-> id, val |-> val]
MsgKinds == {"start", "status", "pkt", "skip", "speed"}
Messages == [kind : MsgKinds, id : Nat, val : Nat]
Response(t, res) == [kind |-> "resp", to |-> t, res |-> res]
Responses == [kind : {"resp"}, to : Threads, res : {"ok", "null"}]

TypeOK ==
  /\ link \in Links /\ losses \in 0..MaxLosses
  /\ disturbed \in BOOLEAN /\ pending \in BOOLEAN
  /\ DOMAIN srv \subseteq Nat
  /\ \A i \in DOMAIN srv : srv[i] \in [speed : Speeds, told : BOOLEAN, started : BOOLEAN,
                                       stamp : Nat, skips : Nat]
  /\ net \in Seq(Messages \cup Responses)
  /\ hand \in Messages \cup {None}
  /\ call \in [Threads -> [op : Gated \cup Direct \cup Between \cup {"none"},
                           at : {"idle", "gate", "wait", "lock", "run"},
                           res : {"none", "ok", "null"}, id : Nat, arg : Speeds]]
  /\ calls \in 0..MaxCalls /\ clock \in Nat
  /\ sub \in [id : Nat, speed : Speeds, active : BOOLEAN]
  /\ requested \in Speeds /\ actual \in Speeds
  /\ seekp \in {"null", "set", "dangling"}
  /\ seekGot \in [flag : BOOLEAN, time : Nat]
  /\ streams \in Nat /\ source \in Nat
  /\ buf \in Seq([id : Nat, stamp : Nat])
  /\ fed \in BOOLEAN /\ playing \in BOOLEAN /\ crashed \in BOOLEAN
  /\ since \in Nat

NoServer == [i \in {} |-> 0]

\* The add-on is connected and registered, and nothing has been played yet.
Init ==
  /\ link = "up" /\ losses = 0 /\ disturbed = FALSE /\ pending = FALSE
  /\ srv = NoServer /\ net = <<>> /\ hand = None /\ clock = 0
  /\ call = [t \in Threads |-> Idle] /\ calls = 0
  /\ sub = [id |-> 0, speed |-> 1, active |-> FALSE]
  /\ requested = 1 /\ actual = 1
  /\ seekp = "null" /\ seekGot = [flag |-> FALSE, time |-> 0]
  /\ streams = 0 /\ source = 0 /\ buf = <<>> /\ fed = FALSE
  /\ playing = FALSE /\ since = 0 /\ crashed = FALSE

-----------------------------------------------------------------------------
(***************************************************************************)
(* Requests.                                                               *)
(***************************************************************************)
Subscribes == {"openSub", "rebuildSub"}
Unsubscribes == {"openUnsub", "openUndo", "closeUnsub", "rebuildUnsub"}

\* What the server answers: it knows what is subscribed, and may refuse
\* anything but to end a subscription.
Answers(op, i) ==
  (IF op \in Subscribes \cup Unsubscribes \/ i \in DOMAIN srv THEN {"ok"} ELSE {"null"})
    \cup (IF "refuse" \in Events /\ op \notin Unsubscribes THEN {"null"} ELSE {})

\* The server executes a request of thread t. The response to it is sent at
\* once; the new position (skip) or speed is announced later.
Executes(t, op, i, arg) ==
  \E res \in Answers(op, i) :
    /\ net' = Append(net, Response(t, res))
    /\ CASE res = "null" -> UNCHANGED <<srv, clock>>
         [] res = "ok" /\ op \in Unsubscribes ->
              srv' = Restrict(srv, DOMAIN srv \ {i}) /\ UNCHANGED clock
         [] res = "ok" /\ op \in Subscribes ->
              /\ clock' = clock + 1
              /\ srv' = [j \in DOMAIN srv \cup {i} |-> IF j # i THEN srv[j] ELSE
                           [speed |-> 1, told |-> TRUE, started |-> FALSE,
                            stamp |-> clock + 1, skips |-> 0]]
         [] res = "ok" /\ op = "seekSend" ->
              srv' = [srv EXCEPT ![i].skips = @ + 1] /\ UNCHANGED clock
         [] OTHER ->
              /\ srv' = [srv EXCEPT ![i].speed = arg,
                                    ![i].told = @ /\ srv[i].speed = arg]
              /\ UNCHANGED clock

\* SendAndWait0: what is written to a dead connection reaches nobody.
Sends(t, op, i, arg) ==
  /\ call' = [call EXCEPT ![t] = [op |-> op, at |-> "wait", res |-> "none",
                                  id |-> i, arg |-> arg]]
  /\ IF Alive THEN Executes(t, op, i, arg) ELSE UNCHANGED srvVars

\* SendAndWait, or SendAndWait0, up to where it waits.
Ask(t, op, i, arg) ==
  IF op \in Direct \/ Ready
  THEN Sends(t, op, i, arg)
  ELSE /\ call' = [call EXCEPT ![t] = [op |-> op, at |-> "gate", res |-> "none",
                                       id |-> i, arg |-> arg]]
       /\ UNCHANGED srvVars

\* Disconnect, by either side: what was under way is gone.
Drop == /\ link' = IF Ready THEN "lost" ELSE "down"
        /\ net' = <<>> /\ srv' = NoServer

Goes(t, c) == call' = [call EXCEPT ![t] = c]

\* Thread t is to go on behind a request, or with what it does between two.
Continues(t, op) ==
  /\ call[t].op = op
  /\ \/ call[t].at = "run"
     \/ call[t].at = "wait" /\ call[t].res # "none" /\ ~Locked

GateOpens(t) ==
  /\ call[t].at = "gate" /\ Ready /\ ~Locked
  /\ Sends(t, call[t].op, call[t].id, call[t].arg)
  /\ UNCHANGED <<linkVars, hand, subVars, dmxVars, kodiVars>>

\* WaitForConnection runs out of time.
GateTimesOut(t) ==
  /\ call[t].at = "gate" /\ ~Ready /\ ~Locked
  /\ Goes(t, [call[t] EXCEPT !.at = "run", !.res = "null"])
  /\ disturbed' = TRUE
  /\ UNCHANGED <<link, losses, pending, srvVars, hand, subVars, dmxVars, kodiVars>>

AnswerComes(t) == \E k \in DOMAIN net : net[k].kind = "resp" /\ net[k].to = t

\* No response within the time: SendAndWait0 closes the connection, whichever
\* it is by then, and keeps the mutex.
GivesUp(t) ==
  /\ call[t].at = "wait" /\ call[t].op # "seekGet" /\ call[t].res = "none" /\ ~Locked
  /\ \/ ~AnswerComes(t) /\ UNCHANGED losses
     \/ /\ AnswerComes(t) /\ "timeout" \in Events
        /\ losses < MaxLosses /\ losses' = losses + 1
  /\ Goes(t, [call[t] EXCEPT !.at = "run", !.res = "null"])
  /\ Drop /\ disturbed' = TRUE
  /\ UNCHANGED <<pending, clock, hand, subVars, dmxVars, kodiVars>>

-----------------------------------------------------------------------------
(***************************************************************************)
(* Kodi's player.                                                          *)
(***************************************************************************)
Calling(kind) ==
  /\ kind \in Calls /\ calls < MaxCalls /\ calls' = calls + 1
  /\ call["player"].at = "idle"

\* (Mutant of Close0: the server is not told.)
Close0Silently(unsub, clear) ==
  /\ sub' = [sub EXCEPT !.active = FALSE]
  /\ buf' = <<>> /\ Goes("player", At(clear, "run")) /\ UNCHANGED srvVars

\* Close0, up to where it waits for the response or has flushed the buffer.
Close0(unsub, clear) ==
  IF sub.active
  THEN /\ sub' = [sub EXCEPT !.active = FALSE]
       /\ Ask("player", unsub, sub.id, 1) /\ UNCHANGED buf
  ELSE /\ buf' = <<>> /\ Goes("player", At(clear, "run")) /\ UNCHANGED <<sub, srvVars>>

Flushes(unsub, clear) ==
  /\ Continues("player", unsub)
  /\ buf' = <<>> /\ Goes("player", At(clear, "run"))
  /\ UNCHANGED <<linkVars, srvVars, hand, subVars, seekp, seekGot, streams, source, fed, kodiVars>>

Abort0 == streams' = 0 /\ seekp' = "null"

Open ==
  /\ Calling("open") /\ ~Locked
  /\ Close0("openUnsub", "openClear")
  /\ UNCHANGED <<linkVars, hand, requested, actual, seekp, seekGot, streams, source, fed,
                 playing, since, crashed>>

OpenFlushes == Flushes("openUnsub", "openClear")

OpenSubscribes ==
  /\ Continues("player", "openClear")
  /\ Abort0
  /\ sub' = [sub EXCEPT !.id = @ + 1, !.speed = 1]
  /\ Ask("player", "openSub", sub.id + 1, 1)
  /\ UNCHANGED <<linkVars, hand, requested, actual, seekGot, source, buf, fed, kodiVars>>

\* m_lastPkt is put back when Open fails, so only a success changes it.
OpenSubscribed ==
  /\ Continues("player", "openSub")
  /\ source' = 0
  /\ IF sub.active \/ call["player"].res = "ok"
     THEN /\ sub' = [sub EXCEPT !.active = TRUE]
          /\ fed' = FALSE /\ playing' = TRUE /\ since' = 0
          /\ Goes("player", Idle) /\ UNCHANGED srvVars
     ELSE /\ Ask("player", "openUndo", sub.id, 1)
          /\ UNCHANGED <<sub, fed, playing, since>>
  /\ UNCHANGED <<linkVars, hand, requested, actual, seekp, seekGot, streams, buf,
                 calls, crashed>>

OpenFails ==
  /\ Continues("player", "openUndo")
  /\ playing' = FALSE /\ Goes("player", Idle)
  /\ UNCHANGED <<linkVars, srvVars, hand, subVars, dmxVars, calls, since, crashed>>

Close ==
  /\ Calling("close") /\ ~Locked /\ playing
  /\ Close0("closeUnsub", "closeClear")
  /\ UNCHANGED <<linkVars, hand, requested, actual, seekp, seekGot, streams, source, fed,
                 playing, since, crashed>>

CloseFlushes == Flushes("closeUnsub", "closeClear")

CloseClears ==
  /\ Continues("player", "closeClear")
  /\ Abort0 /\ Goes("player", At("closeReset", "run"))
  /\ UNCHANGED <<linkVars, srvVars, hand, subVars, seekGot, source, buf, fed, kodiVars>>

\* ResetStatus, and the end of CloseLiveStream.
CloseResets ==
  /\ Continues("player", "closeReset")
  /\ source' = 0 /\ playing' = FALSE /\ Goes("player", Idle)
  /\ UNCHANGED <<linkVars, srvVars, hand, subVars, seekp, seekGot, streams, buf, fed,
                 calls, since, crashed>>

SendSeek == Ask("player", "seekSend", sub.id, 1)
Seek ==
  /\ Calling("seek") /\ ~Locked /\ playing /\ sub.active
  /\ seekp' = "set" /\ seekGot' = [flag |-> FALSE, time |-> 0]
  /\ SendSeek
  /\ UNCHANGED <<linkVars, hand, subVars, streams, source, buf, fed, playing, since, crashed>>

\* SendSeek has returned: when it failed, m_seektime still leads to the stack
\* frame that Seek leaves; when it did not, m_seektime is dereferenced.
SeekSent ==
  /\ Continues("player", "seekSend")
  /\ IF call["player"].res # "ok"
     THEN /\ seekp' = IF seekp = "set" THEN "dangling" ELSE seekp
          /\ Goes("player", Idle) /\ UNCHANGED crashed
     ELSE /\ Goes("player", At("seekGet", "wait"))
          /\ crashed' = (seekp = "null") /\ UNCHANGED seekp
  /\ UNCHANGED <<linkVars, srvVars, hand, subVars, seekGot, streams, source, buf, fed,
                 calls, playing, since>>

\* SubscriptionSeekTime::Get returns: with a time, or because it has run out
\* of time, be the answer still to come or not.
SeekReturns ==
  /\ call["player"].op = "seekGet" /\ ~Locked
  /\ seekp' = "null" /\ Goes("player", Idle)
  /\ IF seekGot.time = 0 THEN buf' = <<>> /\ UNCHANGED since
     ELSE since' = seekGot.time /\ UNCHANGED buf
  /\ UNCHANGED <<linkVars, srvVars, hand, subVars, seekGot, streams, source, fed,
                 calls, playing, crashed>>

\* The common part of Speed and FillBuffer: the server is asked only when it
\* has confirmed the speed before.
Changes(op, s, new) ==
  /\ IF new /\ actual = sub.speed
     THEN sub' = [sub EXCEPT !.speed = s] /\ Ask("player", op, sub.id, s) /\ UNCHANGED requested
     ELSE requested' = s /\ UNCHANGED <<sub, call, srvVars>>
  /\ UNCHANGED <<linkVars, hand, actual, seekp, seekGot, streams, source, buf,
                 playing, since, crashed>>

Speed ==
  /\ Calling("speed") /\ ~Locked /\ playing /\ sub.active
  /\ \E s \in {0, 1} : /\ fed' = (fed /\ s = 0)
                       /\ Changes("speedSend", s, s # requested \/ s = 0)

\* Whether a buffer is filled fast depends on how far behind live it is played,
\* as the last timeshiftStatus said: here it may be either.
FillBuffer ==
  /\ Calling("fill") /\ ~Locked /\ playing /\ sub.active /\ UNCHANGED fed
  /\ \E s \in {1, 4} : Changes("fillSend", s, s # requested)

SpeedSent ==
  /\ \E op \in {"speedSend", "fillSend"} : Continues("player", op)
  /\ requested' = call["player"].arg /\ Goes("player", Idle)
  /\ UNCHANGED <<linkVars, srvVars, hand, sub, actual, dmxVars, kodiVars>>

\* Flush and Read lock nothing but the buffer.
DemuxFlush ==
  /\ Calling("flush") /\ playing
  /\ buf' = <<>>
  /\ UNCHANGED <<linkVars, srvVars, hand, call, subVars, seekp, seekGot, streams, source, fed,
                 playing, since, crashed>>

Read ==
  /\ playing /\ call["player"].at = "idle"
  /\ buf # <<>> /\ buf' = Tail(buf) /\ fed' = TRUE
  /\ UNCHANGED <<linkVars, srvVars, hand, call, subVars, seekp, seekGot, streams, source, kodiVars>>

\* Read finds nothing for longer than the stream may stall.
ReadStalls ==
  /\ "stall" \in Events /\ losses < MaxLosses
  /\ playing /\ call["player"].at = "idle" /\ ~Locked
  /\ buf = <<>> /\ fed /\ ~(sub.active /\ sub.speed = 0)
  /\ fed' = FALSE /\ losses' = losses + 1 /\ Drop
  /\ disturbed' = (disturbed \/ \E t \in Threads : call[t].at # "idle")
  /\ UNCHANGED <<pending, clock, hand, call, subVars, seekp, seekGot, streams, source, buf,
                 kodiVars>>

\* Another thread of Kodi: DemuxAbort.
Abort ==
  /\ "abort" \in Events /\ calls < MaxCalls /\ calls' = calls + 1
  /\ playing /\ call["app"].at = "idle" /\ ~Locked
  /\ Abort0 /\ Goes("app", At("abortReset", "run"))
  /\ UNCHANGED <<linkVars, srvVars, hand, subVars, seekGot, source, buf, fed,
                 playing, since, crashed>>

AbortResets ==
  /\ Continues("app", "abortReset")
  /\ source' = 0 /\ Goes("app", Idle)
  /\ UNCHANGED <<linkVars, srvVars, hand, subVars, seekp, seekGot, streams, buf, fed, kodiVars>>

Player == \/ Open \/ OpenFlushes \/ OpenSubscribes \/ OpenSubscribed \/ OpenFails
          \/ Close \/ CloseFlushes \/ CloseClears \/ CloseResets
          \/ Seek \/ SeekSent \/ SeekReturns
          \/ Speed \/ FillBuffer \/ SpeedSent \/ DemuxFlush \/ Read \/ ReadStalls
App == Abort \/ AbortResets

-----------------------------------------------------------------------------
(***************************************************************************)
(* The Process thread: SyncInitCompleted calls RebuildState once for every *)
(* connection. Whether there is a subscription is tested without the lock. *)
(***************************************************************************)
RebuildState ==
  /\ pending /\ call["process"].at = "idle"
  /\ pending' = FALSE
  /\ IF sub.active THEN Goes("process", At("rebuildBegin", "lock")) ELSE UNCHANGED call
  /\ UNCHANGED <<link, losses, disturbed, srvVars, hand, subVars, dmxVars, kodiVars>>

RebuildUnsubscribes ==
  /\ call["process"].at = "lock" /\ ~Locked
  /\ sub' = [sub EXCEPT !.active = FALSE]
  /\ Ask("process", "rebuildUnsub", sub.id, 1)
  /\ UNCHANGED <<linkVars, hand, requested, actual, dmxVars, kodiVars>>

RebuildSubscribes ==
  /\ Continues("process", "rebuildUnsub")
  /\ Ask("process", "rebuildSub", sub.id, 1)
  /\ UNCHANGED <<linkVars, hand, subVars, dmxVars, kodiVars>>

RebuildSetsSpeed ==
  /\ Continues("process", "rebuildSub")
  /\ sub' = [sub EXCEPT !.active = @ \/ call["process"].res = "ok"]
  /\ Ask("process", "rebuildSpeed", sub.id, sub.speed)
  /\ UNCHANGED <<linkVars, hand, requested, actual, dmxVars, kodiVars>>

\* ResetStatus(false) keeps the source information.
RebuildEnds ==
  /\ Continues("process", "rebuildSpeed")
  /\ Goes("process", Idle)
  /\ UNCHANGED <<linkVars, srvVars, hand, subVars, dmxVars, kodiVars>>

Process == \/ RebuildState \/ RebuildUnsubscribes \/ RebuildSubscribes
           \/ RebuildSetsSpeed \/ RebuildEnds
-----------------------------------------------------------------------------
(***************************************************************************)
(* The connection thread: ReadMessage hands a response to the thread that  *)
(* waits for it, and a message to the demuxer if it names the current      *)
(* subscription. What it says is applied in a step of its own.             *)
(***************************************************************************)
Answered(r) == IF call[r.to].at = "wait" THEN [call EXCEPT ![r.to].res = r.res] ELSE call

ReadMessage ==
  /\ hand = None /\ Alive /\ net # <<>>
  /\ net' = Tail(net)
  /\ LET m == Head(net) IN
     IF m.kind = "resp"
     THEN ~Locked /\ call' = Answered(m) /\ UNCHANGED hand
     ELSE hand' = (IF m.id = sub.id THEN m ELSE None) /\ UNCHANGED call
  /\ UNCHANGED <<linkVars, srv, clock, subVars, dmxVars, kodiVars>>

Handling(kind) == hand.kind = kind /\ hand' = None

ParseSubscriptionStart ==
  /\ Handling("start")
  /\ streams' = hand.id /\ source' = hand.id
  /\ UNCHANGED <<linkVars, srvVars, call, subVars, seekp, seekGot, buf, fed, kodiVars>>

\* Every status, good or bad, leaves a state other than SUBSCRIPTION_STOPPED.
ParseSubscriptionStatus ==
  /\ Handling("status")
  /\ sub' = [sub EXCEPT !.active = TRUE]
  /\ UNCHANGED <<linkVars, srvVars, call, requested, actual, dmxVars, kodiVars>>

Ignored == ~sub.active \/ streams = 0 \/ seekp # "null"

ParseMuxPacket ==
  /\ Handling("pkt")
  /\ buf' = IF Ignored THEN buf ELSE Append(buf, [id |-> hand.id, stamp |-> hand.val])
  /\ UNCHANGED <<linkVars, srvVars, call, subVars, seekp, seekGot, streams, source, fed, kodiVars>>

\* (Mutant of ParseSubscriptionSkip: the buffer keeps the packets before the seek.)
ParseSubscriptionSkipOnly ==
  /\ Handling("skip") /\ ~Locked
  /\ seekGot' = IF seekp = "set" THEN [flag |-> TRUE, time |-> hand.val] ELSE seekGot
  /\ UNCHANGED <<linkVars, srvVars, call, subVars, seekp, streams, source, buf, fed, kodiVars>>

\* A dangling m_seektime is written through all the same: to memory nothing
\* here speaks of.
ParseSubscriptionSkip ==
  /\ Handling("skip") /\ ~Locked
  /\ seekGot' = IF seekp = "set" THEN [flag |-> TRUE, time |-> hand.val] ELSE seekGot
  /\ buf' = IF seekp # "null" /\ hand.val # 0 THEN <<>> ELSE buf
  /\ UNCHANGED <<linkVars, srvVars, call, subVars, seekp, streams, source, fed, kodiVars>>

\* (Mutant of ParseSubscriptionSpeed: the unit is converted twice.)
ParseSubscriptionSpeedScaled ==
  /\ Handling("speed") /\ ~Locked
  /\ actual' = hand.val * 10
  /\ UNCHANGED <<linkVars, srvVars, call, sub, requested, dmxVars, kodiVars>>
ParseSubscriptionSpeed ==
  /\ Handling("speed") /\ ~Locked
  /\ actual' = hand.val
  /\ UNCHANGED <<linkVars, srvVars, call, sub, requested, dmxVars, kodiVars>>

\* The connection breaks.
Loses ==
  /\ Alive /\ losses < MaxLosses
  /\ losses' = losses + 1 /\ Drop
  /\ disturbed' = (disturbed \/ \E t \in Threads : call[t].at # "idle")
  /\ UNCHANGED <<pending, clock, hand, call, subVars, dmxVars, kodiVars>>

\* The loop of the connection thread: m_ready is reset with the new socket;
\* Connected, called once the server has accepted hello and authenticate,
\* resets m_stateRebuilt; and the registration ends.
Recreates ==
  /\ link = "lost" /\ hand = None /\ ~Locked
  /\ link' = "down"
  /\ UNCHANGED <<losses, disturbed, pending, srvVars, hand, call, subVars, dmxVars, kodiVars>>
\* (Mutant of Connected: m_stateRebuilt is not reset.)
ConnectedOnly ==
  /\ link = "down" /\ hand = None /\ ~Locked
  /\ link' = "reg"
  /\ UNCHANGED <<losses, disturbed, pending, srvVars, hand, call, subVars, dmxVars, kodiVars>>
Connected ==
  /\ link = "down" /\ hand = None /\ ~Locked
  /\ link' = "reg" /\ pending' = TRUE
  /\ UNCHANGED <<losses, disturbed, srvVars, hand, call, subVars, dmxVars, kodiVars>>
Registered ==
  /\ link = "reg" /\ ~Locked
  /\ link' = "up"
  /\ UNCHANGED <<losses, disturbed, pending, srvVars, hand, call, subVars, dmxVars, kodiVars>>

Handlers == \/ ParseSubscriptionStart \/ ParseSubscriptionStatus \/ ParseMuxPacket
            \/ ParseSubscriptionSkip \/ ParseSubscriptionSpeed
Connection == ReadMessage \/ Handlers \/ Recreates \/ Connected \/ Registered

-----------------------------------------------------------------------------
(***************************************************************************)
(* The server, as far as src/ relies on it: a subscription starts once and *)
(* then sends packets unless it is paused; it may report a status at any   *)
(* time, and confirms every seek and every change of speed.                *)
(***************************************************************************)
Says(m) == /\ Len(net) < MaxNet /\ net' = Append(net, m)
           /\ UNCHANGED <<linkVars, hand, call, subVars, dmxVars, kodiVars>>

ServerStarts(i) == /\ ~srv[i].started /\ srv' = [srv EXCEPT ![i].started = TRUE]
                   /\ Says(Msg("start", i, 0)) /\ UNCHANGED clock
ServerReports(i) == /\ Msg("status", i, 0) \notin Range(net)
                    /\ Says(Msg("status", i, 0)) /\ UNCHANGED <<srv, clock>>
ServerStreams(i) ==
  /\ srv[i].started /\ srv[i].speed # 0
  /\ Len(buf) + Len(SelectSeq(net, LAMBDA m : m.kind = "pkt")) < MaxBuffer
  /\ Says(Msg("pkt", i, srv[i].stamp)) /\ UNCHANGED <<srv, clock>>
ServerSkips(i) ==
  /\ srv[i].skips > 0
  /\ \/ /\ clock' = clock + 1 /\ Says(Msg("skip", i, clock + 1))
        /\ srv' = [srv EXCEPT ![i].skips = @ - 1, ![i].stamp = clock + 1]
     \/ /\ "refuse" \in Events /\ Says(Msg("skip", i, 0))
        /\ srv' = [srv EXCEPT ![i].skips = @ - 1] /\ UNCHANGED clock
ServerSetsSpeed(i) == /\ ~srv[i].told /\ srv' = [srv EXCEPT ![i].told = TRUE]
                      /\ Says(Msg("speed", i, srv[i].speed)) /\ UNCHANGED clock

Server == \E i \in DOMAIN srv :
            ServerStarts(i) \/ ServerReports(i) \/ ServerStreams(i)
              \/ ServerSkips(i) \/ ServerSetsSpeed(i)

Requests == \E t \in Threads : GateOpens(t) \/ GateTimesOut(t) \/ GivesUp(t)

\* A program that has dereferenced a null pointer does nothing any more.
Next == ~crashed /\ (Requests \/ Player \/ App \/ Process \/ Connection \/ Loses \/ Server)

(***************************************************************************)
(* Every thread is scheduled, and gets the mutex: the calls are bounded,   *)
(* so from some point on nobody else takes it. The connection thread       *)
(* reconnects and the server answers; what Kodi calls is its own choice.   *)
(***************************************************************************)
Fairness ==
  /\ WF_vars(~crashed /\ Requests)
  /\ WF_vars(~crashed /\ Process)
  /\ WF_vars(~crashed /\ Connection)
  /\ WF_vars(~crashed /\ App)
  /\ WF_vars(~crashed /\ (OpenFlushes \/ OpenSubscribes \/ OpenSubscribed \/ OpenFails
               \/ CloseFlushes \/ CloseClears \/ CloseResets
               \/ SeekSent \/ SeekReturns \/ SpeedSent))

Spec == Init /\ [][Next]_vars /\ Fairness

-----------------------------------------------------------------------------
(***************************************************************************)
(* Properties.                                                             *)
(***************************************************************************)
Settled == /\ link = "up" /\ ~pending /\ net = <<>> /\ hand = None
           /\ \A t \in Threads : call[t].at = "idle"
           /\ \A i \in DOMAIN srv : srv[i].told /\ srv[i].skips = 0

\* What the player reads once Open or Seek has succeeded belongs to the
\* channel and the position it asked for: Close0, Flush, the tests of
\* ParseMuxPacket and the flush of ParseSubscriptionSkip together keep out
\* what was sent before.
NoStalePackets ==
  losses = 0 /\ playing /\ call["player"].at = "idle" =>
    \A k \in DOMAIN buf : buf[k].id = sub.id /\ buf[k].stamp >= since

\* Every open is matched by a close: until the connection is lost, the server
\* has no subscription but the one that is played (Open closes the one before,
\* and takes back the one that fails).
NoOrphans ==
  losses = 0 /\ Settled => DOMAIN srv \subseteq (IF playing THEN {sub.id} ELSE {})

\* A stream that is played when the connection breaks, with no request under
\* way, comes back on the connection that follows (RebuildState): subscribed,
\* and at the speed it had.
Restored == sub.active /\ sub.id \in DOMAIN srv /\ srv[sub.id].speed = sub.speed
ComesBack == <>[](playing /\ ~disturbed /\ ~crashed => Restored)

=============================================================================
