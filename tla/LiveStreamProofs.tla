-------------------------- MODULE LiveStreamProofs --------------------------
(***************************************************************************)
(* Proofs about LiveStream, for any number of calls, losses and messages,  *)
(* and whatever Kodi, the server and the connection do.                    *)
(***************************************************************************)
EXTENDS LiveStream, TLAPS

-----------------------------------------------------------------------------
(***************************************************************************)
(* Types.                                                                  *)
(***************************************************************************)
\* A call, and a subscription at the server.
CallRecords == [op : Gated \cup Direct \cup Between \cup {"none"},
                at : {"idle", "gate", "wait", "lock", "run"},
                res : {"none", "ok", "null"}, id : Nat, arg : Speeds]
ServerRecords == [speed : Speeds, told : BOOLEAN, started : BOOLEAN, stamp : Nat, skips : Nat]

\* What the server has, and what it has sent: a speed that it confirms is one
\* that it was asked for.
ServerTypes ==
  /\ DOMAIN srv \subseteq Nat
  /\ \A i \in DOMAIN srv : srv[i] \in ServerRecords
  /\ net \in Seq(Messages \cup Responses)
  /\ \A k \in DOMAIN net : net[k].kind = "speed" => net[k].val \in Speeds
  /\ clock \in Nat

\* The message that is being handled.
HandTypes == hand \in Messages \cup {None} /\ (hand.kind = "speed" => hand.val \in Speeds)
\* The calls of the threads.
CallTypes == call \in [Threads -> CallRecords]
\* The connection.
LinkTypes == /\ link \in Links /\ losses \in 0..MaxLosses
             /\ disturbed \in BOOLEAN /\ pending \in BOOLEAN
\* The subscription, and the speeds that were asked for and confirmed.
SubTypes == /\ sub \in [id : Nat, speed : Speeds, active : BOOLEAN]
            /\ requested \in Speeds /\ actual \in Speeds
\* The rest of the demuxer.
DemuxTypes == /\ seekp \in {"null", "set", "dangling"}
              /\ seekGot \in [flag : BOOLEAN, time : Nat]
              /\ streams \in Nat /\ source \in Nat
              /\ buf \in Seq([id : Nat, stamp : Nat]) /\ fed \in BOOLEAN
\* What Kodi does and sees.
KodiTypes == /\ calls \in 0..MaxCalls /\ playing \in BOOLEAN
             /\ crashed \in BOOLEAN /\ since \in Nat

\* TypeOK with what is needed to keep it.
TypeInv == LinkTypes /\ ServerTypes /\ HandTypes /\ CallTypes /\ SubTypes /\ DemuxTypes /\ KodiTypes

\* The types that TypeOK names are among them.
LEMMA TypeInvImplies == TypeInv => TypeOK
  BY DEF TypeInv, TypeOK, LinkTypes, ServerTypes, HandTypes, CallTypes, SubTypes, DemuxTypes,
         KodiTypes, CallRecords, ServerRecords

\* The initial state.
LEMMA InitTypes == Init => TypeInv
  <1> SUFFICES ASSUME Init PROVE TypeInv
    OBVIOUS
  <1>1. CallTypes
    BY DEF Init, CallTypes, CallRecords, Idle, Speeds
  <1>2. ServerTypes /\ HandTypes
    BY DEF Init, ServerTypes, HandTypes, NoServer, None
  <1>3. LinkTypes
    <2>1. link = "up" /\ losses = 0 /\ disturbed = FALSE /\ pending = FALSE
      BY DEF Init
    <2>2. 0 \in 0..MaxLosses
      BY BoundsAssumption
    <2> QED BY <2>1, <2>2, Zenon DEF LinkTypes, Links
  <1>4. SubTypes
    BY DEF Init, SubTypes, Speeds
  <1>5. DemuxTypes
    <2>1. /\ seekp = "null" /\ seekGot = [flag |-> FALSE, time |-> 0]
          /\ streams = 0 /\ source = 0 /\ buf = <<>> /\ fed = FALSE
      BY DEF Init
    <2>2. <<>> \in Seq([id : Nat, stamp : Nat]) /\ 0 \in Nat
      OBVIOUS
    <2>3. [flag |-> FALSE, time |-> 0] \in [flag : BOOLEAN, time : Nat]
      OBVIOUS
    <2> QED BY <2>1, <2>2, <2>3, Zenon DEF DemuxTypes
  <1>6. KodiTypes
    <2>1. calls = 0 /\ playing = FALSE /\ since = 0 /\ crashed = FALSE
      BY DEF Init
    <2>2. 0 \in 0..MaxCalls /\ 0 \in Nat
      BY BoundsAssumption
    <2> QED BY <2>1, <2>2, Zenon DEF KodiTypes
  <1> QED BY <1>1, <1>2, <1>3, <1>4, <1>5, <1>6 DEF TypeInv

\* A message that is added to what the server has sent.
LEMMA SentOnTypes ==
  ASSUME ServerTypes, NEW m \in Messages \cup Responses,
         m.kind = "speed" => m.val \in Speeds
  PROVE  /\ Append(net, m) \in Seq(Messages \cup Responses)
         /\ \A k \in DOMAIN Append(net, m) :
              Append(net, m)[k].kind = "speed" => Append(net, m)[k].val \in Speeds
  BY DEF ServerTypes

\* What Response makes is a response.
LEMMA ResponseTypes ==
  ASSUME NEW t \in Threads, NEW res \in {"ok", "null"}
  PROVE  Response(t, res) \in Responses /\ Response(t, res).kind = "resp"
  BY DEF Response, Responses

\* What Msg makes is a message.
LEMMA MessageTypes ==
  ASSUME NEW kind \in MsgKinds, NEW id \in Nat, NEW val \in Nat
  PROVE  /\ Msg(kind, id, val) \in Messages
         /\ Msg(kind, id, val).kind = kind /\ Msg(kind, id, val).id = id
         /\ Msg(kind, id, val).val = val
  BY DEF Msg, Messages

\* What a request with the result res does to what the server has, by its kind.
Executed(res, op, i, arg) ==
  \/ res = "null" /\ op \notin Unsubscribes /\ UNCHANGED <<srv, clock>>
  \/ /\ op \in Unsubscribes /\ clock' = clock
     /\ srv' = [j \in DOMAIN srv \ {i} |-> srv[j]]
  \/ /\ op \in Subscribes /\ clock' = clock + 1
     /\ srv' = [j \in DOMAIN srv \cup {i} |-> IF j # i THEN srv[j] ELSE
                  [speed |-> 1, told |-> TRUE, started |-> FALSE, stamp |-> clock + 1, skips |-> 0]]
  \/ op = "seekSend" /\ clock' = clock /\ srv' = [srv EXCEPT ![i].skips = @ + 1]
  \/ /\ op \notin Subscribes \cup Unsubscribes /\ clock' = clock
     /\ srv' = [srv EXCEPT ![i].speed = arg, ![i].told = @ /\ srv[i].speed = arg]

\* The server executes a request with one of two answers.
LEMMA ExecutesCases ==
  ASSUME NEW t \in Threads, NEW op, NEW i \in Nat, NEW arg \in Speeds, Executes(t, op, i, arg)
  PROVE  \E res \in {"ok", "null"} :
           net' = Append(net, Response(t, res)) /\ Executed(res, op, i, arg)
  <1>1. PICK res \in Answers(op, i) :
          /\ net' = Append(net, Response(t, res))
          /\ CASE res = "null" -> UNCHANGED <<srv, clock>>
               [] res = "ok" /\ op \in Unsubscribes ->
                    srv' = Restrict(srv, DOMAIN srv \ {i}) /\ UNCHANGED clock
               [] res = "ok" /\ op \in Subscribes ->
                    /\ clock' = clock + 1
                    /\ srv' = [j \in DOMAIN srv \cup {i} |-> IF j # i THEN srv[j] ELSE
                                 [speed |-> 1, told |-> TRUE, started |-> FALSE,
                                  stamp |-> clock + 1, skips |-> 0]]
               [] res = "ok" /\ op = "seekSend" ->
                    srv' = [srv EXCEPT ![i].skips = @ + 1] /\ UNCHANGED clock
               [] OTHER ->
                    /\ srv' = [srv EXCEPT ![i].speed = arg,
                                          ![i].told = @ /\ srv[i].speed = arg]
                    /\ UNCHANGED clock
    BY DEF Executes
  <1>2. res \in {"ok", "null"} /\ (op \in Unsubscribes => res = "ok")
    BY DEF Answers, Subscribes, Unsubscribes
  <1>3. CASE res = "null"
    BY <1>1, <1>2, <1>3 DEF Executed
  <1>4. CASE res = "ok" /\ op \in Unsubscribes
    <2>1. srv' = Restrict(srv, DOMAIN srv \ {i}) /\ clock' = clock
      BY <1>1, <1>4 DEF Subscribes, Unsubscribes
    <2>2. srv' = [j \in DOMAIN srv \ {i} |-> srv[j]]
      BY <2>1 DEF Restrict
    <2> QED BY <1>1, <1>2, <1>4, <2>1, <2>2 DEF Executed
  <1>5. CASE res = "ok" /\ op \in Subscribes
    <2>1. op \notin Unsubscribes /\ op # "seekSend"
      BY <1>5 DEF Subscribes, Unsubscribes
    <2>2. /\ clock' = clock + 1
          /\ srv' = [j \in DOMAIN srv \cup {i} |-> IF j # i THEN srv[j] ELSE
                       [speed |-> 1, told |-> TRUE, started |-> FALSE,
                        stamp |-> clock + 1, skips |-> 0]]
      BY <1>1, <1>5, <2>1
    <2> QED BY <1>1, <1>2, <1>5, <2>2 DEF Executed
  <1>6. CASE res = "ok" /\ op = "seekSend"
    <2>1. srv' = [srv EXCEPT ![i].skips = @ + 1] /\ clock' = clock
      BY <1>1, <1>6 DEF Subscribes, Unsubscribes
    <2> QED BY <1>1, <1>2, <1>6, <2>1 DEF Executed
  <1>7. CASE res = "ok" /\ op \notin Subscribes \cup Unsubscribes /\ op # "seekSend"
    <2>1. /\ srv' = [srv EXCEPT ![i].speed = arg, ![i].told = @ /\ srv[i].speed = arg]
          /\ clock' = clock
      BY <1>1, <1>7
    <2> QED BY <1>1, <1>2, <1>7, <2>1 DEF Executed
  <1> QED BY <1>2, <1>3, <1>4, <1>5, <1>6, <1>7

\* Executing a request.
LEMMA ExecutesTypes ==
  ASSUME ServerTypes, NEW t \in Threads, NEW op, NEW i \in Nat, NEW arg \in Speeds,
         Executes(t, op, i, arg)
  PROVE  ServerTypes'
  <1>1. PICK res \in {"ok", "null"} :
          net' = Append(net, Response(t, res)) /\ Executed(res, op, i, arg)
    BY ExecutesCases
  <1>2. /\ net' \in Seq(Messages \cup Responses)
        /\ \A k \in DOMAIN net' : net'[k].kind = "speed" => net'[k].val \in Speeds
    BY <1>1, SentOnTypes, ResponseTypes
  <1>3. DOMAIN srv' \subseteq Nat /\ clock' \in Nat
        /\ \A j \in DOMAIN srv' : srv'[j] \in ServerRecords
    <2>1. CASE UNCHANGED <<srv, clock>>
      BY <2>1 DEF ServerTypes
    <2>2. CASE clock' = clock /\ srv' = [j \in DOMAIN srv \ {i} |-> srv[j]]
      BY <2>2 DEF ServerTypes
    <2>3. CASE /\ clock' = clock + 1
               /\ srv' = [j \in DOMAIN srv \cup {i} |-> IF j # i THEN srv[j] ELSE
                            [speed |-> 1, told |-> TRUE, started |-> FALSE,
                             stamp |-> clock + 1, skips |-> 0]]
      <3>1. [speed |-> 1, told |-> TRUE, started |-> FALSE, stamp |-> clock + 1, skips |-> 0]
              \in ServerRecords
        BY DEF ServerTypes, ServerRecords, Speeds
      <3> QED BY <2>3, <3>1 DEF ServerTypes
    <2>4. CASE clock' = clock /\ srv' = [srv EXCEPT ![i].skips = @ + 1]
      <3>1. ASSUME NEW j \in DOMAIN srv' PROVE srv'[j] \in ServerRecords
        <4>1. j \in DOMAIN srv /\ srv[j] \in ServerRecords
          BY <2>4 DEF ServerTypes
        <4>2. CASE j # i
          BY <2>4, <4>1, <4>2
        <4>3. CASE j = i
          <5>1. srv'[j] = [srv[j] EXCEPT !.skips = @ + 1]
            BY <2>4, <4>1, <4>3
          <5> QED BY <4>1, <5>1 DEF ServerRecords
        <4> QED BY <4>2, <4>3
      <3> QED BY <2>4, <3>1 DEF ServerTypes
    <2>5. CASE /\ clock' = clock
               /\ srv' = [srv EXCEPT ![i].speed = arg, ![i].told = @ /\ srv[i].speed = arg]
      <3>1. ASSUME NEW j \in DOMAIN srv' PROVE srv'[j] \in ServerRecords
        <4>1. j \in DOMAIN srv /\ srv[j] \in ServerRecords
          BY <2>5 DEF ServerTypes
        <4>2. CASE j # i
          BY <2>5, <4>1, <4>2
        <4>3. CASE j = i
          <5>1. srv'[j] = [srv[j] EXCEPT !.speed = arg, !.told = @ /\ srv[j].speed = arg]
            BY <2>5, <4>1, <4>3
          <5>2. (srv[j].told /\ srv[j].speed = arg) \in BOOLEAN
            OBVIOUS
          <5> QED BY <4>1, <5>1, <5>2 DEF ServerRecords
        <4> QED BY <4>2, <4>3
      <3> QED BY <2>5, <3>1 DEF ServerTypes
    <2> QED BY <1>1, <2>1, <2>2, <2>3, <2>4, <2>5 DEF Executed
  <1> QED BY <1>2, <1>3 DEF ServerTypes

\* A call that is set down for a thread.
LEMMA GoesTypes ==
  ASSUME CallTypes, NEW t \in Threads, NEW c \in CallRecords, call' = [call EXCEPT ![t] = c]
  PROVE  CallTypes'
  BY DEF CallTypes

\* Asking, whether one waits for the registration or not.
LEMMA AskTypes ==
  ASSUME ServerTypes, CallTypes, NEW t \in Threads, NEW op \in Gated \cup Direct, NEW i \in Nat,
         NEW arg \in Speeds, Ask(t, op, i, arg)
  PROVE  ServerTypes' /\ CallTypes'
  <1>1. ASSUME Sends(t, op, i, arg) PROVE ServerTypes' /\ CallTypes'
    <2>1. [op |-> op, at |-> "wait", res |-> "none", id |-> i, arg |-> arg] \in CallRecords
      BY DEF CallRecords
    <2>2. CallTypes'
      BY <1>1, <2>1, GoesTypes DEF Sends
    <2>3. ServerTypes'
      BY <1>1, ExecutesTypes DEF Sends, srvVars, ServerTypes
    <2> QED BY <2>2, <2>3
  <1>2. CASE op \in Direct \/ Ready
    BY <1>1, <1>2 DEF Ask
  <1>3. CASE ~(op \in Direct \/ Ready)
    <2>1. [op |-> op, at |-> "gate", res |-> "none", id |-> i, arg |-> arg] \in CallRecords
      BY DEF CallRecords
    <2>2. CallTypes'
      BY <1>3, <2>1, GoesTypes DEF Ask
    <2> QED BY <1>3, <2>2 DEF Ask, srvVars, ServerTypes
  <1> QED BY <1>2, <1>3

\* What a step leaves alone keeps its types.
LEMMA KeptTypes ==
  /\ LinkTypes /\ UNCHANGED linkVars => LinkTypes'
  /\ ServerTypes /\ UNCHANGED srvVars => ServerTypes'
  /\ HandTypes /\ UNCHANGED hand => HandTypes'
  /\ CallTypes /\ UNCHANGED call => CallTypes'
  /\ SubTypes /\ UNCHANGED subVars => SubTypes'
  /\ DemuxTypes /\ UNCHANGED dmxVars => DemuxTypes'
  /\ KodiTypes /\ UNCHANGED kodiVars => KodiTypes'
  <1>1. LinkTypes /\ UNCHANGED linkVars => LinkTypes'
    BY Zenon DEF LinkTypes, linkVars
  <1>2. ServerTypes /\ UNCHANGED srvVars => ServerTypes'
    BY Zenon DEF ServerTypes, srvVars
  <1>3. HandTypes /\ UNCHANGED hand => HandTypes'
    BY Zenon DEF HandTypes
  <1>4. CallTypes /\ UNCHANGED call => CallTypes'
    BY Zenon DEF CallTypes
  <1>5. SubTypes /\ UNCHANGED subVars => SubTypes'
    BY Zenon DEF SubTypes, subVars
  <1>6. DemuxTypes /\ UNCHANGED dmxVars => DemuxTypes'
    BY Zenon DEF DemuxTypes, dmxVars
  <1>7. KodiTypes /\ UNCHANGED kodiVars => KodiTypes'
    BY Zenon DEF KodiTypes, kodiVars
  <1> QED BY <1>1, <1>2, <1>3, <1>4, <1>5, <1>6, <1>7

\* What a thread can be set to do.
LEMMA PlaceTypes ==
  /\ Idle \in CallRecords
  /\ \A op \in Between, at \in {"wait", "lock", "run"} : At(op, at) \in CallRecords
  BY DEF Idle, At, CallRecords, Speeds

\* A thread that comes back from its wait with a null.
LEMMA NullTypes ==
  ASSUME CallTypes, NEW t \in Threads, Goes(t, [call[t] EXCEPT !.at = "run", !.res = "null"])
  PROVE  CallTypes'
  <1>1. call[t] \in CallRecords
    BY DEF CallTypes
  <1>2. [call[t] EXCEPT !.at = "run", !.res = "null"] \in CallRecords
    BY <1>1 DEF CallRecords
  <1> QED BY <1>2, GoesTypes DEF Goes

\* The loss of the connection.
LEMMA DropTypes ==
  ASSUME ServerTypes, LinkTypes, Drop, UNCHANGED clock
  PROVE  ServerTypes' /\ link' \in Links
  <1>1. net' = <<>> /\ srv' = NoServer /\ clock' = clock
    BY DEF Drop
  <1>2. ServerTypes'
    BY <1>1 DEF ServerTypes, NoServer
  <1>3. link' \in Links
    BY DEF Drop, Links
  <1> QED BY <1>2, <1>3

\* The waiting for the registration and for responses.
LEMMA RequestsTypes ==
  ASSUME TypeInv, Requests
  PROVE  TypeInv'
  <1>1. PICK t \in Threads : GateOpens(t) \/ GateTimesOut(t) \/ GivesUp(t)
    BY DEF Requests
  <1>2. CASE GateOpens(t)
    <2>1. UNCHANGED <<linkVars, hand, subVars, dmxVars, kodiVars>>
      BY <1>2 DEF GateOpens
    <2>2. Sends(t, call[t].op, call[t].id, call[t].arg)
      BY <1>2 DEF GateOpens
    <2>3. call[t] \in CallRecords
      BY DEF TypeInv, CallTypes
    <2>4. /\ call[t].op \in Gated \cup Direct \cup Between \cup {"none"}
          /\ call[t].id \in Nat /\ call[t].arg \in Speeds
      BY <2>3 DEF CallRecords
    <2>5. [op |-> call[t].op, at |-> "wait", res |-> "none", id |-> call[t].id, arg |-> call[t].arg]
            \in CallRecords
      BY <2>4 DEF CallRecords
    <2>6. CallTypes'
      BY <2>2, <2>5, GoesTypes DEF Sends, TypeInv
    <2>7. ServerTypes'
      BY <2>2, <2>4, ExecutesTypes, KeptTypes DEF Sends, TypeInv
    <2> QED BY <2>1, <2>6, <2>7, KeptTypes DEF TypeInv
  <1>3. CASE GateTimesOut(t)
    <2>1. UNCHANGED <<link, losses, pending, srvVars, hand, subVars, dmxVars, kodiVars>>
      BY <1>3 DEF GateTimesOut
    <2>2. CallTypes'
      BY <1>3, NullTypes DEF GateTimesOut, TypeInv
    <2>3. disturbed' = TRUE
      BY <1>3 DEF GateTimesOut
    <2>4. LinkTypes'
      BY <2>1, <2>3, Zenon DEF LinkTypes, TypeInv
    <2> QED BY <2>1, <2>2, <2>4, KeptTypes DEF TypeInv
  <1>4. CASE GivesUp(t)
    <2>1. UNCHANGED <<pending, clock, hand, subVars, dmxVars, kodiVars>> /\ Drop /\ disturbed' = TRUE
      BY <1>4 DEF GivesUp
    <2>2. CallTypes'
      BY <1>4, NullTypes DEF GivesUp, TypeInv
    <2>3. losses' \in 0..MaxLosses
      <3>1. losses' = losses \/ (losses < MaxLosses /\ losses' = losses + 1)
        BY <1>4 DEF GivesUp
      <3> QED BY <3>1, BoundsAssumption DEF TypeInv, LinkTypes
    <2>4. ServerTypes' /\ link' \in Links
      BY <2>1, DropTypes DEF TypeInv
    <2>5. LinkTypes'
      BY <2>1, <2>3, <2>4, Zenon DEF LinkTypes, TypeInv
    <2> QED BY <2>1, <2>2, <2>4, <2>5, KeptTypes DEF TypeInv
  <1> QED BY <1>1, <1>2, <1>3, <1>4

\* Calls that Kodi makes.
LEMMA CallingTypes ==
  ASSUME KodiTypes, calls < MaxCalls, calls' = calls + 1, UNCHANGED <<playing, since, crashed>>
  PROVE  KodiTypes'
  <1>1. calls' \in 0..MaxCalls
    BY BoundsAssumption DEF KodiTypes
  <1> QED BY <1>1, Zenon DEF KodiTypes

\* The subscription's record after a change of one of its fields.
LEMMA SubFields ==
  ASSUME SubTypes
  PROVE  /\ sub.id \in Nat /\ sub.speed \in Speeds /\ sub.active \in BOOLEAN
         /\ [sub EXCEPT !.active = FALSE] \in [id : Nat, speed : Speeds, active : BOOLEAN]
         /\ [sub EXCEPT !.active = TRUE] \in [id : Nat, speed : Speeds, active : BOOLEAN]
         /\ \A s \in Speeds :
              /\ [sub EXCEPT !.speed = s] \in [id : Nat, speed : Speeds, active : BOOLEAN]
              /\ [sub EXCEPT !.id = @ + 1, !.speed = s]
                   \in [id : Nat, speed : Speeds, active : BOOLEAN]
  <1>1. sub \in [id : Nat, speed : Speeds, active : BOOLEAN]
    BY DEF SubTypes
  <1>2. sub.id \in Nat /\ sub.speed \in Speeds /\ sub.active \in BOOLEAN /\ sub.id + 1 \in Nat
    BY <1>1
  <1>3. /\ [sub EXCEPT !.active = FALSE] \in [id : Nat, speed : Speeds, active : BOOLEAN]
        /\ [sub EXCEPT !.active = TRUE] \in [id : Nat, speed : Speeds, active : BOOLEAN]
    BY <1>1
  <1>4. ASSUME NEW s \in Speeds
        PROVE  [sub EXCEPT !.speed = s] \in [id : Nat, speed : Speeds, active : BOOLEAN]
    BY <1>1
  <1>5. ASSUME NEW s \in Speeds
        PROVE  [sub EXCEPT !.id = @ + 1, !.speed = s]
                 \in [id : Nat, speed : Speeds, active : BOOLEAN]
    BY <1>1, <1>2
  <1> QED BY <1>2, <1>3, <1>4, <1>5

\* Close, as Kodi calls it and as Open does.
LEMMA CloseTypes ==
  ASSUME TypeInv, NEW unsub \in Gated, NEW clear \in Between, Close0(unsub, clear),
         UNCHANGED <<requested, actual, seekp, seekGot, streams, source, fed>>
  PROVE  ServerTypes' /\ CallTypes' /\ SubTypes' /\ DemuxTypes'
  <1>1. CASE sub.active
    <2>1. /\ sub' = [sub EXCEPT !.active = FALSE]
          /\ Ask("player", unsub, sub.id, 1) /\ buf' = buf
      BY <1>1 DEF Close0
    <2>2. ServerTypes' /\ CallTypes'
      BY <2>1, AskTypes, SubFields DEF TypeInv, Threads, Speeds
    <2>3. SubTypes'
      BY <2>1, SubFields, Zenon DEF TypeInv, SubTypes
    <2>4. DemuxTypes'
      BY <2>1, Zenon DEF TypeInv, DemuxTypes
    <2> QED BY <2>2, <2>3, <2>4
  <1>2. CASE ~sub.active
    <2>1. buf' = <<>> /\ Goes("player", At(clear, "run")) /\ UNCHANGED <<sub, srvVars>>
      BY <1>2 DEF Close0
    <2>2. CallTypes'
      BY <2>1, GoesTypes, PlaceTypes DEF TypeInv, Goes, Threads
    <2>3. ServerTypes'
      BY <2>1, KeptTypes DEF TypeInv
    <2>4. SubTypes'
      BY <2>1, Zenon DEF TypeInv, SubTypes
    <2>5. <<>> \in Seq([id : Nat, stamp : Nat])
      OBVIOUS
    <2>6. DemuxTypes'
      BY <2>1, <2>5, Zenon DEF TypeInv, DemuxTypes
    <2> QED BY <2>2, <2>3, <2>4, <2>6
  <1> QED BY <1>1, <1>2

\* The end of Close, which empties the buffer.
LEMMA FlushTypes ==
  ASSUME TypeInv, NEW unsub, NEW clear \in Between, Flushes(unsub, clear)
  PROVE  TypeInv'
  <1>1. /\ buf' = <<>> /\ Goes("player", At(clear, "run"))
        /\ UNCHANGED <<linkVars, srvVars, hand, subVars, seekp, seekGot, streams, source, fed, kodiVars>>
    BY DEF Flushes
  <1>2. CallTypes'
    BY <1>1, GoesTypes, PlaceTypes DEF TypeInv, Goes, Threads
  <1>3. <<>> \in Seq([id : Nat, stamp : Nat])
    OBVIOUS
  <1>4. DemuxTypes'
    BY <1>1, <1>3, Zenon DEF TypeInv, DemuxTypes
  <1> QED BY <1>1, <1>2, <1>4, KeptTypes DEF TypeInv

\* Open and Close.
LEMMA OpenCloseTypes ==
  ASSUME TypeInv, Open \/ OpenFlushes \/ OpenSubscribes \/ OpenSubscribed \/ OpenFails
                    \/ Close \/ CloseFlushes \/ CloseClears \/ CloseResets
  PROVE  TypeInv'
  <1>1. CASE Open \/ Close
    <2>1. /\ calls < MaxCalls /\ calls' = calls + 1
          /\ UNCHANGED <<linkVars, hand, requested, actual, seekp, seekGot, streams, source, fed,
                         playing, since, crashed>>
      BY <1>1 DEF Open, Close, Calling
    <2>2. ServerTypes' /\ CallTypes' /\ SubTypes' /\ DemuxTypes'
      <3>1. CASE Open
        BY <3>1, <2>1, CloseTypes DEF Open, Gated, Between
      <3>2. CASE Close
        BY <3>2, <2>1, CloseTypes DEF Close, Gated, Between
      <3> QED BY <1>1, <3>1, <3>2
    <2>3. KodiTypes'
      BY <2>1, CallingTypes DEF TypeInv
    <2> QED BY <2>1, <2>2, <2>3, KeptTypes DEF TypeInv
  <1>2. CASE OpenFlushes \/ CloseFlushes
    BY <1>2, FlushTypes DEF OpenFlushes, CloseFlushes, Between
  <1>3. CASE OpenSubscribes
    <2>1. /\ streams' = 0 /\ seekp' = "null"
          /\ sub' = [sub EXCEPT !.id = @ + 1, !.speed = 1]
          /\ Ask("player", "openSub", sub.id + 1, 1)
          /\ UNCHANGED <<linkVars, hand, requested, actual, seekGot, source, buf, fed, kodiVars>>
      BY <1>3 DEF OpenSubscribes, Abort0
    <2>2. 1 \in Speeds /\ sub.id + 1 \in Nat
      BY SubFields DEF TypeInv, Speeds
    <2>3. ServerTypes' /\ CallTypes'
      BY <2>1, <2>2, AskTypes DEF TypeInv, Threads, Gated
    <2>4. SubTypes'
      BY <2>1, <2>2, SubFields, Zenon DEF TypeInv, SubTypes
    <2>5. 0 \in Nat
      OBVIOUS
    <2>6. DemuxTypes'
      BY <2>1, <2>5, Zenon DEF TypeInv, DemuxTypes
    <2> QED BY <2>1, <2>3, <2>4, <2>6, KeptTypes DEF TypeInv
  <1>4. CASE OpenSubscribed
    <2>1. /\ source' = 0
          /\ UNCHANGED <<linkVars, hand, requested, actual, seekp, seekGot, streams, buf, calls, crashed>>
          /\ \/ /\ sub' = [sub EXCEPT !.active = TRUE]
                /\ fed' = FALSE /\ playing' = TRUE /\ since' = 0
                /\ Goes("player", Idle) /\ UNCHANGED srvVars
             \/ /\ Ask("player", "openUndo", sub.id, 1)
                /\ UNCHANGED <<sub, fed, playing, since>>
      BY <1>4 DEF OpenSubscribed
    <2>2. ServerTypes' /\ CallTypes'
      <3>1. CASE Goes("player", Idle) /\ UNCHANGED srvVars
        BY <3>1, GoesTypes, PlaceTypes, KeptTypes DEF TypeInv, Goes, Threads
      <3>2. CASE Ask("player", "openUndo", sub.id, 1)
        BY <3>2, AskTypes, SubFields DEF TypeInv, Threads, Gated, Speeds
      <3> QED BY <2>1, <3>1, <3>2
    <2>3. SubTypes'
      BY <2>1, SubFields, Zenon DEF TypeInv, SubTypes
    <2>4. 0 \in Nat
      OBVIOUS
    <2>5. DemuxTypes'
      BY <2>1, <2>4, Zenon DEF TypeInv, DemuxTypes
    <2>6. KodiTypes'
      BY <2>1, <2>4, Zenon DEF TypeInv, KodiTypes
    <2> QED BY <2>1, <2>2, <2>3, <2>5, <2>6, KeptTypes DEF TypeInv
  <1>5. CASE OpenFails
    <2>1. /\ playing' = FALSE /\ Goes("player", Idle)
          /\ UNCHANGED <<linkVars, srvVars, hand, subVars, dmxVars, calls, since, crashed>>
      BY <1>5 DEF OpenFails
    <2>2. CallTypes'
      BY <2>1, GoesTypes, PlaceTypes DEF TypeInv, Goes, Threads
    <2>3. KodiTypes'
      BY <2>1, Zenon DEF TypeInv, KodiTypes
    <2> QED BY <2>1, <2>2, <2>3, KeptTypes DEF TypeInv
  <1>6. CASE CloseClears
    <2>1. /\ streams' = 0 /\ seekp' = "null" /\ Goes("player", At("closeReset", "run"))
          /\ UNCHANGED <<linkVars, srvVars, hand, subVars, seekGot, source, buf, fed, kodiVars>>
      BY <1>6 DEF CloseClears, Abort0
    <2>2. CallTypes'
      BY <2>1, GoesTypes, PlaceTypes DEF TypeInv, Goes, Threads, Between
    <2>3. 0 \in Nat
      OBVIOUS
    <2>4. DemuxTypes'
      BY <2>1, <2>3, Zenon DEF TypeInv, DemuxTypes
    <2> QED BY <2>1, <2>2, <2>4, KeptTypes DEF TypeInv
  <1>7. CASE CloseResets
    <2>1. /\ source' = 0 /\ playing' = FALSE /\ Goes("player", Idle)
          /\ UNCHANGED <<linkVars, srvVars, hand, subVars, seekp, seekGot, streams, buf, fed,
                         calls, since, crashed>>
      BY <1>7 DEF CloseResets
    <2>2. CallTypes'
      BY <2>1, GoesTypes, PlaceTypes DEF TypeInv, Goes, Threads
    <2>3. 0 \in Nat
      OBVIOUS
    <2>4. DemuxTypes' /\ KodiTypes'
      BY <2>1, <2>3, Zenon DEF TypeInv, DemuxTypes, KodiTypes
    <2> QED BY <2>1, <2>2, <2>4, KeptTypes DEF TypeInv
  <1> QED BY <1>1, <1>2, <1>3, <1>4, <1>5, <1>6, <1>7

\* Seek.
LEMMA SeekTypes ==
  ASSUME TypeInv, Seek \/ SeekSent \/ SeekReturns
  PROVE  TypeInv'
  <1>1. CASE Seek
    <2>1. /\ calls < MaxCalls /\ calls' = calls + 1
          /\ seekp' = "set" /\ seekGot' = [flag |-> FALSE, time |-> 0]
          /\ Ask("player", "seekSend", sub.id, 1)
          /\ UNCHANGED <<linkVars, hand, subVars, streams, source, buf, fed, playing, since, crashed>>
      BY <1>1 DEF Seek, Calling, SendSeek
    <2>2. ServerTypes' /\ CallTypes'
      BY <2>1, AskTypes, SubFields DEF TypeInv, Threads, Gated, Speeds
    <2>3. [flag |-> FALSE, time |-> 0] \in [flag : BOOLEAN, time : Nat]
      OBVIOUS
    <2>4. DemuxTypes'
      BY <2>1, <2>3, Zenon DEF TypeInv, DemuxTypes
    <2>5. KodiTypes'
      BY <2>1, CallingTypes DEF TypeInv
    <2> QED BY <2>1, <2>2, <2>4, <2>5, KeptTypes DEF TypeInv
  <1>2. CASE SeekSent
    <2>1. /\ seekp' \in {seekp, "dangling"}
          /\ crashed' \in {crashed, seekp = "null"}
          /\ Goes("player", Idle) \/ Goes("player", At("seekGet", "wait"))
          /\ UNCHANGED <<linkVars, srvVars, hand, subVars, seekGot, streams, source, buf, fed,
                         calls, playing, since>>
      BY <1>2, Zenon DEF SeekSent
    <2>2. CallTypes'
      BY <2>1, GoesTypes, PlaceTypes DEF TypeInv, Goes, Threads, Between
    <2>3. DemuxTypes'
      BY <2>1, Zenon DEF TypeInv, DemuxTypes
    <2>4. KodiTypes'
      <3>1. (seekp = "null") \in BOOLEAN
        OBVIOUS
      <3> QED BY <2>1, <3>1, Zenon DEF TypeInv, KodiTypes
    <2> QED BY <2>1, <2>2, <2>3, <2>4, KeptTypes DEF TypeInv
  <1>3. CASE SeekReturns
    <2>1. /\ seekp' = "null" /\ Goes("player", Idle)
          /\ buf' \in {buf, <<>>} /\ since' \in {since, seekGot.time}
          /\ UNCHANGED <<linkVars, srvVars, hand, subVars, seekGot, streams, source, fed,
                         calls, playing, crashed>>
      BY <1>3, Zenon DEF SeekReturns
    <2>2. CallTypes'
      BY <2>1, GoesTypes, PlaceTypes DEF TypeInv, Goes, Threads
    <2>3. <<>> \in Seq([id : Nat, stamp : Nat])
      OBVIOUS
    <2>4. DemuxTypes'
      BY <2>1, <2>3, Zenon DEF TypeInv, DemuxTypes
    <2>5. seekGot.time \in Nat
      BY DEF TypeInv, DemuxTypes
    <2>6. KodiTypes'
      BY <2>1, <2>5, Zenon DEF TypeInv, KodiTypes
    <2> QED BY <2>1, <2>2, <2>4, <2>6, KeptTypes DEF TypeInv
  <1> QED BY <1>1, <1>2, <1>3

\* A speed that the player changes.
LEMMA ChangesTypes ==
  ASSUME TypeInv, NEW op \in Gated, NEW s \in Speeds, NEW new, Changes(op, s, new)
  PROVE  ServerTypes' /\ CallTypes' /\ SubTypes'
  <1>1. CASE new /\ actual = sub.speed
    <2>1. /\ sub' = [sub EXCEPT !.speed = s] /\ Ask("player", op, sub.id, s)
          /\ UNCHANGED <<requested, actual>>
      BY <1>1 DEF Changes
    <2>2. ServerTypes' /\ CallTypes'
      BY <2>1, AskTypes, SubFields DEF TypeInv, Threads
    <2>3. SubTypes'
      BY <2>1, SubFields, Zenon DEF TypeInv, SubTypes
    <2> QED BY <2>2, <2>3
  <1>2. CASE ~(new /\ actual = sub.speed)
    <2>1. requested' = s /\ UNCHANGED <<sub, call, srvVars, actual>>
      BY <1>2 DEF Changes
    <2>2. SubTypes'
      BY <2>1, Zenon DEF TypeInv, SubTypes
    <2> QED BY <2>1, <2>2, KeptTypes DEF TypeInv
  <1> QED BY <1>1, <1>2

\* Speed and FillBuffer.
LEMMA SpeedTypes ==
  ASSUME TypeInv, Speed \/ FillBuffer \/ SpeedSent
  PROVE  TypeInv'
  <1>1. CASE Speed
    <2>1. PICK s \in {0, 1} : /\ fed' = (fed /\ s = 0)
                              /\ Changes("speedSend", s, s # requested \/ s = 0)
      BY <1>1 DEF Speed
    <2>2. ServerTypes' /\ CallTypes' /\ SubTypes'
      BY <2>1, ChangesTypes DEF Speeds, Gated
    <2>3. /\ calls < MaxCalls /\ calls' = calls + 1
          /\ UNCHANGED <<linkVars, hand, seekp, seekGot, streams, source, buf, playing, since, crashed>>
      BY <1>1, <2>1 DEF Speed, Calling, Changes
    <2>4. KodiTypes'
      BY <2>3, CallingTypes DEF TypeInv
    <2>5. (fed /\ s = 0) \in BOOLEAN
      OBVIOUS
    <2>6. DemuxTypes'
      BY <2>1, <2>3, <2>5, Zenon DEF TypeInv, DemuxTypes
    <2> QED BY <2>2, <2>3, <2>4, <2>6, KeptTypes DEF TypeInv
  <1>2. CASE FillBuffer
    <2>1. PICK s \in {1, 4} : Changes("fillSend", s, s # requested)
      BY <1>2 DEF FillBuffer
    <2>2. ServerTypes' /\ CallTypes' /\ SubTypes'
      BY <2>1, ChangesTypes DEF Speeds, Gated
    <2>3. /\ calls < MaxCalls /\ calls' = calls + 1
          /\ UNCHANGED <<linkVars, hand, seekp, seekGot, streams, source, buf, fed, playing, since, crashed>>
      BY <1>2, <2>1 DEF FillBuffer, Calling, Changes
    <2>4. KodiTypes'
      BY <2>3, CallingTypes DEF TypeInv
    <2>5. DemuxTypes'
      BY <2>3, KeptTypes DEF TypeInv, dmxVars
    <2> QED BY <2>2, <2>3, <2>4, <2>5, KeptTypes DEF TypeInv
  <1>3. CASE SpeedSent
    <2>1. /\ requested' = call["player"].arg /\ Goes("player", Idle)
          /\ UNCHANGED <<linkVars, srvVars, hand, sub, actual, dmxVars, kodiVars>>
      BY <1>3 DEF SpeedSent
    <2>2. CallTypes'
      BY <2>1, GoesTypes, PlaceTypes DEF TypeInv, Goes, Threads
    <2>3. call["player"].arg \in Speeds
      BY DEF TypeInv, CallTypes, CallRecords, Threads
    <2>4. SubTypes'
      BY <2>1, <2>3, Zenon DEF TypeInv, SubTypes
    <2> QED BY <2>1, <2>2, <2>4, KeptTypes DEF TypeInv
  <1> QED BY <1>1, <1>2, <1>3

\* Read.
LEMMA ReadTypes ==
  ASSUME TypeInv, DemuxFlush \/ Read \/ ReadStalls
  PROVE  TypeInv'
  <1>0. <<>> \in Seq([id : Nat, stamp : Nat])
    OBVIOUS
  <1>1. CASE DemuxFlush
    <2>1. /\ calls < MaxCalls /\ calls' = calls + 1 /\ buf' = <<>>
          /\ UNCHANGED <<linkVars, srvVars, hand, call, subVars, seekp, seekGot, streams, source, fed,
                         playing, since, crashed>>
      BY <1>1 DEF DemuxFlush, Calling
    <2>2. DemuxTypes'
      BY <2>1, <1>0, Zenon DEF TypeInv, DemuxTypes
    <2>3. KodiTypes'
      BY <2>1, CallingTypes DEF TypeInv
    <2> QED BY <2>1, <2>2, <2>3, KeptTypes DEF TypeInv
  <1>2. CASE Read
    <2>1. /\ buf # <<>> /\ buf' = Tail(buf) /\ fed' = TRUE
          /\ UNCHANGED <<linkVars, srvVars, hand, call, subVars, seekp, seekGot, streams, source,
                         kodiVars>>
      BY <1>2 DEF Read
    <2>2. buf' \in Seq([id : Nat, stamp : Nat])
      BY <2>1 DEF TypeInv, DemuxTypes
    <2>3. DemuxTypes'
      BY <2>1, <2>2, Zenon DEF TypeInv, DemuxTypes
    <2> QED BY <2>1, <2>3, KeptTypes DEF TypeInv
  <1>3. CASE ReadStalls
    <2>1. /\ losses < MaxLosses /\ losses' = losses + 1 /\ fed' = FALSE /\ Drop
          /\ disturbed' = (disturbed \/ \E t \in Threads : call[t].at # "idle")
          /\ UNCHANGED <<pending, clock, hand, call, subVars, seekp, seekGot, streams, source, buf,
                         kodiVars>>
      BY <1>3 DEF ReadStalls
    <2>2. ServerTypes' /\ link' \in Links
      BY <2>1, DropTypes DEF TypeInv
    <2>3. losses' \in 0..MaxLosses
      BY <2>1, BoundsAssumption DEF TypeInv, LinkTypes
    <2>4. (disturbed \/ \E t \in Threads : call[t].at # "idle") \in BOOLEAN
      OBVIOUS
    <2>5. LinkTypes'
      BY <2>1, <2>2, <2>3, <2>4, Zenon DEF TypeInv, LinkTypes
    <2>6. DemuxTypes'
      BY <2>1, Zenon DEF TypeInv, DemuxTypes
    <2> QED BY <2>1, <2>2, <2>5, <2>6, KeptTypes DEF TypeInv
  <1> QED BY <1>1, <1>2, <1>3

\* Kodi's other thread.
LEMMA AppTypes ==
  ASSUME TypeInv, App
  PROVE  TypeInv'
  <1>0. 0 \in Nat
    OBVIOUS
  <1>1. CASE Abort
    <2>1. /\ calls < MaxCalls /\ calls' = calls + 1
          /\ streams' = 0 /\ seekp' = "null" /\ Goes("app", At("abortReset", "run"))
          /\ UNCHANGED <<linkVars, srvVars, hand, subVars, seekGot, source, buf, fed,
                         playing, since, crashed>>
      BY <1>1 DEF Abort, Abort0
    <2>2. CallTypes'
      BY <2>1, GoesTypes, PlaceTypes DEF TypeInv, Goes, Threads, Between
    <2>3. DemuxTypes'
      BY <2>1, <1>0, Zenon DEF TypeInv, DemuxTypes
    <2>4. KodiTypes'
      BY <2>1, CallingTypes DEF TypeInv
    <2> QED BY <2>1, <2>2, <2>3, <2>4, KeptTypes DEF TypeInv
  <1>2. CASE AbortResets
    <2>1. /\ source' = 0 /\ Goes("app", Idle)
          /\ UNCHANGED <<linkVars, srvVars, hand, subVars, seekp, seekGot, streams, buf, fed, kodiVars>>
      BY <1>2 DEF AbortResets
    <2>2. CallTypes'
      BY <2>1, GoesTypes, PlaceTypes DEF TypeInv, Goes, Threads
    <2>3. DemuxTypes'
      BY <2>1, <1>0, Zenon DEF TypeInv, DemuxTypes
    <2> QED BY <2>1, <2>2, <2>3, KeptTypes DEF TypeInv
  <1> QED BY <1>1, <1>2 DEF App

\* The Process thread, when it rebuilds the subscription.
LEMMA ProcessTypes ==
  ASSUME TypeInv, Process
  PROVE  TypeInv'
  <1>1. CASE RebuildState
    <2>1. /\ pending' = FALSE
          /\ Goes("process", At("rebuildBegin", "lock")) \/ UNCHANGED call
          /\ UNCHANGED <<link, losses, disturbed, srvVars, hand, subVars, dmxVars, kodiVars>>
      BY <1>1 DEF RebuildState
    <2>2. CallTypes'
      BY <2>1, GoesTypes, PlaceTypes, KeptTypes DEF TypeInv, Goes, Threads, Between
    <2>3. LinkTypes'
      BY <2>1, Zenon DEF TypeInv, LinkTypes
    <2> QED BY <2>1, <2>2, <2>3, KeptTypes DEF TypeInv
  <1>2. CASE RebuildUnsubscribes
    <2>1. /\ sub' = [sub EXCEPT !.active = FALSE]
          /\ Ask("process", "rebuildUnsub", sub.id, 1)
          /\ UNCHANGED <<linkVars, hand, requested, actual, dmxVars, kodiVars>>
      BY <1>2 DEF RebuildUnsubscribes
    <2>2. ServerTypes' /\ CallTypes'
      BY <2>1, AskTypes, SubFields DEF TypeInv, Threads, Gated, Speeds
    <2>3. SubTypes'
      BY <2>1, SubFields, Zenon DEF TypeInv, SubTypes
    <2> QED BY <2>1, <2>2, <2>3, KeptTypes DEF TypeInv
  <1>3. CASE RebuildSubscribes
    <2>1. /\ Ask("process", "rebuildSub", sub.id, 1)
          /\ UNCHANGED <<linkVars, hand, subVars, dmxVars, kodiVars>>
      BY <1>3 DEF RebuildSubscribes
    <2>2. ServerTypes' /\ CallTypes'
      BY <2>1, AskTypes, SubFields DEF TypeInv, Threads, Direct, Speeds
    <2> QED BY <2>1, <2>2, KeptTypes DEF TypeInv
  <1>4. CASE RebuildSetsSpeed
    <2>1. /\ sub' = [sub EXCEPT !.active = @ \/ call["process"].res = "ok"]
          /\ Ask("process", "rebuildSpeed", sub.id, sub.speed)
          /\ UNCHANGED <<linkVars, hand, requested, actual, dmxVars, kodiVars>>
      BY <1>4 DEF RebuildSetsSpeed
    <2>2. ServerTypes' /\ CallTypes'
      BY <2>1, AskTypes, SubFields DEF TypeInv, Threads, Direct
    <2>3. sub' \in [id : Nat, speed : Speeds, active : BOOLEAN]
      <3>1. (sub.active \/ call["process"].res = "ok") \in BOOLEAN
        OBVIOUS
      <3>2. sub \in [id : Nat, speed : Speeds, active : BOOLEAN]
        BY DEF TypeInv, SubTypes
      <3>3. \A b \in BOOLEAN : [sub EXCEPT !.active = b] \in [id : Nat, speed : Speeds, active : BOOLEAN]
        BY <3>2
      <3> QED BY <2>1, <3>1, <3>3, Zenon
    <2>4. SubTypes'
      BY <2>1, <2>3, Zenon DEF TypeInv, SubTypes
    <2> QED BY <2>1, <2>2, <2>4, KeptTypes DEF TypeInv
  <1>5. CASE RebuildEnds
    <2>1. /\ Goes("process", Idle)
          /\ UNCHANGED <<linkVars, srvVars, hand, subVars, dmxVars, kodiVars>>
      BY <1>5 DEF RebuildEnds
    <2>2. CallTypes'
      BY <2>1, GoesTypes, PlaceTypes DEF TypeInv, Goes, Threads
    <2> QED BY <2>1, <2>2, KeptTypes DEF TypeInv
  <1> QED BY <1>1, <1>2, <1>3, <1>4, <1>5 DEF Process

\* What is read from the connection.
LEMMA NextMessage ==
  ASSUME ServerTypes, net # <<>>
  PROVE  /\ Head(net) = net[1] /\ 1 \in DOMAIN net
         /\ net[1] \in Messages \cup Responses
         /\ Tail(net) \in Seq(Messages \cup Responses)
         /\ \A k \in DOMAIN Tail(net) : k + 1 \in DOMAIN net /\ Tail(net)[k] = net[k + 1]
  BY DEF ServerTypes

\* The reading of a message or response.
LEMMA ReadMessageTypes ==
  ASSUME TypeInv, ReadMessage
  PROVE  TypeInv'
  <1>1. /\ net # <<>> /\ net' = Tail(net)
        /\ UNCHANGED <<linkVars, srv, clock, subVars, dmxVars, kodiVars>>
    BY DEF ReadMessage
  <1>2. ServerTypes'
    BY <1>1, NextMessage DEF TypeInv, ServerTypes
  <1>3. net[1] \in Messages \cup Responses /\ Head(net) = net[1]
    BY <1>1, NextMessage DEF TypeInv
  <1>4. CASE net[1].kind = "resp"
    <2>1. call' = Answered(net[1]) /\ hand' = hand
      BY <1>3, <1>4 DEF ReadMessage
    <2>2. net[1].to \in Threads /\ net[1].res \in {"ok", "null"}
      BY <1>3, <1>4 DEF Messages, MsgKinds, Responses
    <2>3. CASE call[net[1].to].at = "wait"
      <3>1. call' = [call EXCEPT ![net[1].to].res = net[1].res]
        BY <2>1, <2>3 DEF Answered
      <3>2. call[net[1].to] \in CallRecords
        BY <2>2 DEF TypeInv, CallTypes
      <3>3. [call[net[1].to] EXCEPT !.res = net[1].res] \in CallRecords
        BY <2>2, <3>2 DEF CallRecords
      <3>4. call' = [call EXCEPT ![net[1].to] = [call[net[1].to] EXCEPT !.res = net[1].res]]
        BY <3>1
      <3>5. CallTypes'
        BY <2>2, <3>3, <3>4, GoesTypes DEF TypeInv
      <3> QED BY <1>1, <1>2, <2>1, <3>5, KeptTypes DEF TypeInv
    <2>4. CASE call[net[1].to].at # "wait"
      <3>1. UNCHANGED call
        BY <2>1, <2>4 DEF Answered
      <3> QED BY <1>1, <1>2, <2>1, <3>1, KeptTypes DEF TypeInv
    <2> QED BY <2>3, <2>4
  <1>5. CASE net[1].kind # "resp"
    <2>1. hand' \in {net[1], None} /\ call' = call
      BY <1>3, <1>5 DEF ReadMessage
    <2>2. net[1] \in Messages /\ (net[1].kind = "speed" => net[1].val \in Speeds)
      BY <1>1, <1>3, <1>5, NextMessage DEF TypeInv, ServerTypes, Responses
    <2>3. HandTypes'
      BY <2>1, <2>2 DEF HandTypes, None
    <2> QED BY <1>1, <1>2, <2>1, <2>3, KeptTypes DEF TypeInv
  <1> QED BY <1>4, <1>5

\* The message that is in the hand of the connection thread has been dealt with.
LEMMA HandledTypes ==
  ASSUME TypeInv, NEW kind \in MsgKinds, Handling(kind)
  PROVE  /\ HandTypes' /\ hand.kind = kind
         /\ hand \in Messages /\ hand.id \in Nat /\ hand.val \in Nat
         /\ kind = "speed" => hand.val \in Speeds
  <1>1. hand.kind = kind /\ hand' = None
    BY DEF Handling
  <1>2. hand # None
    BY <1>1 DEF None, MsgKinds
  <1>3. hand \in Messages /\ (hand.kind = "speed" => hand.val \in Speeds)
    BY <1>2 DEF TypeInv, HandTypes
  <1>4. HandTypes'
    BY <1>1 DEF HandTypes, None
  <1> QED BY <1>1, <1>3, <1>4 DEF Messages

\* The handlers of messages.
LEMMA HandlersTypes ==
  ASSUME TypeInv, Handlers
  PROVE  TypeInv'
  <1>1. CASE ParseSubscriptionStart
    <2>1. /\ Handling("start") /\ streams' = hand.id /\ source' = hand.id
          /\ UNCHANGED <<linkVars, srvVars, call, subVars, seekp, seekGot, buf, fed, kodiVars>>
      BY <1>1 DEF ParseSubscriptionStart
    <2>2. HandTypes' /\ hand.id \in Nat
      BY <2>1, HandledTypes DEF MsgKinds
    <2>3. DemuxTypes'
      BY <2>1, <2>2, Zenon DEF TypeInv, DemuxTypes
    <2> QED BY <2>1, <2>2, <2>3, KeptTypes DEF TypeInv
  <1>2. CASE ParseSubscriptionStatus
    <2>1. /\ Handling("status") /\ sub' = [sub EXCEPT !.active = TRUE]
          /\ UNCHANGED <<linkVars, srvVars, call, requested, actual, dmxVars, kodiVars>>
      BY <1>2 DEF ParseSubscriptionStatus
    <2>2. HandTypes'
      BY <2>1, HandledTypes DEF MsgKinds
    <2>3. SubTypes'
      BY <2>1, SubFields, Zenon DEF TypeInv, SubTypes
    <2> QED BY <2>1, <2>2, <2>3, KeptTypes DEF TypeInv
  <1>3. CASE ParseMuxPacket
    <2>1. /\ Handling("pkt") /\ buf' \in {buf, Append(buf, [id |-> hand.id, stamp |-> hand.val])}
          /\ UNCHANGED <<linkVars, srvVars, call, subVars, seekp, seekGot, streams, source, fed, kodiVars>>
      BY <1>3 DEF ParseMuxPacket
    <2>2. HandTypes' /\ hand.id \in Nat /\ hand.val \in Nat
      BY <2>1, HandledTypes DEF MsgKinds
    <2>3. [id |-> hand.id, stamp |-> hand.val] \in [id : Nat, stamp : Nat]
      BY <2>2
    <2>4. buf' \in Seq([id : Nat, stamp : Nat])
      <3>1. \A S : \A s \in Seq(S), e \in S : Append(s, e) \in Seq(S)
        OBVIOUS
      <3>2. buf \in Seq([id : Nat, stamp : Nat])
        BY DEF TypeInv, DemuxTypes
      <3> QED BY <2>1, <2>3, <3>1, <3>2, Zenon
    <2>5. DemuxTypes'
      BY <2>1, <2>4, Zenon DEF TypeInv, DemuxTypes
    <2> QED BY <2>1, <2>2, <2>5, KeptTypes DEF TypeInv
  <1>4. CASE ParseSubscriptionSkip
    <2>1. /\ Handling("skip") /\ seekGot' \in {seekGot, [flag |-> TRUE, time |-> hand.val]}
          /\ buf' \in {buf, <<>>}
          /\ UNCHANGED <<linkVars, srvVars, call, subVars, seekp, streams, source, fed, kodiVars>>
      BY <1>4 DEF ParseSubscriptionSkip
    <2>2. HandTypes' /\ hand.val \in Nat
      BY <2>1, HandledTypes DEF MsgKinds
    <2>3. [flag |-> TRUE, time |-> hand.val] \in [flag : BOOLEAN, time : Nat]
      BY <2>2
    <2>4. <<>> \in Seq([id : Nat, stamp : Nat])
      OBVIOUS
    <2>5. DemuxTypes'
      BY <2>1, <2>3, <2>4, Zenon DEF TypeInv, DemuxTypes
    <2> QED BY <2>1, <2>2, <2>5, KeptTypes DEF TypeInv
  <1>5. CASE ParseSubscriptionSpeed
    <2>1. /\ Handling("speed") /\ actual' = hand.val
          /\ UNCHANGED <<linkVars, srvVars, call, sub, requested, dmxVars, kodiVars>>
      BY <1>5 DEF ParseSubscriptionSpeed
    <2>2. HandTypes' /\ hand.val \in Speeds
      BY <2>1, HandledTypes DEF MsgKinds
    <2>3. SubTypes'
      BY <2>1, <2>2, Zenon DEF TypeInv, SubTypes
    <2> QED BY <2>1, <2>2, <2>3, KeptTypes DEF TypeInv
  <1> QED BY <1>1, <1>2, <1>3, <1>4, <1>5 DEF Handlers

\* The way back to a connection.
LEMMA ReconnectTypes ==
  ASSUME TypeInv, Recreates \/ Connected \/ Registered
  PROVE  TypeInv'
  <1>1. /\ link' \in Links /\ pending' \in {pending, TRUE}
        /\ UNCHANGED <<losses, disturbed, srvVars, hand, call, subVars, dmxVars, kodiVars>>
    BY DEF Recreates, Connected, Registered, Links
  <1>2. LinkTypes'
    BY <1>1, Zenon DEF TypeInv, LinkTypes
  <1> QED BY <1>1, <1>2, KeptTypes DEF TypeInv

\* Its loss.
LEMMA LosesTypes ==
  ASSUME TypeInv, Loses
  PROVE  TypeInv'
  <1>1. /\ losses < MaxLosses /\ losses' = losses + 1 /\ Drop
        /\ disturbed' = (disturbed \/ \E t \in Threads : call[t].at # "idle")
        /\ UNCHANGED <<pending, clock, hand, call, subVars, dmxVars, kodiVars>>
    BY DEF Loses
  <1>2. ServerTypes' /\ link' \in Links
    BY <1>1, DropTypes DEF TypeInv
  <1>3. losses' \in 0..MaxLosses
    BY <1>1, BoundsAssumption DEF TypeInv, LinkTypes
  <1>4. (disturbed \/ \E t \in Threads : call[t].at # "idle") \in BOOLEAN
    OBVIOUS
  <1>5. LinkTypes'
    BY <1>1, <1>2, <1>3, <1>4, Zenon DEF TypeInv, LinkTypes
  <1> QED BY <1>1, <1>2, <1>5, KeptTypes DEF TypeInv

\* The server says a message, and remembers that it has.
LEMMA SaysTypes ==
  ASSUME TypeInv, NEW m \in Messages, m.kind = "speed" => m.val \in Speeds, Says(m),
         DOMAIN srv' \subseteq Nat, \A j \in DOMAIN srv' : srv'[j] \in ServerRecords,
         clock' \in Nat
  PROVE  TypeInv'
  <1>1. /\ net' = Append(net, m)
        /\ UNCHANGED <<linkVars, hand, call, subVars, dmxVars, kodiVars>>
    BY DEF Says
  <1>2. ServerTypes'
    BY <1>1, SentOnTypes DEF TypeInv, ServerTypes
  <1> QED BY <1>1, <1>2, KeptTypes DEF TypeInv

\* What the server does by itself.
LEMMA ServerActionTypes ==
  ASSUME TypeInv, Server
  PROVE  TypeInv'
  <1>1. PICK i \in DOMAIN srv : ServerStarts(i) \/ ServerReports(i) \/ ServerStreams(i)
                                  \/ ServerSkips(i) \/ ServerSetsSpeed(i)
    BY DEF Server
  <1>2. /\ DOMAIN srv \subseteq Nat /\ i \in Nat /\ clock \in Nat /\ clock + 1 \in Nat
        /\ \A j \in DOMAIN srv : srv[j] \in ServerRecords
    BY DEF TypeInv, ServerTypes
  <1>3. /\ srv[i].stamp \in Nat /\ srv[i].speed \in Speeds /\ srv[i].speed \in Nat
        /\ srv[i].skips \in Nat /\ srv[i] \in ServerRecords
    BY <1>2 DEF ServerRecords, Speeds
  <1>4. CASE ServerStarts(i)
    <2>1. /\ srv' = [srv EXCEPT ![i].started = TRUE]
          /\ Says(Msg("start", i, 0)) /\ clock' = clock
      BY <1>4 DEF ServerStarts
    <2>2. [srv[i] EXCEPT !.started = TRUE] \in ServerRecords
      BY <1>3 DEF ServerRecords
    <2>3. srv' = [srv EXCEPT ![i] = [srv[i] EXCEPT !.started = TRUE]]
      BY <2>1
    <2>4. DOMAIN srv' \subseteq Nat /\ \A j \in DOMAIN srv' : srv'[j] \in ServerRecords
      BY <1>2, <2>2, <2>3
    <2>5. Msg("start", i, 0) \in Messages /\ Msg("start", i, 0).kind = "start"
      BY <1>2, MessageTypes DEF MsgKinds
    <2> QED BY <1>2, <2>1, <2>4, <2>5, SaysTypes
  <1>5. CASE ServerReports(i)
    <2>1. Says(Msg("status", i, 0)) /\ UNCHANGED <<srv, clock>>
      BY <1>5 DEF ServerReports
    <2>2. Msg("status", i, 0) \in Messages /\ Msg("status", i, 0).kind = "status"
      BY <1>2, MessageTypes DEF MsgKinds
    <2> QED BY <1>2, <2>1, <2>2, SaysTypes
  <1>6. CASE ServerStreams(i)
    <2>1. Says(Msg("pkt", i, srv[i].stamp)) /\ UNCHANGED <<srv, clock>>
      BY <1>6 DEF ServerStreams
    <2>2. Msg("pkt", i, srv[i].stamp) \in Messages /\ Msg("pkt", i, srv[i].stamp).kind = "pkt"
      BY <1>2, <1>3, MessageTypes DEF MsgKinds
    <2> QED BY <1>2, <2>1, <2>2, SaysTypes
  <1>7. CASE ServerSkips(i)
    <2>1. \/ /\ clock' = clock + 1 /\ Says(Msg("skip", i, clock + 1))
             /\ srv' = [srv EXCEPT ![i].skips = @ - 1, ![i].stamp = clock + 1]
          \/ /\ Says(Msg("skip", i, 0))
             /\ srv' = [srv EXCEPT ![i].skips = @ - 1] /\ UNCHANGED clock
      BY <1>7 DEF ServerSkips
    <2>2. srv[i].skips - 1 \in Nat
      BY <1>3, <1>7 DEF ServerSkips
    <2>3. /\ [srv[i] EXCEPT !.skips = @ - 1, !.stamp = clock + 1] \in ServerRecords
          /\ [srv[i] EXCEPT !.skips = @ - 1] \in ServerRecords
      BY <1>2, <1>3, <2>2 DEF ServerRecords
    <2>4. \/ srv' = [srv EXCEPT ![i] = [srv[i] EXCEPT !.skips = @ - 1, !.stamp = clock + 1]]
          \/ srv' = [srv EXCEPT ![i] = [srv[i] EXCEPT !.skips = @ - 1]]
      BY <2>1
    <2>5. DOMAIN srv' \subseteq Nat /\ \A j \in DOMAIN srv' : srv'[j] \in ServerRecords
      BY <1>2, <2>3, <2>4
    <2>6. \A v \in Nat : Msg("skip", i, v) \in Messages /\ Msg("skip", i, v).kind = "skip"
      BY <1>2, MessageTypes DEF MsgKinds
    <2>7. (\E v \in Nat : Says(Msg("skip", i, v))) /\ clock' \in Nat
      BY <1>2, <2>1
    <2> QED BY <2>5, <2>6, <2>7, SaysTypes
  <1>8. CASE ServerSetsSpeed(i)
    <2>1. /\ srv' = [srv EXCEPT ![i].told = TRUE]
          /\ Says(Msg("speed", i, srv[i].speed)) /\ clock' = clock
      BY <1>8 DEF ServerSetsSpeed
    <2>2. [srv[i] EXCEPT !.told = TRUE] \in ServerRecords
      BY <1>3 DEF ServerRecords
    <2>3. srv' = [srv EXCEPT ![i] = [srv[i] EXCEPT !.told = TRUE]]
      BY <2>1
    <2>4. DOMAIN srv' \subseteq Nat /\ \A j \in DOMAIN srv' : srv'[j] \in ServerRecords
      BY <1>2, <2>2, <2>3
    <2>5. /\ Msg("speed", i, srv[i].speed) \in Messages
          /\ Msg("speed", i, srv[i].speed).val \in Speeds
      BY <1>2, <1>3, MessageTypes DEF MsgKinds
    <2> QED BY <1>2, <2>1, <2>4, <2>5, SaysTypes
  <1> QED BY <1>1, <1>4, <1>5, <1>6, <1>7, <1>8

\* Every step.
LEMMA NextTypes ==
  ASSUME TypeInv, [Next]_vars
  PROVE  TypeInv'
  <1>1. CASE Requests
    BY <1>1, RequestsTypes
  <1>2. CASE Player
    BY <1>2, OpenCloseTypes, SeekTypes, SpeedTypes, ReadTypes DEF Player
  <1>3. CASE App
    BY <1>3, AppTypes
  <1>4. CASE Process
    BY <1>4, ProcessTypes
  <1>5. CASE Connection
    BY <1>5, ReadMessageTypes, HandlersTypes, ReconnectTypes DEF Connection
  <1>6. CASE Loses
    BY <1>6, LosesTypes
  <1>7. CASE Server
    BY <1>7, ServerActionTypes
  <1>8. CASE UNCHANGED vars
    BY <1>8, KeptTypes DEF vars, TypeInv
  <1> QED BY <1>1, <1>2, <1>3, <1>4, <1>5, <1>6, <1>7, <1>8 DEF Next

\* The variables of the demuxer, of the requests and of what is on its way keep
\* their types, whatever is called, refused, lost and given up: among others, a
\* speed that the server confirms is one that can be set.
THEOREM LiveTypes == Spec => []TypeOK
  <1>1. TypeInv /\ [Next]_vars => TypeInv'
    BY NextTypes
  <1>2. Spec => []TypeInv
    BY <1>1, InitTypes, PTL DEF Spec
  <1> QED BY <1>2, TypeInvImplies, PTL

-----------------------------------------------------------------------------
(***************************************************************************)
(* Until the connection is lost for the first time, nobody gives up, the   *)
(* Process thread has nothing to do, and the player asks one thing after   *)
(* the other; so one can say what is on its way to it.                     *)
(***************************************************************************)
player == call["player"]

\* The connection is registered, and nobody but the player waits for anything.
Undisturbed ==
  /\ link = "up" /\ ~pending
  /\ call["process"].at = "idle" /\ call["app"].at \in {"idle", "run"}

\* What the player asks for, and what it does behind the end of a subscription.
Asked == {"openUnsub", "openSub", "openUndo", "closeUnsub", "seekSend", "speedSend", "fillSend"}
Clears == {"openClear", "closeClear", "closeReset"}
\* The player is at rest, waits for an answer or for a jump, or clears the buffer.
PlayerAt ==
  \/ player.at = "idle" /\ player.op = "none"
  \/ player.at = "run" /\ player.op \in Clears
  \/ player.at = "wait" /\ player.op \in Asked \cup {"seekGet"}

\* There is one response on its way to a player that waits for one, and none else.
Awaits == player.op \in Asked /\ player.res = "none"
IsResponse(k) == net[k].kind = "resp"
OneAnswer ==
  /\ \A k \in DOMAIN net : IsResponse(k) => Awaits /\ net[k].to = "player"
  /\ \A k, l \in DOMAIN net : IsResponse(k) /\ IsResponse(l) => k = l
  /\ Awaits => \E k \in DOMAIN net : IsResponse(k)

\* The server has no subscription but the current one, and that only while it is
\* being opened or is played.
Ending == player.op \in Unsubscribes
ServedOnly ==
  /\ DOMAIN srv \subseteq {sub.id}
  /\ DOMAIN srv # {} => /\ ~Ending /\ player.op \notin Clears
                        /\ player.op = "openSub" \/ (playing /\ sub.active)

\* Once the player knows that the server has ended the subscription, or that there
\* is none, nothing is on its way: the response to the request that ends it is the
\* last thing the server says.
LastWord == Ending => \A k \in DOMAIN net : IsResponse(k) => k = Len(net)
Drained ==
  DOMAIN srv = {} /\ ~(Ending /\ Awaits) =>
    hand = None /\ \A k \in DOMAIN net : IsResponse(k)

\* All that is on its way or in the buffer is of the current subscription.
ThisOne ==
  /\ \A k \in DOMAIN net : ~IsResponse(k) => net[k].id = sub.id
  /\ hand # None => hand.id = sub.id
  /\ \A k \in DOMAIN buf : buf[k].id = sub.id
  /\ player.op = "openClear" => buf = <<>>

\* The packets that come behind the first n messages, and those that the server
\* is still to send, belong to stamp v or a later one.
Follows(nt, sv, ck, n, v) ==
  /\ \A k \in DOMAIN nt : k > n /\ nt[k].kind = "pkt" => nt[k].val >= v
  /\ \A i \in DOMAIN sv : sv[i].stamp >= v
  /\ v <= ck

\* Packets come behind the jump to the position they belong to.
BufferInOrder == \A k \in DOMAIN buf : buf[k].stamp >= since /\ buf[k].stamp >= seekGot.time
InOrder ==
  /\ Follows(net, srv, clock, 0, since) /\ Follows(net, srv, clock, 0, seekGot.time)
  /\ hand.kind = "pkt" => hand.val >= since /\ hand.val >= seekGot.time
  /\ hand.kind = "skip" => Follows(net, srv, clock, 0, hand.val)
  /\ \A k \in DOMAIN net : net[k].kind = "skip" => Follows(net, srv, clock, k, net[k].val)
  /\ BufferInOrder

\* What holds until the connection is lost for the first time.
Core == /\ Undisturbed /\ PlayerAt /\ OneAnswer /\ ServedOnly
        /\ LastWord /\ Drained /\ ThisOne /\ InOrder

\* The inductive invariant, beside TypeInv.
LInv == losses = 0 => Core

\* It holds initially.
LEMMA InitCore == Init => Core
  <1> SUFFICES ASSUME Init PROVE Core
    OBVIOUS
  <1>1. /\ link = "up" /\ pending = FALSE /\ srv = NoServer /\ net = <<>> /\ hand = None /\ clock = 0
        /\ seekGot = [flag |-> FALSE, time |-> 0] /\ buf = <<>> /\ since = 0
        /\ sub = [id |-> 0, speed |-> 1, active |-> FALSE]
    BY DEF Init
  <1>2. \A t \in Threads : call[t].op = "none" /\ call[t].at = "idle" /\ call[t].res = "none"
    BY DEF Init, Idle
  <1>3. Undisturbed /\ PlayerAt
    BY <1>1, <1>2 DEF Undisturbed, PlayerAt, player, Threads
  <1>4. player.op = "none" /\ ~Awaits /\ ~Ending
    BY <1>2 DEF player, Threads, Awaits, Ending, Asked, Unsubscribes
  <1>5. DOMAIN srv = {} /\ DOMAIN net = {} /\ DOMAIN buf = {}
    BY <1>1 DEF NoServer
  <1>6. OneAnswer /\ ServedOnly /\ LastWord /\ Drained /\ ThisOne
    BY <1>1, <1>4, <1>5 DEF OneAnswer, ServedOnly, LastWord, Drained, ThisOne
  <1>7. \A n, v \in Nat : v = 0 => Follows(net, srv, clock, n, v)
    BY <1>1, <1>5 DEF Follows
  <1>8. seekGot.time = 0 /\ hand.kind = "none"
    BY <1>1 DEF None
  <1>9. InOrder
    BY <1>1, <1>5, <1>7, <1>8 DEF InOrder, BufferInOrder
  <1> QED BY <1>3, <1>6, <1>9 DEF Core

-----------------------------------------------------------------------------
(***************************************************************************)
(* What is on its way.                                                     *)
(***************************************************************************)
\* Messages and responses are told apart by their kind.
LEMMA Kinds ==
  /\ \A m \in Messages : m.kind \in MsgKinds /\ m.kind # "resp" /\ m.id \in Nat /\ m.val \in Nat
  /\ \A m \in Responses : m.kind = "resp" /\ m.to \in Threads /\ m.res \in {"ok", "null"}
  /\ None.kind = "none"
  BY DEF Messages, Responses, MsgKinds, None

\* The messages that are on their way, and those that are when one is added.
LEMMA Positions ==
  ASSUME TypeInv
  PROVE  /\ Len(net) \in Nat /\ DOMAIN net = 1..Len(net)
         /\ \A k \in DOMAIN net : k \in Nat /\ net[k] \in Messages \cup Responses
  BY DEF TypeInv, ServerTypes

\* The messages that are on their way when one is added.
LEMMA Appended ==
  ASSUME TypeInv, NEW m, net' = Append(net, m)
  PROVE  /\ Len(net') = Len(net) + 1 /\ DOMAIN net' = 1..(Len(net) + 1)
         /\ net'[Len(net) + 1] = m
         /\ \A k \in DOMAIN net : net'[k] = net[k]
         /\ \A k \in DOMAIN net' : k \in DOMAIN net \/ (k = Len(net) + 1 /\ net'[k] = m)
  BY DEF TypeInv, ServerTypes

\* The numbers that stamps are compared with.
LEMMA Stamps ==
  ASSUME TypeInv
  PROVE  /\ since \in Nat /\ seekGot.time \in Nat /\ clock \in Nat /\ hand.val \in Nat
         /\ \A k \in DOMAIN buf : buf[k].stamp \in Nat
         /\ \A i \in DOMAIN srv : srv[i].stamp \in Nat
         /\ \A k \in DOMAIN net : net[k].kind # "resp" => net[k] \in Messages /\ net[k].val \in Nat
  <1>1. since \in Nat
    BY DEF TypeInv, KodiTypes
  <1>2. seekGot.time \in Nat
    BY DEF TypeInv, DemuxTypes
  <1>3. clock \in Nat /\ \A i \in DOMAIN srv : srv[i].stamp \in Nat
    BY DEF TypeInv, ServerTypes, ServerRecords
  <1>4. hand.val \in Nat
    BY DEF TypeInv, HandTypes, Messages, None
  <1>5. \A k \in DOMAIN buf : buf[k].stamp \in Nat
    <2>1. buf \in Seq([id : Nat, stamp : Nat])
      BY DEF TypeInv, DemuxTypes
    <2>2. \A S : \A s \in Seq(S) : \A k \in DOMAIN s : s[k] \in S
      OBVIOUS
    <2>3. \A k \in DOMAIN buf : buf[k] \in [id : Nat, stamp : Nat]
      BY <2>1, <2>2, Zenon
    <2> QED BY <2>3
  <1>6. \A k \in DOMAIN net : net[k].kind # "resp" => net[k] \in Messages /\ net[k].val \in Nat
    BY Positions, Kinds
  <1> QED BY <1>1, <1>2, <1>3, <1>4, <1>5, <1>6

-----------------------------------------------------------------------------
(***************************************************************************)
(* Steps, by what they do to what is on its way.                           *)
(***************************************************************************)
\* New stamps are later than all that have been given.
StampsGrow ==
  /\ clock <= clock'
  /\ \A j \in DOMAIN srv' : srv'[j].stamp >= clock
                              \/ (j \in DOMAIN srv /\ srv'[j].stamp = srv[j].stamp)

\* A packet that the server adds is of the position it plays from.
LEMMA FollowsOn ==
  ASSUME TypeInv, TypeInv', StampsGrow,
         NEW m \in Messages \cup Responses, net' = net \/ net' = Append(net, m),
         m.kind = "pkt" => \E i \in DOMAIN srv : m.val = srv[i].stamp,
         NEW n \in Nat, NEW v \in Nat, Follows(net, srv, clock, n, v)
  PROVE  Follows(net', srv', clock', n, v)
  <1>1. /\ \A k \in DOMAIN net : k > n /\ net[k].kind = "pkt" => net[k].val >= v
        /\ \A i \in DOMAIN srv : srv[i].stamp >= v
        /\ v <= clock
    BY DEF Follows
  <1>2. clock \in Nat /\ clock' \in Nat /\ \A j \in DOMAIN srv' : srv'[j].stamp \in Nat
    BY DEF TypeInv, ServerTypes, ServerRecords
  <1>3. v <= clock'
    BY <1>1, <1>2 DEF StampsGrow
  <1>4. ASSUME NEW j \in DOMAIN srv' PROVE srv'[j].stamp >= v
    BY <1>1, <1>2, <1>4 DEF StampsGrow
  <1>5. ASSUME NEW k \in DOMAIN net', k > n, net'[k].kind = "pkt" PROVE net'[k].val >= v
    <2>1. CASE net' = net
      BY <1>1, <1>5, <2>1
    <2>2. CASE net' = Append(net, m)
      <3>1. CASE k \in DOMAIN net
        BY <1>1, <1>5, <2>2, <3>1, Appended
      <3>2. CASE k \notin DOMAIN net
        <4>1. net'[k] = m
          BY <2>2, <3>2, Appended
        <4> QED BY <1>1, <1>5, <4>1
      <3> QED BY <3>1, <3>2
    <2> QED BY <2>1, <2>2
  <1> QED BY <1>3, <1>4, <1>5 DEF Follows

\* Steps other than to read a message: the order of stamps is kept.
LEMMA OrderKept ==
  ASSUME TypeInv, TypeInv', InOrder, StampsGrow,
         NEW m \in Messages \cup Responses, net' = net \/ net' = Append(net, m),
         m.kind = "pkt" => \E i \in DOMAIN srv : m.val = srv[i].stamp,
         m.kind = "skip" => m.val <= clock' /\ \A j \in DOMAIN srv' : srv'[j].stamp >= m.val,
         \/ hand' = hand /\ seekGot'.time \in {0, seekGot.time}
         \/ hand' = None /\ seekGot'.time = seekGot.time
         \/ hand' = None /\ hand.kind = "skip" /\ seekGot'.time = hand.val,
         since' \in {0, since, seekGot.time}, BufferInOrder'
  PROVE  InOrder'
  <1>0. \A n, v \in Nat : Follows(net, srv, clock, n, v) => Follows(net', srv', clock', n, v)
    BY FollowsOn
  <1>1. /\ since \in Nat /\ seekGot.time \in Nat /\ hand.val \in Nat /\ clock' \in Nat
        /\ \A j \in DOMAIN srv' : srv'[j].stamp \in Nat
        /\ \A k \in DOMAIN net' : net'[k].kind # "resp" => net'[k].val \in Nat
    <2>1. clock' \in Nat /\ \A j \in DOMAIN srv' : srv'[j].stamp \in Nat
      BY DEF TypeInv, ServerTypes, ServerRecords
    <2>2. \A k \in DOMAIN net' : net'[k] \in Messages \cup Responses
      BY DEF TypeInv, ServerTypes
    <2> QED BY <2>1, <2>2, Stamps, Kinds
  <1>2. Follows(net', srv', clock', 0, 0)
    BY <1>1 DEF Follows, MsgKinds
  <1>3. Follows(net', srv', clock', 0, since) /\ Follows(net', srv', clock', 0, seekGot.time)
    BY <1>0, <1>1 DEF InOrder
  <1>4. Follows(net', srv', clock', 0, since')
    BY <1>2, <1>3
  <1>5. Follows(net', srv', clock', 0, seekGot'.time)
    BY <1>0, <1>1, <1>2, <1>3 DEF InOrder
  <1>6. hand'.kind = "pkt" => hand'.val >= since' /\ hand'.val >= seekGot'.time
    <2>1. CASE hand' = None
      BY <2>1, Kinds
    <2>2. CASE hand' = hand /\ seekGot'.time \in {0, seekGot.time}
      BY <2>2, <1>1 DEF InOrder
    <2> QED BY <2>1, <2>2
  <1>7. hand'.kind = "skip" => Follows(net', srv', clock', 0, hand'.val)
    <2>1. CASE hand' = None
      BY <2>1, Kinds
    <2>2. CASE hand' = hand
      BY <2>2, <1>0, <1>1 DEF InOrder
    <2> QED BY <2>1, <2>2
  <1>8. ASSUME NEW k \in DOMAIN net', net'[k].kind = "skip"
        PROVE  Follows(net', srv', clock', k, net'[k].val)
    <2>1. CASE k \in DOMAIN net
      <3>1. net'[k] = net[k]
        BY <2>1, Appended
      <3>2. k \in Nat
        BY <2>1, Positions
      <3>3. net[k].val \in Nat
        BY <1>1, <1>8, <3>1
      <3> QED BY <1>0, <1>8, <2>1, <3>1, <3>2, <3>3 DEF InOrder
    <2>2. CASE k \notin DOMAIN net
      <3>1. net' = Append(net, m) /\ net'[k] = m /\ k = Len(net) + 1 /\ DOMAIN net' = 1..(Len(net) + 1)
        BY <2>2, Appended
      <3>2. \A l \in DOMAIN net' : ~(l > k)
        BY <3>1, Positions
      <3> QED BY <1>8, <3>1, <3>2 DEF Follows
    <2> QED BY <2>1, <2>2
  <1> QED BY <1>4, <1>5, <1>6, <1>7, <1>8 DEF InOrder

\* Steps that leave alone what the server has and what is on its way. (The message
\* that the connection thread has in its hand may be dealt with.)
LEMMA MovesOn ==
  ASSUME TypeInv, TypeInv', Core, Undisturbed', PlayerAt',
         UNCHANGED <<net, srv, clock>>, sub'.id = sub.id,
         (~Awaits /\ ~Awaits') \/ player' = player,
         DOMAIN srv # {} => /\ ~Ending' /\ player'.op \notin Clears
                            /\ player'.op = "openSub" \/ (playing' /\ sub'.active),
         \A k \in DOMAIN buf' : buf'[k].id = sub.id,
         player'.op = "openClear" => buf' = <<>>,
         \/ hand' = hand /\ seekGot'.time \in {0, seekGot.time}
         \/ hand' = None /\ seekGot'.time = seekGot.time
         \/ hand' = None /\ hand.kind = "skip" /\ seekGot'.time = hand.val,
         since' \in {0, since, seekGot.time}, BufferInOrder'
  PROVE  Core'
  <1>0. /\ Undisturbed /\ PlayerAt /\ OneAnswer /\ ServedOnly
        /\ LastWord /\ Drained /\ ThisOne /\ InOrder
    BY DEF Core
  <1>1. OneAnswer'
    <2>1. CASE ~Awaits /\ ~Awaits'
      BY <1>0, <2>1 DEF OneAnswer, IsResponse
    <2>2. CASE player' = player
      <3>1. Awaits' = Awaits
        BY <2>2 DEF Awaits
      <3> QED BY <1>0, <3>1 DEF OneAnswer, IsResponse
    <2> QED BY <2>1, <2>2
  <1>2. ServedOnly'
    BY <1>0 DEF ServedOnly
  <1>3. LastWord'
    BY <1>0 DEF LastWord, OneAnswer, IsResponse, Ending
  <1>4. Drained'
    <2>1. SUFFICES ASSUME DOMAIN srv = {}, ~(Ending' /\ Awaits')
          PROVE  hand' = None /\ \A k \in DOMAIN net : net[k].kind = "resp"
      BY DEF Drained, IsResponse
    <2>2. ~(Ending /\ Awaits)
      BY <2>1 DEF Ending, Awaits
    <2> QED BY <1>0, <2>1, <2>2 DEF Drained, IsResponse
  <1>5. ThisOne'
    BY <1>0 DEF ThisOne, IsResponse
  <1>6. Response("player", "ok") \in Responses /\ Response("player", "ok").kind = "resp"
    BY ResponseTypes DEF Threads
  <1>7. StampsGrow
    BY DEF StampsGrow, TypeInv, ServerTypes
  <1>8. InOrder'
    BY <1>0, <1>6, <1>7, OrderKept
  <1> QED BY <1>1, <1>2, <1>3, <1>4, <1>5, <1>8 DEF Core

\* The player asks for something.
LEMMA Asking ==
  ASSUME TypeInv, TypeInv', Core, Undisturbed', PlayerAt', StampsGrow,
         NEW res \in {"ok", "null"}, net' = Append(net, Response("player", res)),
         ~Awaits, Awaits', UNCHANGED <<hand, buf, since>>,
         sub'.id = sub.id \/ (DOMAIN srv = {} /\ buf = <<>>),
         DOMAIN srv' \subseteq {sub'.id},
         DOMAIN srv' # {} => /\ ~Ending' /\ player'.op \notin Clears
                             /\ player'.op = "openSub" \/ (playing' /\ sub'.active),
         DOMAIN srv' = {} /\ ~Ending' => DOMAIN srv = {},
         seekGot'.time \in {0, seekGot.time}
  PROVE  Core'
  <1>0. /\ Undisturbed /\ PlayerAt /\ OneAnswer /\ ServedOnly
        /\ LastWord /\ Drained /\ ThisOne /\ InOrder
    BY DEF Core
  <1>1. /\ Response("player", res) \in Responses /\ Response("player", res).kind = "resp"
        /\ Response("player", res).to = "player"
    BY ResponseTypes DEF Threads, Response
  <1>2. \A k \in DOMAIN net : net[k].kind # "resp"
    BY <1>0 DEF OneAnswer, IsResponse
  <1>3. /\ Len(net') = Len(net) + 1 /\ Len(net) + 1 \in DOMAIN net'
        /\ net'[Len(net) + 1] = Response("player", res)
        /\ \A k \in DOMAIN net' : net'[k].kind = "resp" => k = Len(net) + 1
        /\ \A k \in DOMAIN net' : net'[k].kind # "resp" => k \in DOMAIN net /\ net'[k] = net[k]
    BY <1>1, <1>2, Appended, Positions
  <1>4. OneAnswer'
    BY <1>1, <1>3 DEF OneAnswer, IsResponse
  <1>5. ServedOnly'
    BY DEF ServedOnly
  <1>6. LastWord'
    BY <1>3 DEF LastWord, IsResponse
  <1>7. ~(Ending /\ Awaits)
    OBVIOUS
  <1>8. DOMAIN srv = {} => hand = None /\ DOMAIN net = {}
    BY <1>0, <1>2, <1>7 DEF Drained, IsResponse
  <1>9. Drained'
    BY <1>3, <1>8 DEF Drained, IsResponse
  <1>10. ThisOne'
    <2>1. player'.op # "openClear"
      BY DEF Awaits, Asked
    <2>2. CASE sub'.id = sub.id
      BY <1>0, <1>3, <2>1, <2>2 DEF ThisOne, IsResponse
    <2>3. CASE DOMAIN srv = {} /\ buf = <<>>
      BY <1>3, <1>8, <2>1, <2>3 DEF ThisOne, IsResponse
    <2> QED BY <2>2, <2>3
  <1>11. BufferInOrder'
    BY <1>0, Stamps DEF InOrder, BufferInOrder
  <1>12. InOrder'
    BY <1>0, <1>1, <1>11, OrderKept
  <1> QED BY <1>4, <1>5, <1>6, <1>9, <1>10, <1>12 DEF Core

\* When a message is read, the order of what comes behind it is kept.
LEMMA ReadsFollow ==
  ASSUME TypeInv, net # <<>>, net' = Tail(net), UNCHANGED <<srv, clock>>,
         NEW n \in Nat, NEW v \in Nat, Follows(net, srv, clock, n, v)
  PROVE  /\ Follows(net', srv', clock', n, v)
         /\ n > 0 => Follows(net', srv', clock', n - 1, v)
  <1>1. \A k \in DOMAIN net' : k \in Nat /\ k + 1 \in DOMAIN net /\ net'[k] = net[k + 1]
    BY DEF TypeInv, ServerTypes
  <1> QED BY <1>1 DEF Follows

\* To read the next message, or to be done with one, keeps the order.
LEMMA ReadsOn ==
  ASSUME TypeInv, InOrder, net # <<>>, net' = Tail(net),
         UNCHANGED <<srv, clock, since, seekGot, buf>>,
         hand' \in {hand, None} \/ (hand' = net[1] /\ net[1].kind # "resp")
  PROVE  InOrder'
  <1>1. /\ 1 \in DOMAIN net
        /\ \A k \in DOMAIN net' : k \in Nat /\ k + 1 \in DOMAIN net /\ net'[k] = net[k + 1]
    BY DEF TypeInv, ServerTypes
  <1>2. Follows(net', srv', clock', 0, since') /\ Follows(net', srv', clock', 0, seekGot'.time)
    BY ReadsFollow, Stamps DEF InOrder
  <1>3. hand'.kind = "pkt" => hand'.val >= since' /\ hand'.val >= seekGot'.time
    <2>1. CASE hand' \in {hand, None}
      BY <2>1, Kinds DEF InOrder
    <2>2. CASE hand' = net[1]
      BY <1>1, <2>2 DEF InOrder, Follows
    <2> QED BY <2>1, <2>2
  <1>4. hand'.kind = "skip" => Follows(net', srv', clock', 0, hand'.val)
    <2>1. CASE hand' \in {hand, None}
      BY <2>1, Kinds, ReadsFollow, Stamps DEF InOrder
    <2>2. CASE hand' = net[1] /\ net[1].kind # "resp"
      <3>1. SUFFICES ASSUME net[1].kind = "skip" PROVE Follows(net', srv', clock', 0, net[1].val)
        BY <2>2
      <3>2. Follows(net, srv, clock, 1, net[1].val) /\ net[1].val \in Nat
        BY <1>1, <2>2, <3>1, Stamps DEF InOrder
      <3> QED BY <3>2, ReadsFollow
    <2> QED BY <2>1, <2>2
  <1>5. ASSUME NEW k \in DOMAIN net', net'[k].kind = "skip"
        PROVE  Follows(net', srv', clock', k, net'[k].val)
    <2>1. k + 1 \in DOMAIN net /\ net[k + 1].kind = "skip" /\ net'[k] = net[k + 1] /\ k \in Nat
      BY <1>1, <1>5
    <2>2. Follows(net, srv, clock, k + 1, net[k + 1].val) /\ net[k + 1].val \in Nat
      BY <2>1, Stamps DEF InOrder
    <2>3. Follows(net', srv', clock', (k + 1) - 1, net[k + 1].val)
      BY <2>1, <2>2, ReadsFollow
    <2> QED BY <2>1, <2>3
  <1>6. BufferInOrder'
    BY DEF InOrder, BufferInOrder
  <1> QED BY <1>2, <1>3, <1>4, <1>5, <1>6 DEF InOrder

\* The connection thread reads a response, for which the player waits.
LEMMA ReadsResponse ==
  ASSUME TypeInv, TypeInv', Core, ReadMessage, net[1].kind = "resp"
  PROVE  Core'
  <1>0. /\ Undisturbed /\ PlayerAt /\ OneAnswer /\ ServedOnly
        /\ LastWord /\ Drained /\ ThisOne /\ InOrder
    BY DEF Core
  <1>1. /\ net # <<>> /\ net' = Tail(net) /\ hand = None
        /\ UNCHANGED <<linkVars, srv, clock, subVars, dmxVars, kodiVars>>
    BY DEF ReadMessage
  <1>2. /\ Head(net) = net[1] /\ 1 \in DOMAIN net
        /\ \A k \in DOMAIN net' : k + 1 \in DOMAIN net /\ net'[k] = net[k + 1]
    BY <1>1, NextMessage DEF TypeInv
  <1>3. call' = Answered(net[1]) /\ hand' = hand
    BY <1>2 DEF ReadMessage
  <1>4. Awaits /\ net[1].to = "player"
    BY <1>0, <1>2 DEF OneAnswer, IsResponse
  <1>5. player.at = "wait" /\ player.op \in Asked
    BY <1>0, <1>4 DEF PlayerAt, Awaits, Asked, Clears
  <1>6. net[1].res \in {"ok", "null"}
    BY <1>2, Positions, Kinds
  <1>7. call' = [call EXCEPT !["player"].res = net[1].res]
    BY <1>3, <1>4, <1>5 DEF Answered, player
  <1>8. /\ player'.op = player.op /\ player'.at = player.at /\ player'.res = net[1].res
        /\ call'["process"] = call["process"] /\ call'["app"] = call["app"]
    <2>1. player \in CallRecords /\ DOMAIN call = Threads
      BY DEF TypeInv, CallTypes, player, Threads
    <2> QED BY <1>7, <2>1 DEF player, CallRecords, Threads
  <1>9. ~Awaits'
    BY <1>6, <1>8 DEF Awaits
  <1>10. \A k \in DOMAIN net' : net'[k].kind # "resp"
    <2>1. ASSUME NEW k \in DOMAIN net', net'[k].kind = "resp" PROVE FALSE
      <3>1. k + 1 \in DOMAIN net /\ net[k + 1].kind = "resp"
        BY <1>2, <2>1
      <3>2. k + 1 = 1
        BY <1>0, <1>2, <3>1 DEF OneAnswer, IsResponse
      <3>3. k \in Nat \ {0}
        BY <1>1, <2>1 DEF TypeInv, ServerTypes
      <3> QED BY <3>2, <3>3
    <2> QED BY <2>1
  <1>11. Undisturbed' /\ PlayerAt'
    BY <1>0, <1>1, <1>8 DEF Undisturbed, PlayerAt, linkVars
  <1>12. OneAnswer'
    BY <1>9, <1>10 DEF OneAnswer, IsResponse
  <1>13. ServedOnly'
    BY <1>0, <1>1, <1>8 DEF ServedOnly, Ending, subVars, kodiVars
  <1>14. LastWord'
    BY <1>10 DEF LastWord, IsResponse
  <1>15. Drained'
    <2>1. SUFFICES ASSUME DOMAIN srv = {}
          PROVE  DOMAIN net' = {}
      BY <1>1, <1>3 DEF Drained, IsResponse
    <2>2. \A k \in DOMAIN net : net[k].kind = "resp"
      <3>1. CASE ~Ending
        BY <1>0, <2>1, <3>1 DEF Drained, IsResponse
      <3>2. CASE Ending
        <4>1. 1 = Len(net)
          BY <1>0, <1>2, <3>2 DEF LastWord, IsResponse
        <4> QED BY <4>1, Positions
      <3> QED BY <3>1, <3>2
    <2> QED BY <1>2, <1>10, <2>2
  <1>16. ThisOne'
    BY <1>0, <1>1, <1>2, <1>3, <1>8 DEF ThisOne, IsResponse, subVars, dmxVars
  <1>17. InOrder'
    BY <1>1, <1>3, ReadsOn DEF Core, InOrder, dmxVars, kodiVars
  <1> QED BY <1>11, <1>12, <1>13, <1>14, <1>15, <1>16, <1>17 DEF Core

\* It reads a message for the demuxer.
LEMMA ReadsMessage ==
  ASSUME TypeInv, TypeInv', Core, ReadMessage, net[1].kind # "resp"
  PROVE  Core'
  <1>0. /\ Undisturbed /\ PlayerAt /\ OneAnswer /\ ServedOnly
        /\ LastWord /\ Drained /\ ThisOne /\ InOrder
    BY DEF Core
  <1>1. /\ net # <<>> /\ net' = Tail(net) /\ hand = None
        /\ UNCHANGED <<linkVars, srv, clock, subVars, dmxVars, kodiVars>>
    BY DEF ReadMessage
  <1>2. /\ Head(net) = net[1] /\ 1 \in DOMAIN net
        /\ \A k \in DOMAIN net' : k + 1 \in DOMAIN net /\ net'[k] = net[k + 1]
    BY <1>1, NextMessage DEF TypeInv
  <1>3. Len(net') = Len(net) - 1 /\ DOMAIN net = 1..Len(net) /\ Len(net) \in Nat
        /\ DOMAIN net' = 1..(Len(net) - 1)
    BY <1>1 DEF TypeInv, ServerTypes
  <1>4. hand' \in {net[1], None} /\ call' = call /\ net[1].id = sub.id
    BY <1>0, <1>2 DEF ReadMessage, ThisOne, IsResponse
  <1>5. Undisturbed' /\ PlayerAt'
    BY <1>0, <1>1, <1>4 DEF Undisturbed, PlayerAt, linkVars, player
  <1>6. player' = player /\ Awaits' = Awaits /\ Ending' = Ending
    BY <1>4 DEF player, Awaits, Ending
  <1>7. OneAnswer'
    <2>1. \A k \in DOMAIN net' : IsResponse(k)' => Awaits' /\ net'[k].to = "player"
      BY <1>0, <1>2, <1>6 DEF OneAnswer, IsResponse
    <2>2. \A k, l \in DOMAIN net' : IsResponse(k)' /\ IsResponse(l)' => k = l
      BY <1>0, <1>2, <1>3 DEF OneAnswer, IsResponse
    <2>3. ASSUME Awaits' PROVE \E k \in DOMAIN net' : IsResponse(k)'
      <3>1. PICK k \in DOMAIN net : net[k].kind = "resp"
        BY <1>0, <1>6, <2>3 DEF OneAnswer, IsResponse
      <3>2. k # 1
        BY <3>1
      <3>3. k - 1 \in DOMAIN net' /\ net'[k - 1] = net[k]
        BY <1>2, <1>3, <3>1, <3>2
      <3> QED BY <3>1, <3>3 DEF IsResponse
    <2> QED BY <2>1, <2>2, <2>3 DEF OneAnswer
  <1>8. ServedOnly'
    BY <1>0, <1>1, <1>6 DEF ServedOnly, subVars, kodiVars
  <1>9. LastWord'
    <2>1. ASSUME Ending, NEW k \in DOMAIN net', net'[k].kind = "resp" PROVE k = Len(net) - 1
      BY <1>0, <1>2, <1>3, <2>1 DEF LastWord, IsResponse
    <2> QED BY <1>3, <1>6, <2>1 DEF LastWord, IsResponse
  <1>10. Drained'
    <2>1. ~(DOMAIN srv = {} /\ ~(Ending /\ Awaits))
      BY <1>0, <1>2 DEF Drained, IsResponse
    <2> QED BY <1>1, <1>6, <2>1 DEF Drained
  <1>11. ThisOne'
    BY <1>0, <1>1, <1>2, <1>4, <1>6 DEF ThisOne, IsResponse, subVars, dmxVars
  <1>12. InOrder'
    BY <1>0, <1>1, <1>4, ReadsOn DEF dmxVars, kodiVars
  <1> QED BY <1>5, <1>7, <1>8, <1>9, <1>10, <1>11, <1>12 DEF Core

\* The server says something of the subscription it has.
LEMMA Saying ==
  ASSUME TypeInv, TypeInv', Core, NEW m \in Messages, Says(m), m.id = sub.id,
         DOMAIN srv # {}, DOMAIN srv' = DOMAIN srv, StampsGrow,
         m.kind = "pkt" => \E i \in DOMAIN srv : m.val = srv[i].stamp,
         m.kind = "skip" => m.val <= clock' /\ \A j \in DOMAIN srv' : srv'[j].stamp >= m.val
  PROVE  Core'
  <1>0. /\ Undisturbed /\ PlayerAt /\ OneAnswer /\ ServedOnly
        /\ LastWord /\ Drained /\ ThisOne /\ InOrder
    BY DEF Core
  <1>1. /\ net' = Append(net, m)
        /\ UNCHANGED <<linkVars, hand, call, subVars, dmxVars, kodiVars>>
    BY DEF Says
  <1>2. m.kind # "resp"
    BY Kinds
  <1>3. /\ DOMAIN net' = 1..(Len(net) + 1)
        /\ \A k \in DOMAIN net : k \in DOMAIN net' /\ net'[k] = net[k]
        /\ \A k \in DOMAIN net' : k \in DOMAIN net \/ net'[k] = m
    BY <1>1, Appended, Positions
  <1>4. player' = player /\ Awaits' = Awaits /\ Ending' = Ending
    BY <1>1 DEF player, Awaits, Ending
  <1>5. Undisturbed' /\ PlayerAt'
    BY <1>0, <1>1 DEF Undisturbed, PlayerAt, linkVars, player
  <1>6. OneAnswer'
    BY <1>0, <1>2, <1>3, <1>4 DEF OneAnswer, IsResponse
  <1>7. ServedOnly'
    BY <1>0, <1>1, <1>4 DEF ServedOnly, subVars, kodiVars
  <1>8. LastWord' /\ Drained'
    BY <1>0, <1>4 DEF ServedOnly, LastWord, Drained
  <1>9. ThisOne'
    BY <1>0, <1>1, <1>2, <1>3, <1>4 DEF ThisOne, IsResponse, subVars, dmxVars
  <1>10. BufferInOrder'
    BY <1>0, <1>1 DEF InOrder, BufferInOrder, dmxVars, kodiVars
  <1>11. since' = since /\ seekGot' = seekGot /\ hand' = hand
    BY <1>1 DEF dmxVars, kodiVars
  <1>12. InOrder'
    BY <1>0, <1>1, <1>10, <1>11, OrderKept
  <1> QED BY <1>5, <1>6, <1>7, <1>8, <1>9, <1>12 DEF Core

-----------------------------------------------------------------------------
(***************************************************************************)
(* The actions.                                                            *)
(***************************************************************************)
LEMMA PlayerGoes ==
  ASSUME TypeInv, NEW c, call' = [call EXCEPT !["player"] = c]
  PROVE  /\ player' = c
         /\ call'["process"] = call["process"] /\ call'["app"] = call["app"]
  BY DEF TypeInv, CallTypes, player, Threads

\* Where a step of the player leads, and that it moves nobody else.
LEMMA PlayerPlaced ==
  ASSUME TypeInv
  PROVE  /\ Goes("player", Idle) =>
              /\ player'.op = "none" /\ player'.at = "idle" /\ player'.res = "none"
              /\ call'["process"] = call["process"] /\ call'["app"] = call["app"]
         /\ \A op, at : Goes("player", At(op, at)) =>
              /\ player'.op = op /\ player'.at = at /\ player'.res = "none"
              /\ call'["process"] = call["process"] /\ call'["app"] = call["app"]
  <1>1. ASSUME Goes("player", Idle)
        PROVE  /\ player' = Idle
               /\ call'["process"] = call["process"] /\ call'["app"] = call["app"]
    BY <1>1, PlayerGoes DEF Goes
  <1>2. ASSUME NEW op, NEW at, Goes("player", At(op, at))
        PROVE  /\ player' = At(op, at)
               /\ call'["process"] = call["process"] /\ call'["app"] = call["app"]
    BY <1>2, PlayerGoes DEF Goes
  <1>3. /\ Idle.op = "none" /\ Idle.at = "idle" /\ Idle.res = "none"
        /\ \A op, at : At(op, at).op = op /\ At(op, at).at = at /\ At(op, at).res = "none"
    BY DEF Idle, At
  <1> QED BY <1>1, <1>2, <1>3

\* A subscription that is changed in one field keeps the others.
LEMMA SubRecord ==
  ASSUME TypeInv
  PROVE  /\ sub.id \in Nat /\ sub.active \in BOOLEAN /\ sub.speed \in Speeds
         /\ [sub EXCEPT !.active = FALSE].id = sub.id
         /\ [sub EXCEPT !.active = TRUE].id = sub.id /\ [sub EXCEPT !.active = TRUE].active = TRUE
         /\ \A s : /\ [sub EXCEPT !.speed = s].id = sub.id
                   /\ [sub EXCEPT !.speed = s].active = sub.active
                   /\ [sub EXCEPT !.id = @ + 1, !.speed = s].id = sub.id + 1
  BY DEF TypeInv, SubTypes

\* A request on a connection that is registered is executed at once.
LEMMA Asks ==
  ASSUME TypeInv, Undisturbed, NEW op \in Gated, NEW i \in Nat, NEW arg \in Speeds,
         Ask("player", op, i, arg)
  PROVE  /\ player'.op = op /\ player'.at = "wait" /\ player'.res = "none"
         /\ call'["process"] = call["process"] /\ call'["app"] = call["app"]
         /\ \E res \in {"ok", "null"} : net' = Append(net, Response("player", res))
         /\ StampsGrow
         /\ op \in Unsubscribes => DOMAIN srv' = DOMAIN srv \ {i}
         /\ op \in Subscribes => /\ DOMAIN srv' \subseteq DOMAIN srv \cup {i}
                                 /\ DOMAIN srv \subseteq DOMAIN srv'
         /\ op \notin Subscribes \cup Unsubscribes => DOMAIN srv' = DOMAIN srv
  <1>1. Sends("player", op, i, arg)
    BY DEF Ask, Undisturbed, Ready
  <1>2. Executes("player", op, i, arg)
    BY <1>1 DEF Sends, Undisturbed, Alive
  <1>3. PICK res \in {"ok", "null"} :
          net' = Append(net, Response("player", res)) /\ Executed(res, op, i, arg)
    BY <1>2, ExecutesCases DEF Threads
  <1>4. /\ player' = [op |-> op, at |-> "wait", res |-> "none", id |-> i, arg |-> arg]
        /\ call'["process"] = call["process"] /\ call'["app"] = call["app"]
    BY <1>1, PlayerGoes DEF Sends
  <1>5. clock \in Nat /\ \A j \in DOMAIN srv : srv[j] \in ServerRecords
    BY DEF TypeInv, ServerTypes
  <1>6. /\ StampsGrow
        /\ op \in Unsubscribes => DOMAIN srv' = DOMAIN srv \ {i}
        /\ op \in Subscribes => /\ DOMAIN srv' \subseteq DOMAIN srv \cup {i}
                                /\ DOMAIN srv \subseteq DOMAIN srv'
        /\ op \notin Subscribes \cup Unsubscribes => DOMAIN srv' = DOMAIN srv
    <2>1. CASE res = "null" /\ op \notin Unsubscribes /\ UNCHANGED <<srv, clock>>
      BY <1>5, <2>1 DEF StampsGrow
    <2>2. CASE op \in Unsubscribes /\ clock' = clock /\ srv' = [j \in DOMAIN srv \ {i} |-> srv[j]]
      BY <1>5, <2>2 DEF StampsGrow, Unsubscribes, Subscribes
    <2>3. CASE /\ op \in Subscribes /\ clock' = clock + 1
               /\ srv' = [j \in DOMAIN srv \cup {i} |-> IF j # i THEN srv[j] ELSE
                            [speed |-> 1, told |-> TRUE, started |-> FALSE,
                             stamp |-> clock + 1, skips |-> 0]]
      BY <1>5, <2>3 DEF StampsGrow, Unsubscribes, Subscribes
    <2>4. CASE op = "seekSend" /\ clock' = clock /\ srv' = [srv EXCEPT ![i].skips = @ + 1]
      <3>1. DOMAIN srv' = DOMAIN srv
        BY <2>4
      <3>2. \A j \in DOMAIN srv : srv'[j].stamp = srv[j].stamp
        BY <1>5, <2>4 DEF ServerRecords
      <3> QED BY <1>5, <2>4, <3>1, <3>2 DEF StampsGrow, Unsubscribes, Subscribes
    <2>5. CASE /\ op \notin Subscribes \cup Unsubscribes /\ clock' = clock
               /\ srv' = [srv EXCEPT ![i].speed = arg, ![i].told = @ /\ srv[i].speed = arg]
      <3>1. DOMAIN srv' = DOMAIN srv
        BY <2>5
      <3>2. \A j \in DOMAIN srv : srv'[j].stamp = srv[j].stamp
        BY <1>5, <2>5 DEF ServerRecords
      <3> QED BY <1>5, <2>5, <3>1, <3>2 DEF StampsGrow, Unsubscribes, Subscribes
    <2> QED BY <1>3, <2>1, <2>2, <2>3, <2>4, <2>5 DEF Executed
  <1> QED BY <1>3, <1>4, <1>6

\* Close, as Kodi calls it and as Open does, ends the subscription if there is one.
LEMMA CloseCore ==
  ASSUME TypeInv, TypeInv', Core, player.at = "idle",
         NEW unsub \in {"openUnsub", "closeUnsub"}, NEW clear \in {"openClear", "closeClear"},
         Close0(unsub, clear), UNCHANGED <<linkVars, hand, seekGot, playing, since>>
  PROVE  Core'
  <1>0. Undisturbed /\ PlayerAt /\ ServedOnly /\ InOrder /\ ThisOne
    BY DEF Core
  <1>1. player.op = "none" /\ ~Awaits
    BY <1>0 DEF PlayerAt, Awaits, Asked
  <1>2. CASE sub.active
    <2>1. /\ sub' = [sub EXCEPT !.active = FALSE]
          /\ Ask("player", unsub, sub.id, 1) /\ buf' = buf
      BY <1>2 DEF Close0
    <2>2. /\ player'.op = unsub /\ player'.at = "wait" /\ player'.res = "none"
          /\ call'["process"] = call["process"] /\ call'["app"] = call["app"]
          /\ \E res \in {"ok", "null"} : net' = Append(net, Response("player", res))
          /\ StampsGrow /\ DOMAIN srv' = DOMAIN srv \ {sub.id}
      <3>1. unsub \in Gated /\ unsub \in Unsubscribes /\ 1 \in Speeds /\ sub.id \in Nat
        BY SubRecord DEF Gated, Unsubscribes, Speeds
      <3> QED BY <1>0, <2>1, <3>1, Asks
    <2>3. Undisturbed' /\ PlayerAt' /\ Awaits' /\ Ending'
      BY <1>0, <2>2 DEF Undisturbed, PlayerAt, Awaits, Ending, Asked, Unsubscribes, linkVars
    <2>4. DOMAIN srv' = {}
      BY <1>0, <2>2 DEF ServedOnly
    <2>5. sub'.id = sub.id
      BY <2>1, SubRecord
    <2> QED BY <1>1, <2>1, <2>2, <2>3, <2>4, <2>5, Asking
  <1>3. CASE ~sub.active
    <2>1. buf' = <<>> /\ Goes("player", At(clear, "run")) /\ UNCHANGED <<sub, srvVars>>
      BY <1>3 DEF Close0
    <2>2. /\ player'.op = clear /\ player'.at = "run"
          /\ call'["process"] = call["process"] /\ call'["app"] = call["app"]
      BY <2>1, PlayerPlaced
    <2>3. Undisturbed' /\ PlayerAt' /\ ~Awaits'
      BY <1>0, <2>2 DEF Undisturbed, PlayerAt, Awaits, Clears, Asked, linkVars
    <2>4. DOMAIN srv = {}
      BY <1>0, <1>1, <1>3 DEF ServedOnly
    <2>5. BufferInOrder'
      BY <2>1 DEF BufferInOrder
    <2> QED BY <1>1, <2>1, <2>3, <2>4, <2>5, MovesOn DEF srvVars
  <1> QED BY <1>2, <1>3

\* The player goes on behind a request that has been answered, or behind what it
\* has done between two.
LEMMA Continuing ==
  ASSUME Core, NEW op, Continues("player", op)
  PROVE  /\ player.op = op /\ ~Awaits
         /\ \A k \in DOMAIN net : net[k].kind # "resp"
  BY DEF Core, Continues, player, Awaits, OneAnswer, IsResponse, PlayerAt, Asked, Clears

\* The answer to an unsubscribe was the last thing on its way.
LEMMA FlushCore ==
  ASSUME TypeInv, TypeInv', Core,
         NEW unsub \in {"openUnsub", "closeUnsub"}, NEW clear \in {"openClear", "closeClear"},
         Flushes(unsub, clear)
  PROVE  Core'
  <1>0. Undisturbed /\ ServedOnly
    BY DEF Core
  <1>1. player.op = unsub /\ ~Awaits
    BY Continuing DEF Flushes
  <1>2. /\ buf' = <<>> /\ Goes("player", At(clear, "run"))
        /\ UNCHANGED <<linkVars, srvVars, hand, subVars, seekp, seekGot, streams, source, fed, kodiVars>>
    BY DEF Flushes
  <1>3. /\ player'.op = clear /\ player'.at = "run"
        /\ call'["process"] = call["process"] /\ call'["app"] = call["app"]
    BY <1>2, PlayerPlaced
  <1>4. Undisturbed' /\ PlayerAt' /\ ~Awaits'
    BY <1>0, <1>2, <1>3 DEF Undisturbed, PlayerAt, Awaits, Clears, Asked, linkVars
  <1>5. DOMAIN srv = {}
    BY <1>0, <1>1 DEF ServedOnly, Ending, Unsubscribes
  <1>6. BufferInOrder'
    BY <1>2 DEF BufferInOrder
  <1> QED BY <1>1, <1>2, <1>4, <1>5, <1>6, MovesOn DEF srvVars, subVars, kodiVars

\* A new subscription starts when nothing is on its way.
LEMMA OpenCore ==
  ASSUME TypeInv, TypeInv', Core, OpenSubscribes \/ OpenSubscribed \/ OpenFails
  PROVE  Core'
  <1>0. Undisturbed /\ ServedOnly /\ InOrder /\ ThisOne /\ Drained
    BY DEF Core
  <1>00. BufferInOrder /\ since \in Nat /\ seekGot.time \in Nat
         /\ \A k \in DOMAIN buf : buf[k].stamp \in Nat
    BY <1>0, Stamps DEF InOrder
  <1>1. CASE OpenSubscribes
    <2>1. /\ sub' = [sub EXCEPT !.id = @ + 1, !.speed = 1]
          /\ Ask("player", "openSub", sub.id + 1, 1)
          /\ UNCHANGED <<linkVars, hand, seekGot, buf, kodiVars>>
      BY <1>1 DEF OpenSubscribes
    <2>2. player.op = "openClear" /\ ~Awaits
      BY <1>1, Continuing DEF OpenSubscribes
    <2>3. DOMAIN srv = {} /\ buf = <<>>
      BY <1>0, <2>2 DEF ServedOnly, ThisOne, Clears
    <2>4. /\ player'.op = "openSub" /\ player'.at = "wait" /\ player'.res = "none"
          /\ call'["process"] = call["process"] /\ call'["app"] = call["app"]
          /\ \E res \in {"ok", "null"} : net' = Append(net, Response("player", res))
          /\ StampsGrow /\ DOMAIN srv' \subseteq DOMAIN srv \cup {sub.id + 1}
      <3>1. sub.id + 1 \in Nat /\ 1 \in Speeds /\ "openSub" \in Gated /\ "openSub" \in Subscribes
        BY SubRecord DEF Speeds, Gated, Subscribes
      <3> QED BY <1>0, <2>1, <3>1, Asks
    <2>5. Undisturbed' /\ PlayerAt' /\ Awaits' /\ ~Ending'
      BY <1>0, <2>1, <2>4 DEF Undisturbed, PlayerAt, Awaits, Ending, Asked, Unsubscribes, linkVars
    <2>6. sub'.id = sub.id + 1
      BY <2>1, SubRecord
    <2>7. DOMAIN srv' \subseteq {sub'.id} /\ player'.op \notin Clears
      BY <2>3, <2>4, <2>6 DEF Clears
    <2> QED BY <2>1, <2>2, <2>3, <2>4, <2>5, <2>7, Asking DEF kodiVars
  <1>2. CASE OpenSubscribed
    <2>1. /\ player.op = "openSub" /\ ~Awaits
          /\ UNCHANGED <<linkVars, hand, requested, actual, seekp, seekGot, streams, buf, calls, crashed>>
      BY <1>2, Continuing DEF OpenSubscribed
    <2>2. CASE /\ sub' = [sub EXCEPT !.active = TRUE]
               /\ playing' = TRUE /\ since' = 0
               /\ Goes("player", Idle) /\ UNCHANGED srvVars
      <3>1. /\ player'.op = "none" /\ player'.at = "idle"
            /\ call'["process"] = call["process"] /\ call'["app"] = call["app"]
        BY <2>2, PlayerPlaced
      <3>2. Undisturbed' /\ PlayerAt' /\ ~Awaits' /\ ~Ending' /\ player'.op \notin Clears
        BY <1>0, <2>1, <3>1
           DEF Undisturbed, PlayerAt, Awaits, Asked, Ending, Unsubscribes, Clears, linkVars
      <3>3. sub'.id = sub.id /\ sub'.active
        BY <2>2, SubRecord
      <3>4. BufferInOrder'
        BY <1>00, <2>1, <2>2 DEF BufferInOrder
      <3>5. \A k \in DOMAIN buf' : buf'[k].id = sub.id
        BY <1>0, <2>1 DEF ThisOne
      <3> QED BY <2>1, <2>2, <3>1, <3>2, <3>3, <3>4, <3>5, MovesOn DEF srvVars
    <2>3. CASE Ask("player", "openUndo", sub.id, 1) /\ UNCHANGED <<sub, fed, playing, since>>
      <3>1. /\ player'.op = "openUndo" /\ player'.at = "wait" /\ player'.res = "none"
            /\ call'["process"] = call["process"] /\ call'["app"] = call["app"]
            /\ \E res \in {"ok", "null"} : net' = Append(net, Response("player", res))
            /\ StampsGrow /\ DOMAIN srv' = DOMAIN srv \ {sub.id}
        <4>1. sub.id \in Nat /\ 1 \in Speeds /\ "openUndo" \in Gated /\ "openUndo" \in Unsubscribes
          BY SubRecord DEF Speeds, Gated, Unsubscribes
        <4> QED BY <1>0, <2>3, <4>1, Asks
      <3>2. Undisturbed' /\ PlayerAt' /\ Awaits' /\ Ending'
        BY <1>0, <2>1, <3>1 DEF Undisturbed, PlayerAt, Awaits, Ending, Asked, Unsubscribes, linkVars
      <3>3. DOMAIN srv' = {}
        BY <1>0, <3>1 DEF ServedOnly
      <3> QED BY <2>1, <2>3, <3>1, <3>2, <3>3, Asking
    <2> QED BY <1>2, <2>2, <2>3 DEF OpenSubscribed
  <1>3. CASE OpenFails
    <2>1. /\ player.op = "openUndo" /\ ~Awaits /\ Goes("player", Idle)
          /\ UNCHANGED <<linkVars, srvVars, hand, subVars, dmxVars, calls, since, crashed>>
      BY <1>3, Continuing DEF OpenFails
    <2>2. /\ player'.op = "none" /\ player'.at = "idle"
          /\ call'["process"] = call["process"] /\ call'["app"] = call["app"]
      BY <2>1, PlayerPlaced
    <2>3. Undisturbed' /\ PlayerAt' /\ ~Awaits'
      BY <1>0, <2>1, <2>2 DEF Undisturbed, PlayerAt, Awaits, Asked, linkVars
    <2>4. DOMAIN srv = {}
      BY <1>0, <2>1 DEF ServedOnly, Ending, Unsubscribes
    <2>5. BufferInOrder' /\ \A k \in DOMAIN buf' : buf'[k].id = sub.id
      BY <1>0, <2>1 DEF InOrder, BufferInOrder, ThisOne, dmxVars
    <2> QED BY <2>1, <2>2, <2>3, <2>4, <2>5, MovesOn DEF srvVars, subVars, dmxVars
  <1> QED BY <1>1, <1>2, <1>3

\* The end of Close.
LEMMA ClearCore ==
  ASSUME TypeInv, TypeInv', Core, CloseClears \/ CloseResets
  PROVE  Core'
  <1>0. Undisturbed /\ ServedOnly /\ InOrder /\ ThisOne
    BY DEF Core
  <1>1. /\ player.op \in Clears /\ ~Awaits
        /\ UNCHANGED <<linkVars, srvVars, hand, subVars, seekGot, buf, since>>
    BY Continuing DEF CloseClears, CloseResets, Clears, kodiVars
  <1>2. Goes("player", At("closeReset", "run")) \/ Goes("player", Idle)
    BY DEF CloseClears, CloseResets
  <1>3. /\ \/ player'.op = "closeReset" /\ player'.at = "run"
           \/ player'.op = "none" /\ player'.at = "idle"
        /\ call'["process"] = call["process"] /\ call'["app"] = call["app"]
    BY <1>2, PlayerPlaced
  <1>4. Undisturbed' /\ PlayerAt' /\ ~Awaits' /\ player'.op # "openClear"
    BY <1>0, <1>1, <1>3 DEF Undisturbed, PlayerAt, Awaits, Asked, Clears, linkVars
  <1>5. DOMAIN srv = {}
    BY <1>0, <1>1 DEF ServedOnly
  <1>6. BufferInOrder' /\ \A k \in DOMAIN buf' : buf'[k].id = sub.id
    BY <1>0, <1>1 DEF InOrder, BufferInOrder, ThisOne
  <1> QED BY <1>1, <1>4, <1>5, <1>6, MovesOn DEF srvVars, subVars

\* A jump has a stamp that no packet before it has.
LEMMA SeekCore ==
  ASSUME TypeInv, TypeInv', Core, Seek \/ SeekSent \/ SeekReturns
  PROVE  Core'
  <1>0. Undisturbed /\ PlayerAt /\ ServedOnly /\ InOrder /\ ThisOne
    BY DEF Core
  <1>1. CASE Seek
    <2>1. /\ player.at = "idle" /\ playing /\ sub.active
          /\ seekGot' = [flag |-> FALSE, time |-> 0]
          /\ Ask("player", "seekSend", sub.id, 1)
          /\ UNCHANGED <<linkVars, hand, subVars, buf, playing, since>>
      BY <1>1 DEF Seek, Calling, SendSeek, player
    <2>2. player.op = "none" /\ ~Awaits /\ ~Ending
      BY <1>0, <2>1 DEF PlayerAt, Awaits, Asked, Ending, Unsubscribes
    <2>3. /\ player'.op = "seekSend" /\ player'.at = "wait" /\ player'.res = "none"
          /\ call'["process"] = call["process"] /\ call'["app"] = call["app"]
          /\ \E res \in {"ok", "null"} : net' = Append(net, Response("player", res))
          /\ StampsGrow /\ DOMAIN srv' = DOMAIN srv
      <3>1. /\ sub.id \in Nat /\ 1 \in Speeds /\ "seekSend" \in Gated
            /\ "seekSend" \notin Subscribes \cup Unsubscribes
        BY SubRecord DEF Speeds, Gated, Subscribes, Unsubscribes
      <3> QED BY <1>0, <2>1, <3>1, Asks
    <2>4. Undisturbed' /\ PlayerAt' /\ Awaits' /\ ~Ending' /\ player'.op \notin Clears
      BY <1>0, <2>1, <2>3
         DEF Undisturbed, PlayerAt, Awaits, Ending, Asked, Unsubscribes, Clears, linkVars
    <2>5. seekGot'.time = 0 /\ sub' = sub
      BY <2>1 DEF subVars
    <2>6. DOMAIN srv' \subseteq {sub'.id}
      BY <1>0, <2>3, <2>5 DEF ServedOnly
    <2> QED BY <2>1, <2>2, <2>3, <2>4, <2>5, <2>6, Asking
  <1>2. CASE SeekSent
    <2>1. /\ player.op = "seekSend" /\ ~Awaits
          /\ Goes("player", Idle) \/ Goes("player", At("seekGet", "wait"))
          /\ UNCHANGED <<linkVars, srvVars, hand, subVars, seekGot, buf, playing, since>>
      BY <1>2, Continuing DEF SeekSent
    <2>2. /\ \/ player'.op = "none" /\ player'.at = "idle"
             \/ player'.op = "seekGet" /\ player'.at = "wait"
          /\ call'["process"] = call["process"] /\ call'["app"] = call["app"]
      BY <2>1, PlayerPlaced
    <2>3. Undisturbed' /\ PlayerAt' /\ ~Awaits' /\ ~Ending' /\ player'.op \notin Clears
      BY <1>0, <2>1, <2>2
         DEF Undisturbed, PlayerAt, Awaits, Ending, Asked, Unsubscribes, Clears, linkVars
    <2>4. DOMAIN srv # {} => playing' /\ sub'.active
      BY <1>0, <2>1 DEF ServedOnly, subVars
    <2>5. BufferInOrder' /\ \A k \in DOMAIN buf' : buf'[k].id = sub.id
      BY <1>0, <2>1 DEF InOrder, BufferInOrder, ThisOne
    <2>6. player'.op # "openClear"
      BY <2>2
    <2> QED BY <2>1, <2>3, <2>4, <2>5, <2>6, MovesOn DEF srvVars, subVars
  <1>3. CASE SeekReturns
    <2>1. /\ player.op = "seekGet" /\ Goes("player", Idle)
          /\ (buf' = <<>> /\ since' = since) \/ (buf' = buf /\ since' = seekGot.time)
          /\ UNCHANGED <<linkVars, srvVars, hand, subVars, seekGot, playing>>
      BY <1>3 DEF SeekReturns, player
    <2>2. /\ player'.op = "none" /\ player'.at = "idle"
          /\ call'["process"] = call["process"] /\ call'["app"] = call["app"]
      BY <2>1, PlayerPlaced
    <2>3. /\ Undisturbed' /\ PlayerAt' /\ ~Awaits /\ ~Awaits' /\ ~Ending' /\ player'.op \notin Clears
      BY <1>0, <2>1, <2>2
         DEF Undisturbed, PlayerAt, Awaits, Ending, Asked, Unsubscribes, Clears, linkVars
    <2>4. DOMAIN srv # {} => playing' /\ sub'.active
      BY <1>0, <2>1 DEF ServedOnly, subVars
    <2>5. BufferInOrder' /\ \A k \in DOMAIN buf' : buf'[k].id = sub.id
      BY <1>0, <2>1 DEF InOrder, BufferInOrder, ThisOne
    <2> QED BY <2>1, <2>2, <2>3, <2>4, <2>5, MovesOn DEF srvVars, subVars
  <1> QED BY <1>1, <1>2, <1>3

\* A request that changes the speed starts and ends no subscription.
LEMMA ChangesCore ==
  ASSUME TypeInv, TypeInv', Core, NEW op \in {"speedSend", "fillSend"}, NEW s \in Speeds, NEW new,
         player.at = "idle", playing, sub.active, Changes(op, s, new)
  PROVE  Core'
  <1>0. Undisturbed /\ PlayerAt /\ ServedOnly /\ InOrder /\ ThisOne
    BY DEF Core
  <1>1. player.op = "none" /\ ~Awaits /\ ~Ending /\ player.op \notin Clears
    BY <1>0 DEF PlayerAt, Awaits, Asked, Ending, Unsubscribes, Clears
  <1>2. UNCHANGED <<linkVars, hand, seekGot, buf, playing, since>>
    BY DEF Changes
  <1>3. CASE new /\ actual = sub.speed
    <2>1. sub' = [sub EXCEPT !.speed = s] /\ Ask("player", op, sub.id, s)
      BY <1>3 DEF Changes
    <2>2. /\ player'.op = op /\ player'.at = "wait" /\ player'.res = "none"
          /\ call'["process"] = call["process"] /\ call'["app"] = call["app"]
          /\ \E res \in {"ok", "null"} : net' = Append(net, Response("player", res))
          /\ StampsGrow /\ DOMAIN srv' = DOMAIN srv
      <3>1. sub.id \in Nat /\ op \in Gated /\ op \notin Subscribes \cup Unsubscribes
        BY SubRecord DEF Gated, Subscribes, Unsubscribes
      <3> QED BY <1>0, <2>1, <3>1, Asks
    <2>3. Undisturbed' /\ PlayerAt' /\ Awaits' /\ ~Ending' /\ player'.op \notin Clears
      BY <1>0, <1>2, <2>2
         DEF Undisturbed, PlayerAt, Awaits, Ending, Asked, Unsubscribes, Clears, linkVars
    <2>4. sub'.id = sub.id /\ sub'.active = sub.active
      BY <2>1, SubRecord
    <2>5. DOMAIN srv' \subseteq {sub'.id}
      BY <1>0, <2>2, <2>4 DEF ServedOnly
    <2> QED BY <1>1, <1>2, <2>2, <2>3, <2>4, <2>5, Asking
  <1>4. CASE ~(new /\ actual = sub.speed)
    <2>1. UNCHANGED <<sub, call, srvVars>>
      BY <1>4 DEF Changes
    <2>2. player' = player /\ Undisturbed' /\ PlayerAt' /\ ~Ending'
      BY <1>0, <1>1, <1>2, <2>1 DEF player, Undisturbed, PlayerAt, Ending, linkVars
    <2>3. BufferInOrder' /\ \A k \in DOMAIN buf' : buf'[k].id = sub.id
      BY <1>0, <1>2 DEF InOrder, BufferInOrder, ThisOne
    <2> QED BY <1>1, <1>2, <2>1, <2>2, <2>3, MovesOn DEF srvVars
  <1> QED BY <1>3, <1>4

\* Speed and FillBuffer.
LEMMA SpeedCore ==
  ASSUME TypeInv, TypeInv', Core, Speed \/ FillBuffer \/ SpeedSent
  PROVE  Core'
  <1>1. CASE Speed \/ FillBuffer
    <2>1. player.at = "idle" /\ playing /\ sub.active
      BY <1>1 DEF Speed, FillBuffer, Calling, player
    <2>2. \E s \in Speeds, new \in BOOLEAN, op \in {"speedSend", "fillSend"} : Changes(op, s, new)
      <3>1. CASE Speed
        <4>1. PICK s \in {0, 1} : Changes("speedSend", s, s # requested \/ s = 0)
          BY <3>1 DEF Speed
        <4>2. (s # requested \/ s = 0) \in BOOLEAN /\ s \in Speeds
          BY DEF Speeds
        <4> QED BY <4>1, <4>2
      <3>2. CASE FillBuffer
        <4>1. PICK s \in {1, 4} : Changes("fillSend", s, s # requested)
          BY <3>2 DEF FillBuffer
        <4>2. (s # requested) \in BOOLEAN /\ s \in Speeds
          BY DEF Speeds
        <4> QED BY <4>1, <4>2
      <3> QED BY <1>1, <3>1, <3>2
    <2> QED BY <2>1, <2>2, ChangesCore
  <1>2. CASE SpeedSent
    <2>0. Undisturbed /\ ServedOnly /\ InOrder /\ ThisOne
      BY DEF Core
    <2>1. /\ player.op \in {"speedSend", "fillSend"} /\ ~Awaits /\ Goes("player", Idle)
          /\ UNCHANGED <<linkVars, srvVars, hand, sub, actual, dmxVars, kodiVars>>
      BY <1>2, Continuing DEF SpeedSent
    <2>2. /\ player'.op = "none" /\ player'.at = "idle"
          /\ call'["process"] = call["process"] /\ call'["app"] = call["app"]
      BY <2>1, PlayerPlaced
    <2>3. Undisturbed' /\ PlayerAt' /\ ~Awaits' /\ ~Ending' /\ player'.op \notin Clears
      BY <2>0, <2>1, <2>2
         DEF Undisturbed, PlayerAt, Awaits, Ending, Asked, Unsubscribes, Clears, linkVars
    <2>4. DOMAIN srv # {} => playing' /\ sub'.active
      BY <2>0, <2>1 DEF ServedOnly, kodiVars
    <2>5. BufferInOrder' /\ \A k \in DOMAIN buf' : buf'[k].id = sub.id
      BY <2>0, <2>1 DEF InOrder, BufferInOrder, ThisOne, dmxVars, kodiVars
    <2> QED BY <2>1, <2>2, <2>3, <2>4, <2>5, MovesOn DEF srvVars, dmxVars, kodiVars
  <1> QED BY <1>1, <1>2

\* The player takes packets out of the buffer, or another thread aborts it.
LEMMA AsideCore ==
  ASSUME TypeInv, TypeInv', Core, DemuxFlush \/ Read \/ App
  PROVE  Core'
  <1>0. Undisturbed /\ PlayerAt /\ ServedOnly /\ InOrder /\ ThisOne
    BY DEF Core
  <1>1. /\ UNCHANGED <<linkVars, srvVars, hand, subVars, seekGot, playing, since>>
        /\ player' = player /\ call'["process"] = call["process"]
        /\ call'["app"].at \in {"idle", "run"}
    <2>1. CASE DemuxFlush \/ Read
      BY <1>0, <2>1 DEF DemuxFlush, Read, player, Undisturbed, kodiVars
    <2>2. CASE App
      <3>1. /\ UNCHANGED <<linkVars, srvVars, hand, subVars, seekGot, playing, since>>
            /\ Goes("app", At("abortReset", "run")) \/ Goes("app", Idle)
        BY <2>2 DEF App, Abort, AbortResets, kodiVars
      <3>2. call \in [Threads -> CallRecords]
        BY DEF TypeInv, CallTypes
      <3>3. /\ player' = player /\ call'["process"] = call["process"]
            /\ call'["app"] \in {At("abortReset", "run"), Idle}
        BY <3>1, <3>2 DEF Goes, Threads, player
      <3>4. Idle.at = "idle" /\ At("abortReset", "run").at = "run"
        BY DEF Idle, At
      <3> QED BY <3>1, <3>3, <3>4
    <2> QED BY <2>1, <2>2
  <1>2. \A k \in DOMAIN buf' : \E l \in DOMAIN buf : buf'[k] = buf[l]
    <2>1. CASE UNCHANGED buf
      BY <2>1
    <2>2. CASE buf' = <<>>
      BY <2>2
    <2>3. CASE buf # <<>> /\ buf' = Tail(buf)
      <3>1. buf \in Seq([id : Nat, stamp : Nat])
        BY DEF TypeInv, DemuxTypes
      <3>2. \A k \in DOMAIN buf' : k + 1 \in DOMAIN buf /\ buf'[k] = buf[k + 1]
        BY <2>3, <3>1
      <3> QED BY <3>2
    <2> QED BY <2>1, <2>2, <2>3 DEF DemuxFlush, Read, App, Abort, AbortResets
  <1>3. Undisturbed' /\ PlayerAt'
    BY <1>0, <1>1 DEF Undisturbed, PlayerAt, linkVars
  <1>4. DOMAIN srv # {} => /\ ~Ending' /\ player'.op \notin Clears
                           /\ player'.op = "openSub" \/ (playing' /\ sub'.active)
    BY <1>0, <1>1 DEF ServedOnly, Ending, subVars
  <1>5. BufferInOrder' /\ \A k \in DOMAIN buf' : buf'[k].id = sub.id
    BY <1>0, <1>1, <1>2 DEF InOrder, BufferInOrder, ThisOne
  <1>6. player'.op = "openClear" => buf' = <<>>
    <2>1. SUFFICES ASSUME player.op = "openClear" PROVE buf' = <<>>
      BY <1>1
    <2>2. buf = <<>>
      BY <1>0, <2>1 DEF ThisOne
    <2> QED BY <2>2 DEF DemuxFlush, Read, App, Abort, AbortResets
  <1> QED BY <1>1, <1>3, <1>4, <1>5, <1>6, MovesOn DEF srvVars, subVars

\* The connection thread deals with the message it has in its hand.
LEMMA HandlersCore ==
  ASSUME TypeInv, TypeInv', Core, Handlers
  PROVE  Core'
  <1>0. Undisturbed /\ PlayerAt /\ ServedOnly /\ InOrder /\ ThisOne /\ Drained
    BY DEF Core
  <1>1. /\ hand' = None /\ hand.kind \in MsgKinds
        /\ UNCHANGED <<linkVars, srvVars, call, kodiVars>>
    BY DEF Handlers, Handling, ParseSubscriptionStart, ParseSubscriptionStatus, ParseMuxPacket,
           ParseSubscriptionSkip, ParseSubscriptionSpeed, MsgKinds
  <1>2. hand # None /\ hand.val \in Nat
    BY <1>1, Stamps DEF None, MsgKinds
  <1>3. player' = player /\ Undisturbed' /\ PlayerAt'
    BY <1>0, <1>1 DEF Undisturbed, PlayerAt, linkVars, player
  <1>4. sub'.id = sub.id /\ (sub.active => sub'.active)
    BY SubRecord DEF Handlers, ParseSubscriptionStart, ParseSubscriptionStatus, ParseMuxPacket,
                     ParseSubscriptionSkip, ParseSubscriptionSpeed, subVars
  <1>5. DOMAIN srv # {} => /\ ~Ending' /\ player'.op \notin Clears
                           /\ player'.op = "openSub" \/ (playing' /\ sub'.active)
    BY <1>0, <1>1, <1>3, <1>4 DEF ServedOnly, Ending, kodiVars
  <1>6. player.op # "openClear"
    BY <1>0, <1>2 DEF ServedOnly, Drained, Clears, Ending, Unsubscribes
  <1>7. since' = since /\ since \in Nat
    BY <1>1, Stamps DEF kodiVars
  <1>8. CASE ~ParseMuxPacket /\ ~ParseSubscriptionSkip
    <2>1. UNCHANGED <<seekGot, buf>>
      BY <1>8 DEF Handlers, ParseSubscriptionStart, ParseSubscriptionStatus, ParseSubscriptionSpeed,
                  dmxVars
    <2>2. BufferInOrder' /\ \A k \in DOMAIN buf' : buf'[k].id = sub.id
      BY <1>0, <1>7, <2>1 DEF InOrder, BufferInOrder, ThisOne
    <2> QED BY <1>1, <1>3, <1>4, <1>5, <1>6, <1>7, <2>1, <2>2, MovesOn DEF srvVars
  <1>9. CASE ParseMuxPacket
    <2>1. /\ hand.kind = "pkt" /\ seekGot' = seekGot
          /\ buf' \in {buf, Append(buf, [id |-> hand.id, stamp |-> hand.val])}
      BY <1>9 DEF ParseMuxPacket, Handling
    <2>2. \A k \in DOMAIN buf' : \/ k \in DOMAIN buf /\ buf'[k] = buf[k]
                                 \/ buf'[k].id = hand.id /\ buf'[k].stamp = hand.val
      <3>1. CASE buf' = buf
        BY <3>1
      <3>2. CASE buf' = Append(buf, [id |-> hand.id, stamp |-> hand.val])
        <4>1. buf \in Seq([id : Nat, stamp : Nat])
          BY DEF TypeInv, DemuxTypes
        <4>2. PICK e : e = [id |-> hand.id, stamp |-> hand.val]
          OBVIOUS
        <4>3. \A k \in DOMAIN buf' : (k \in DOMAIN buf /\ buf'[k] = buf[k]) \/ buf'[k] = e
          BY <3>2, <4>1, <4>2
        <4>4. e.id = hand.id /\ e.stamp = hand.val
          BY <4>2
        <4> QED BY <4>3, <4>4
      <3> QED BY <2>1, <3>1, <3>2
    <2>3. hand.id = sub.id /\ hand.val >= since /\ hand.val >= seekGot.time
      BY <1>0, <1>2, <2>1 DEF ThisOne, InOrder
    <2>4. BufferInOrder'
      BY <1>0, <1>7, <2>1, <2>2, <2>3 DEF InOrder, BufferInOrder
    <2>5. \A k \in DOMAIN buf' : buf'[k].id = sub.id
      BY <1>0, <2>2, <2>3 DEF ThisOne
    <2> QED BY <1>1, <1>3, <1>4, <1>5, <1>6, <1>7, <2>1, <2>4, <2>5, MovesOn DEF srvVars
  <1>10. CASE ParseSubscriptionSkip
    <2>1. /\ hand.kind = "skip"
          /\ \/ seekp # "set" /\ seekGot' = seekGot
             \/ seekp = "set" /\ seekGot'.time = hand.val
          /\ \/ buf' = <<>>
             \/ buf' = buf /\ (seekp = "null" \/ hand.val = 0)
      BY <1>10 DEF ParseSubscriptionSkip, Handling
    <2>2. BufferInOrder'
      <3>1. CASE buf' = <<>>
        BY <3>1 DEF BufferInOrder
      <3>2. CASE buf' = buf /\ seekGot' = seekGot
        BY <1>0, <1>7, <3>2 DEF InOrder, BufferInOrder
      <3>3. CASE buf' = buf /\ seekGot'.time = 0
        BY <1>0, <1>7, <3>3, Stamps DEF InOrder, BufferInOrder
      <3> QED BY <2>1, <3>1, <3>2, <3>3
    <2>3. \A k \in DOMAIN buf' : buf'[k].id = sub.id
      BY <1>0, <2>1 DEF ThisOne
    <2>4. seekGot'.time \in {seekGot.time, hand.val}
      BY <2>1
    <2> QED BY <1>1, <1>3, <1>4, <1>5, <1>6, <1>7, <2>1, <2>2, <2>3, <2>4, MovesOn DEF srvVars
  <1> QED BY <1>8, <1>9, <1>10

\* What the server sends by itself is of the subscription it has.
LEMMA ServerCore ==
  ASSUME TypeInv, TypeInv', Core, Server
  PROVE  Core'
  <1>0. ServedOnly
    BY DEF Core
  <1>1. PICK i \in DOMAIN srv : ServerStarts(i) \/ ServerReports(i) \/ ServerStreams(i)
                                  \/ ServerSkips(i) \/ ServerSetsSpeed(i)
    BY DEF Server
  <1>2. /\ i \in Nat /\ clock \in Nat /\ DOMAIN srv # {} /\ \A j \in DOMAIN srv : srv[j] \in ServerRecords
        /\ \A j \in DOMAIN srv : srv[j].stamp \in Nat
    BY DEF TypeInv, ServerTypes, ServerRecords
  <1>3. i = sub.id /\ \A j \in DOMAIN srv : j = i
    BY <1>0 DEF ServedOnly
  <1>4. CASE ServerStarts(i) \/ ServerReports(i) \/ ServerSetsSpeed(i)
    <2>1. clock' = clock /\ DOMAIN srv' = DOMAIN srv /\ \A j \in DOMAIN srv : srv'[j].stamp = srv[j].stamp
      BY <1>2, <1>4 DEF ServerStarts, ServerReports, ServerSetsSpeed, ServerRecords
    <2>2. StampsGrow
      BY <1>2, <2>1 DEF StampsGrow
    <2>3. srv[i].speed \in Nat
      BY <1>2 DEF ServerRecords, Speeds
    <2>4. PICK kind \in {"start", "status", "speed"}, val \in Nat : Says(Msg(kind, i, val))
      BY <1>4, <2>3 DEF ServerStarts, ServerReports, ServerSetsSpeed
    <2>5. /\ Msg(kind, i, val) \in Messages /\ Msg(kind, i, val).id = i
          /\ Msg(kind, i, val).kind \notin {"pkt", "skip"}
      BY <1>2, MessageTypes DEF MsgKinds
    <2> QED BY <1>2, <1>3, <2>1, <2>2, <2>4, <2>5, Saying
  <1>5. CASE ServerStreams(i)
    <2>1. Says(Msg("pkt", i, srv[i].stamp)) /\ UNCHANGED <<srv, clock>>
      BY <1>5 DEF ServerStreams
    <2>2. /\ Msg("pkt", i, srv[i].stamp) \in Messages /\ Msg("pkt", i, srv[i].stamp).id = i
          /\ Msg("pkt", i, srv[i].stamp).kind = "pkt" /\ Msg("pkt", i, srv[i].stamp).val = srv[i].stamp
      BY <1>2, MessageTypes DEF MsgKinds
    <2>3. StampsGrow
      BY <1>2, <2>1 DEF StampsGrow
    <2> QED BY <1>2, <1>3, <2>1, <2>2, <2>3, Saying
  <1>6. CASE ServerSkips(i)
    <2>1. \A v \in Nat : /\ Msg("skip", i, v) \in Messages /\ Msg("skip", i, v).id = i
                         /\ Msg("skip", i, v).kind = "skip" /\ Msg("skip", i, v).val = v
      BY <1>2, MessageTypes DEF MsgKinds
    <2>2. CASE /\ clock' = clock + 1 /\ Says(Msg("skip", i, clock + 1))
               /\ srv' = [srv EXCEPT ![i].skips = @ - 1, ![i].stamp = clock + 1]
      <3>1. DOMAIN srv' = DOMAIN srv
        BY <2>2
      <3>2. srv'[i].stamp = clock + 1
        BY <1>2, <2>2 DEF ServerRecords
      <3>3. StampsGrow
        BY <1>2, <1>3, <2>2, <3>1, <3>2 DEF StampsGrow
      <3>4. \A j \in DOMAIN srv' : srv'[j].stamp >= clock + 1
        BY <1>2, <1>3, <3>1, <3>2
      <3>5. clock + 1 \in Nat /\ clock + 1 <= clock'
        BY <1>2, <2>2
      <3> QED BY <1>2, <1>3, <2>1, <2>2, <3>1, <3>3, <3>4, <3>5, Saying
    <2>3. CASE /\ Says(Msg("skip", i, 0))
               /\ srv' = [srv EXCEPT ![i].skips = @ - 1] /\ UNCHANGED clock
      <3>1. DOMAIN srv' = DOMAIN srv
        BY <2>3
      <3>2. \A j \in DOMAIN srv : srv'[j].stamp = srv[j].stamp
        BY <1>2, <2>3 DEF ServerRecords
      <3>3. StampsGrow
        BY <1>2, <2>3, <3>1, <3>2 DEF StampsGrow
      <3>4. 0 <= clock' /\ \A j \in DOMAIN srv' : srv'[j].stamp >= 0
        BY <1>2, <2>3, <3>1, <3>2
      <3> QED BY <1>2, <1>3, <2>1, <2>3, <3>1, <3>3, <3>4, Saying
    <2> QED BY <1>6, <2>2, <2>3 DEF ServerSkips
  <1> QED BY <1>1, <1>4, <1>5, <1>6

-----------------------------------------------------------------------------
(***************************************************************************)
(* What cannot happen before the connection is lost: nobody gives up or    *)
(* waits for the connection, and there is nothing to rebuild.              *)
(***************************************************************************)
LEMMA LossesGrow ==
  ASSUME TypeInv, Next
  PROVE  losses' = losses \/ losses' = losses + 1
  <1>1. CASE Requests
    BY <1>1 DEF Requests, GateOpens, GateTimesOut, GivesUp, linkVars
  <1>2. CASE Player
    <2>1. CASE Open \/ OpenFlushes \/ OpenSubscribes \/ OpenSubscribed \/ OpenFails
                 \/ Close \/ CloseFlushes \/ CloseClears \/ CloseResets
      BY <2>1 DEF Open, OpenFlushes, OpenSubscribes, OpenSubscribed, OpenFails, Close, CloseFlushes,
                  CloseClears, CloseResets, Flushes, linkVars
    <2>2. CASE Seek \/ SeekSent \/ SeekReturns \/ Speed \/ FillBuffer \/ SpeedSent
      BY <2>2 DEF Seek, SeekSent, SeekReturns, Speed, FillBuffer, SpeedSent, Changes, linkVars
    <2>3. CASE DemuxFlush \/ Read \/ ReadStalls
      BY <2>3 DEF DemuxFlush, Read, ReadStalls, linkVars
    <2> QED BY <1>2, <2>1, <2>2, <2>3 DEF Player
  <1>3. CASE App
    BY <1>3 DEF App, Abort, AbortResets, linkVars
  <1>4. CASE Process
    BY <1>4 DEF Process, RebuildState, RebuildUnsubscribes, RebuildSubscribes, RebuildSetsSpeed,
                RebuildEnds, linkVars
  <1>5. CASE Connection
    BY <1>5 DEF Connection, ReadMessage, Handlers, ParseSubscriptionStart, ParseSubscriptionStatus,
                ParseMuxPacket, ParseSubscriptionSkip, ParseSubscriptionSpeed, Recreates, Connected,
                Registered, linkVars
  <1>6. CASE Loses
    BY <1>6 DEF Loses
  <1>7. CASE Server
    BY <1>7 DEF Server, ServerStarts, ServerReports, ServerStreams, ServerSkips, ServerSetsSpeed,
                Says, linkVars
  <1> QED BY <1>1, <1>2, <1>3, <1>4, <1>5, <1>6, <1>7 DEF Next

\* A call gives up only with a loss: its answer is on its way.
LEMMA NobodyGivesUp ==
  ASSUME TypeInv, Core, Requests
  PROVE  losses' = losses + 1
  <1>0. Undisturbed /\ PlayerAt /\ OneAnswer
    BY DEF Core
  <1>1. PICK t \in Threads : GateOpens(t) \/ GateTimesOut(t) \/ GivesUp(t)
    BY DEF Requests
  <1>2. call[t].at # "gate"
    BY <1>0 DEF Undisturbed, PlayerAt, player, Threads
  <1>3. GivesUp(t)
    BY <1>1, <1>2 DEF GateOpens, GateTimesOut
  <1>4. t = "player" /\ Awaits
    <2>1. call[t].at = "wait" /\ call[t].op # "seekGet" /\ call[t].res = "none"
      BY <1>3 DEF GivesUp
    <2>2. t = "player"
      BY <1>0, <2>1 DEF Undisturbed, Threads
    <2> QED BY <1>0, <2>1, <2>2 DEF PlayerAt, player, Awaits
  <1>5. AnswerComes(t)
    BY <1>0, <1>4 DEF OneAnswer, AnswerComes, IsResponse
  <1> QED BY <1>3, <1>5 DEF GivesUp

\* Nothing is rebuilt and nobody reconnects.
LEMMA NothingToRebuild ==
  ASSUME TypeInv, Core
  PROVE  ~Process /\ ~Recreates /\ ~Connected /\ ~Registered
  <1>0. Undisturbed
    BY DEF Core
  <1>1. ~Process
    BY <1>0 DEF Undisturbed, Process, RebuildState, RebuildUnsubscribes, RebuildSubscribes,
                RebuildSetsSpeed, RebuildEnds, Continues
  <1> QED BY <1>0, <1>1 DEF Undisturbed, Recreates, Connected, Registered

\* Every step keeps the core until the first loss.
LEMMA CoreStep ==
  ASSUME TypeInv, LInv, [Next]_vars
  PROVE  LInv'
  <1>1. TypeInv'
    BY NextTypes
  <1>2. SUFFICES ASSUME losses' = 0 PROVE Core'
    BY DEF LInv
  <1>3. losses \in Nat
    BY BoundsAssumption DEF TypeInv, LinkTypes
  <1>4. losses = 0
    BY <1>2, <1>3, LossesGrow DEF vars, linkVars
  <1>5. Core
    BY <1>4 DEF LInv
  <1>6. CASE Requests
    BY <1>2, <1>4, <1>5, <1>6, NobodyGivesUp
  <1>7. CASE Player
    <2>1. CASE Open
      <3>1. Close0("openUnsub", "openClear") /\ player.at = "idle"
            /\ UNCHANGED <<linkVars, hand, seekGot, playing, since>>
        BY <2>1 DEF Open, Calling, player
      <3> QED BY <1>1, <1>5, <3>1, CloseCore
    <2>2. CASE Close
      <3>1. Close0("closeUnsub", "closeClear") /\ player.at = "idle"
            /\ UNCHANGED <<linkVars, hand, seekGot, playing, since>>
        BY <2>2 DEF Close, Calling, player
      <3> QED BY <1>1, <1>5, <3>1, CloseCore
    <2>3. CASE OpenFlushes \/ CloseFlushes
      BY <1>1, <1>5, <2>3, FlushCore DEF OpenFlushes, CloseFlushes
    <2>4. CASE OpenSubscribes \/ OpenSubscribed \/ OpenFails
      BY <1>1, <1>5, <2>4, OpenCore
    <2>5. CASE CloseClears \/ CloseResets
      BY <1>1, <1>5, <2>5, ClearCore
    <2>6. CASE Seek \/ SeekSent \/ SeekReturns
      BY <1>1, <1>5, <2>6, SeekCore
    <2>7. CASE Speed \/ FillBuffer \/ SpeedSent
      BY <1>1, <1>5, <2>7, SpeedCore
    <2>8. CASE DemuxFlush \/ Read
      BY <1>1, <1>5, <2>8, AsideCore
    <2>9. CASE ReadStalls
      BY <1>2, <1>4, <2>9 DEF ReadStalls
    <2> QED BY <1>7, <2>1, <2>2, <2>3, <2>4, <2>5, <2>6, <2>7, <2>8, <2>9 DEF Player
  <1>8. CASE App
    BY <1>1, <1>5, <1>8, AsideCore
  <1>9. CASE Process
    BY <1>5, <1>9, NothingToRebuild
  <1>10. CASE Connection
    <2>1. CASE ReadMessage
      BY <1>1, <1>5, <2>1, ReadsResponse, ReadsMessage
    <2>2. CASE Handlers
      BY <1>1, <1>5, <2>2, HandlersCore
    <2>3. ~Recreates /\ ~Connected /\ ~Registered
      BY <1>5, NothingToRebuild
    <2> QED BY <1>10, <2>1, <2>2, <2>3 DEF Connection
  <1>11. CASE Loses
    BY <1>2, <1>4, <1>11 DEF Loses
  <1>12. CASE Server
    BY <1>1, <1>5, <1>12, ServerCore
  <1>13. CASE UNCHANGED vars
    BY <1>5, <1>13 DEF vars, linkVars, srvVars, subVars, dmxVars, kodiVars, Core, Undisturbed, PlayerAt,
       OneAnswer, ServedOnly, LastWord, Drained, ThisOne, InOrder, BufferInOrder, Follows, player,
       Awaits, Ending, IsResponse
  <1> QED BY <1>6, <1>7, <1>8, <1>9, <1>10, <1>11, <1>12, <1>13 DEF Next

\* The inductive invariant.
LEMMA LiveInductive == Spec => [](TypeInv /\ LInv)
  <1>1. Init => TypeInv /\ LInv
    BY InitTypes, InitCore DEF LInv
  <1>2. TypeInv /\ LInv /\ [Next]_vars => (TypeInv /\ LInv)'
    BY NextTypes, CoreStep
  <1> QED BY <1>1, <1>2, PTL DEF Spec

\* Until the connection is lost, all that the player can read belongs to the channel
\* and the position that it asked for, whatever it calls, however often it seeks
\* again before the answer to the last seek, and whoever aborts it: every packet in
\* the buffer is of the current subscription, and none is older than the last jump.
THEOREM NothingStale == Spec => []NoStalePackets
  <1>1. LInv => NoStalePackets
    BY DEF LInv, Core, ThisOne, InOrder, BufferInOrder, NoStalePackets
  <1> QED BY <1>1, LiveInductive, PTL

\* Until the connection is lost, the server has no subscription that the add-on does
\* not play: every one that Open makes is ended by Close, by the next Open, or by
\* the Open that fails.
THEOREM NothingLeftBehind == Spec => []NoOrphans
  <1>1. ASSUME LInv, losses = 0, Settled PROVE DOMAIN srv \subseteq (IF playing THEN {sub.id} ELSE {})
    <2>1. PlayerAt /\ ServedOnly
      BY <1>1 DEF LInv, Core
    <2>2. player.op = "none"
      BY <1>1, <2>1 DEF Settled, Threads, PlayerAt, player
    <2> QED BY <2>1, <2>2 DEF ServedOnly
  <1>2. LInv => NoOrphans
    BY <1>1 DEF NoOrphans
  <1> QED BY <1>2, LiveInductive, PTL
=============================================================================
