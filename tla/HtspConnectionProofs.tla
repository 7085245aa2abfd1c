------------------------ MODULE HtspConnectionProofs ------------------------
(***************************************************************************)
(* Proofs about HtspConnection, for any number of callers and requests and *)
(* whatever the environment does.                                          *)
(***************************************************************************)
EXTENDS HtspConnection, TLAPS

\* The response read from the socket and not yet dispatched, and the requests
\* on the wire, belong to the current connection: their sequence numbers have
\* been used on it, and m_messages, if it still has them, leads to their owner.
OwnerKnown(m) ==
  /\ m.seq <= mseq
  /\ m.seq \in DOMAIN messages => messages[m.seq] = m.owner

WireOwners == \A m \in wire : OwnerKnown(m)

InmsgOwner == /\ inmsg # Nothing => OwnerKnown(inmsg)
              /\ inmsg = Nothing <=> mainPc # "dispatch"

\* The inductive invariant. ResponseMatches alone is not inductive: why the
\* entry a response finds belongs to the thread that asked is what WireOwners
\* and InmsgOwner add, and NoDanglingResponse says that this thread still waits.
IInv == /\ TypeOK
        /\ NoDanglingResponse
        /\ ResponseMatches
        /\ WireOwners
        /\ InmsgOwner

\* The registration thread only exists while the receive loop runs, or is being
\* joined behind it: a new one never meets the one of the connection before.
RegParked == mainPc \in {"top", "gate", "open", "opening", "done"} => pc[Reg] = "off"

-----------------------------------------------------------------------------
(***************************************************************************)
(* Lemmas about the operators on m_messages.                               *)
(***************************************************************************)

\* Erasing a sequence number keeps every other entry and adds none.
LEMMA WithoutLemma ==
  ASSUME NEW map, NEW s
  PROVE  /\ DOMAIN Without(map, s) = DOMAIN map \ {s}
         /\ \A x \in DOMAIN Without(map, s) : Without(map, s)[x] = map[x]
  BY DEF Without, Restrict

\* Nothing is not a response.
LEMMA NothingLemma == Nothing \notin Responses
  BY DEF Nothing, Responses, Outcomes

\* Giving up a request, with or without Disconnect, only removes entries: what
\* is left of m_messages and of the wire was there before.
LEMMA GiveUpLemma ==
  ASSUME NEW s, GiveUp(s)
  PROVE  /\ DOMAIN messages' \subseteq DOMAIN messages
         /\ s \notin DOMAIN messages'
         /\ \A x \in DOMAIN messages' : messages'[x] = messages[x]
         /\ wire' \subseteq wire
         /\ sock \in SockStates => sock' \in SockStates
  <1>1. CASE suspended
    <2>1. /\ messages' = Without(messages, s)
          /\ wire' = wire /\ sock' = sock
      BY <1>1 DEF GiveUp
    <2> QED BY <2>1, WithoutLemma
  <1>2. CASE ~suspended
    BY <1>2 DEF GiveUp, Disconnect, ClosedSock, NoMessages, SockStates
  <1> QED BY <1>1, <1>2

\* Disconnect leaves no entry and no request.
LEMMA DisconnectLemma ==
  ASSUME Disconnect
  PROVE  /\ DOMAIN messages' = {}
         /\ wire' = {}
         /\ sock \in SockStates => sock' \in SockStates
  BY DEF Disconnect, ClosedSock, NoMessages, SockStates

-----------------------------------------------------------------------------
(***************************************************************************)
(* Type correctness.                                                       *)
(***************************************************************************)
\* What Start sets up is well typed.
LEMMA InitTypeOK == Init => TypeOK
  <1> SUFFICES ASSUME Init PROVE TypeOK
    OBVIOUS
  <1>1. DOMAIN messages = {}
    BY DEF Init, NoMessages
  <1>2. regStep \in 1..RegLast
    BY BoundsAssumption DEF Init, RegLast
  <1>3. pc \in [Threads -> Pcs]
    BY DEF Init, Pcs
  <1>4. seq \in [Threads -> Nat] /\ resp \in [Threads -> Responses \cup {Nothing}]
    BY DEF Init
  <1> QED BY <1>1, <1>2, <1>3, <1>4 DEF Init, TypeOK, MainPcs, SockStates

\* Sending a request keeps the types it touches.
LEMMA SendTypes ==
  ASSUME TypeOK, NEW t \in Threads, NEW kind \in Kinds, SendOk(t, kind)
  PROVE  /\ mseq' \in Nat
         /\ seq' \in [Threads -> Nat]
         /\ DOMAIN messages' \subseteq Nat
         /\ \A s \in DOMAIN messages' : messages'[s] \in Threads
         /\ wire' \subseteq [owner : Threads, seq : Nat, kind : Kinds]
         /\ sock' \in SockStates
  BY DEF SendOk, With, TypeOK

\* Forgetting an answered request keeps the types it touches.
LEMMA ForgetTypes ==
  ASSUME TypeOK, NEW t \in Threads, Forget(t)
  PROVE  /\ seq' \in [Threads -> Nat]
         /\ resp' \in [Threads -> Responses \cup {Nothing}]
         /\ DOMAIN messages' \subseteq Nat
         /\ \A s \in DOMAIN messages' : messages'[s] \in Threads
  <1>1. /\ DOMAIN messages' = DOMAIN messages \ {seq[t]}
        /\ \A s \in DOMAIN messages' : messages'[s] = messages[s]
    BY WithoutLemma DEF Forget
  <1>2. /\ DOMAIN messages' \subseteq Nat
        /\ \A s \in DOMAIN messages' : messages'[s] \in Threads
    BY <1>1 DEF TypeOK
  <1>3. seq' \in [Threads -> Nat] /\ resp' \in [Threads -> Responses \cup {Nothing}]
    BY DEF Forget, TypeOK
  <1> QED BY <1>2, <1>3

\* Giving up a request keeps the types it touches.
LEMMA GiveUpTypes ==
  ASSUME TypeOK, NEW s \in Nat, GiveUp(s)
  PROVE  /\ DOMAIN messages' \subseteq Nat
         /\ \A x \in DOMAIN messages' : messages'[x] \in Threads
         /\ wire' \subseteq [owner : Threads, seq : Nat, kind : Kinds]
         /\ sock' \in SockStates
  BY GiveUpLemma DEF TypeOK

\* The parts of TypeOK that the registration thread's decision touches.
LEMMA RegProceedsTypes ==
  ASSUME TypeOK, NEW good \in BOOLEAN, RegProceeds(good)
  PROVE  /\ pc' \in [Threads -> Pcs]
         /\ regStep' \in 1..RegLast
         /\ ready' \in BOOLEAN /\ announced' \in BOOLEAN
  <1>1. pc' \in [Threads -> Pcs]
    BY DEF RegProceeds, TypeOK, Pcs
  <1>2. regStep' \in 1..RegLast
    <2>1. RegLast \in Nat /\ RegLast >= 3 /\ regStep \in 1..RegLast
      BY BoundsAssumption DEF TypeOK, RegLast
    <2>2. regStep' = 1 \/ (regStep # RegLast /\ regStep' = regStep + 1)
      BY DEF RegProceeds
    <2> QED BY <2>1, <2>2
  <1>3. ready' \in BOOLEAN
    BY DEF RegProceeds, TypeOK
  <1>4. ASSUME NEW b \in BOOLEAN, SetState(b) PROVE announced' \in BOOLEAN
    BY <1>4 DEF SetState, TypeOK
  <1>5. announced' \in BOOLEAN
    BY <1>4 DEF RegProceeds, TypeOK
  <1> QED BY <1>1, <1>2, <1>3, <1>5

\* The steps of SendAndWait and SendAndWait0 keep the types.
LEMMA ClientTypeOK ==
  ASSUME TypeOK, NEW c \in Clients, ClientStep(c)
  PROVE  TypeOK'
  <1> USE DEF Pcs, connVars, netVars
  <1>0. c \in Threads
    BY DEF Threads
  <1>1. CASE CallWaits(c)
    BY <1>0, <1>1 DEF CallWaits, TypeOK
  <1>2. CASE CallSends(c)
    <2> PICK kind \in {"gated", "direct"} :
          \/ SendOk(c, kind) /\ pc' = [pc EXCEPT ![c] = "wait"]
          \/ SendFails /\ pc' = [pc EXCEPT ![c] = "null"]
      BY <1>2 DEF CallSends
    <2>1. kind \in Kinds
      BY DEF Kinds
    <2>2. CASE SendOk(c, kind) /\ pc' = [pc EXCEPT ![c] = "wait"]
      BY <1>0, <1>2, <2>1, <2>2, SendTypes DEF CallSends, TypeOK
    <2>3. CASE SendFails /\ pc' = [pc EXCEPT ![c] = "null"]
      <3>1. mseq + 1 \in Nat /\ mseq' = mseq + 1 /\ UNCHANGED seq /\ GiveUp(mseq + 1)
        BY <2>3 DEF SendFails, TypeOK
      <3> QED BY <1>0, <1>2, <2>3, <3>1, GiveUpTypes DEF CallSends, TypeOK
    <2> QED BY <2>2, <2>3
  <1>3. CASE GateTimesOut(c)
    BY <1>0, <1>3 DEF GateTimesOut, TypeOK
  <1>4. CASE CallAnswered(c)
    <2>1. Forget(c)
      BY <1>4 DEF CallAnswered
    <2> QED BY <1>0, <1>4, <2>1, ForgetTypes DEF CallAnswered, TypeOK
  <1>5. CASE CallTimesOut(c)
    <2>1. seq[c] \in Nat /\ GiveUp(seq[c]) /\ seq' = [seq EXCEPT ![c] = 0]
      BY <1>0, <1>5 DEF CallTimesOut, TypeOK
    <2> QED BY <1>0, <1>5, <2>1, GiveUpTypes DEF CallTimesOut, TypeOK
  <1>6. CASE CallReturns(c)
    BY <1>0, <1>6 DEF CallReturns, TypeOK
  <1> QED BY <1>1, <1>2, <1>3, <1>4, <1>5, <1>6 DEF ClientStep

\* The steps of the registration thread keep the types.
LEMMA RegTypeOK ==
  ASSUME TypeOK, RegStep
  PROVE  TypeOK'
  <1> USE DEF connVars, netVars
  <1>0. Reg \in Threads
    BY DEF Threads
  <1>1. CASE RegLocks
    BY <1>0, <1>1 DEF RegLocks, TypeOK, Pcs
  <1>2. CASE RegSends
    <2>1. RegRequest(regStep) \in Kinds
      BY DEF RegRequest, Kinds, Required
    <2>2. SendOk(Reg, RegRequest(regStep))
      BY <1>2 DEF RegSends
    <2> QED BY <1>0, <1>2, <2>1, <2>2, SendTypes DEF RegSends, TypeOK, Pcs
  <1>3. CASE RegSendFails
    <2>1. mseq + 1 \in Nat /\ mseq' = mseq + 1 /\ UNCHANGED seq /\ GiveUp(mseq + 1)
      BY <1>3 DEF RegSendFails, SendFails, TypeOK
    <2>2. RegProceeds(FALSE)
      BY <1>3 DEF RegSendFails
    <2> QED BY <1>0, <1>3, <2>1, <2>2, GiveUpTypes, RegProceedsTypes
            DEF RegSendFails, TypeOK
  <1>4. CASE RegAnswered
    <2>1. Forget(Reg)
      BY <1>4 DEF RegAnswered
    <2>2. RegProceeds(resp[Reg].res = "ok")
      BY <1>4 DEF RegAnswered
    <2> QED BY <1>0, <1>4, <2>1, <2>2, ForgetTypes, RegProceedsTypes
            DEF RegAnswered, TypeOK
  <1>5. CASE RegTimesOut
    <2>1. seq[Reg] \in Nat /\ GiveUp(seq[Reg]) /\ seq' = [seq EXCEPT ![Reg] = 0]
      BY <1>0, <1>5 DEF RegTimesOut, TypeOK
    <2>2. RegProceeds(FALSE)
      BY <1>5 DEF RegTimesOut
    <2>3. seq' \in [Threads -> Nat]
      BY <2>1 DEF TypeOK
    <2> QED BY <1>0, <1>5, <2>1, <2>2, <2>3, GiveUpTypes, RegProceedsTypes
            DEF RegTimesOut, TypeOK
  <1>6. CASE RegFails
    BY <1>0, <1>6 DEF RegFails, TypeOK, Pcs
  <1>7. CASE RegDisconnects
    BY <1>0, <1>7, DisconnectLemma DEF RegDisconnects, TypeOK, Pcs
  <1> QED BY <1>1, <1>2, <1>3, <1>4, <1>5, <1>6, <1>7 DEF RegStep

\* The steps of the connection thread keep the types.
LEMMA MainTypeOK ==
  ASSUME TypeOK, MainStep
  PROVE  TypeOK'
  <1> USE DEF connVars, thrVars, netVars, MainUnchanged, TypeOK, MainPcs
  <1>1. CASE NewSocket
    BY <1>1 DEF NewSocket, SockStates
  <1>2. CASE LeaveGate
    BY <1>2 DEF LeaveGate
  <1>3. CASE OpenBegins
    BY <1>3 DEF OpenBegins, SockStates
  <1>4. CASE PeerAccepts
    BY <1>4 DEF PeerAccepts, SockStates
  <1>5. CASE OpenSucceeds
    BY <1>5 DEF OpenSucceeds, ReadOrJoin, Threads, Pcs
  <1>6. CASE OpenFails
    BY <1>6 DEF OpenFails, SetState, SockStates
  <1>7. CASE ReadsResponse
    <2> PICK m \in wire, res \in Outcomes :
          /\ inmsg' = [owner |-> m.owner, seq |-> m.seq, res |-> res]
          /\ wire' = wire \ {m}
          /\ served' = IF res = "ok" /\ m.kind \in Required
                       THEN served \cup {m.kind} ELSE served
      BY <1>7 DEF ReadsResponse
    <2>1. inmsg' \in Responses
      BY DEF Responses
    <2> QED BY <1>7, <2>1 DEF ReadsResponse
  <1>8. CASE ReadFails
    BY <1>8 DEF ReadFails
  <1>9. CASE Dispatch
    <2>1. inmsg \in Responses \cup {Nothing} /\ resp' \in [Threads -> Responses \cup {Nothing}]
      BY <1>9 DEF Dispatch
    <2> QED BY <1>9, <2>1 DEF Dispatch, ReadOrJoin
  <1>10. CASE Joins
    BY <1>10 DEF Joins
  <1>11. CASE Ends
    BY <1>11 DEF Ends
  <1> QED BY <1>1, <1>2, <1>3, <1>4, <1>5, <1>6, <1>7, <1>8, <1>9, <1>10, <1>11
          DEF MainStep

\* Stopping, suspending, waking and the peer keep the types.
LEMMA EnvTypeOK ==
  ASSUME TypeOK, EnvStep
  PROVE  TypeOK'
  <1> USE DEF connVars, thrVars, netVars, MainUnchanged, TypeOK
  <1>1. CASE StopBegins
    BY <1>1 DEF StopBegins
  <1>2. CASE StopDisconnects
    BY <1>2, DisconnectLemma DEF StopDisconnects
  <1>3. CASE OnSleep
    BY <1>3, DisconnectLemma DEF OnSleep
  <1>4. CASE OnWake
    BY <1>4 DEF OnWake
  <1>5. CASE Kick
    BY <1>5, DisconnectLemma DEF Kick
  <1>6. CASE PeerLeaves
    BY <1>6 DEF PeerLeaves, SockStates
  <1>7. CASE CalmDown
    BY <1>7 DEF CalmDown
  <1> QED BY <1>1, <1>2, <1>3, <1>4, <1>5, <1>6, <1>7 DEF EnvStep

\* Every variable keeps its type whatever the threads and the environment do.
THEOREM TypeCorrect == Spec => []TypeOK
  <1>1. TypeOK /\ [Next]_vars => TypeOK'
    <2> SUFFICES ASSUME TypeOK, [Next]_vars PROVE TypeOK'
      OBVIOUS
    <2>1. CASE UNCHANGED vars
      BY <2>1 DEF vars, connVars, thrVars, netVars, TypeOK
    <2> QED BY <2>1, ClientTypeOK, RegTypeOK, MainTypeOK, EnvTypeOK DEF Next
  <1> QED BY <1>1, InitTypeOK, PTL DEF Spec

-----------------------------------------------------------------------------
(***************************************************************************)
(* The inductive invariant.                                                *)
(***************************************************************************)
\* The inductive invariant holds after Start.
LEMMA InitIInv == Init => IInv
  <1> SUFFICES ASSUME Init PROVE IInv
    OBVIOUS
  <1>1. DOMAIN messages = {} /\ wire = {} /\ inmsg = Nothing /\ mainPc = "top"
    BY DEF Init, NoMessages
  <1>2. \A t \in Threads : resp[t] = Nothing
    BY DEF Init
  <1> QED BY <1>1, <1>2, InitTypeOK
          DEF IInv, NoDanglingResponse, ResponseMatches, WireOwners, InmsgOwner

\* Most steps add neither a request nor a response. They keep the invariant if
\* the threads that stay in m_messages, or keep a response, go on waiting.
LEMMA NothingNew ==
  ASSUME IInv, TypeOK',
         DOMAIN messages' \subseteq DOMAIN messages,
         \A s \in DOMAIN messages' : messages'[s] = messages[s],
         \A s \in DOMAIN messages' : pc'[messages[s]] = pc[messages[s]],
         \A s \in DOMAIN messages' : seq'[messages[s]] = seq[messages[s]],
         \A t \in Threads : resp'[t] # Nothing =>
           resp'[t] = resp[t] /\ pc'[t] = pc[t] /\ seq'[t] = seq[t],
         wire' \subseteq wire,
         mseq' \in {mseq, mseq + 1},
         inmsg' = inmsg,
         mainPc' = "dispatch" <=> mainPc = "dispatch"
  PROVE  IInv'
  <1>1. NoDanglingResponse'
    BY DEF IInv, NoDanglingResponse
  <1>2. ResponseMatches'
    BY DEF IInv, ResponseMatches
  <1>3. ASSUME NEW m, OwnerKnown(m), m.seq \in Nat PROVE OwnerKnown(m)'
    BY <1>3 DEF IInv, TypeOK, OwnerKnown
  <1>4. WireOwners'
    BY <1>3 DEF IInv, TypeOK, WireOwners
  <1>5. InmsgOwner'
    BY <1>3 DEF IInv, TypeOK, InmsgOwner, Responses
  <1> QED BY <1>1, <1>2, <1>4, <1>5 DEF IInv

\* A step that leaves m_messages, the wire, the responses and the waits alone.
LEMMA NothingMoved ==
  ASSUME IInv, TypeOK',
         UNCHANGED <<messages, wire, mseq, seq, resp, inmsg>>,
         \A t \in Threads : pc[t] = "wait" => pc'[t] = pc[t],
         mainPc' = "dispatch" <=> mainPc = "dispatch"
  PROVE  IInv'
  <1>1. \A s \in DOMAIN messages : messages[s] \in Threads /\ pc[messages[s]] = "wait"
    BY DEF IInv, TypeOK, NoDanglingResponse
  <1>2. \A t \in Threads : resp[t] # Nothing => pc[t] = "wait"
    BY DEF IInv, ResponseMatches
  <1> QED BY <1>1, <1>2, NothingNew

\* A step that drops entries and requests as GiveUp and Disconnect do, while
\* at most thread t, whose own entry is gone, leaves its wait.
LEMMA EntriesDropped ==
  ASSUME IInv, TypeOK', NEW t \in Threads,
         DOMAIN messages' \subseteq DOMAIN messages,
         \A s \in DOMAIN messages' : messages'[s] = messages[s] /\ messages[s] # t,
         wire' \subseteq wire,
         mseq' \in {mseq, mseq + 1},
         UNCHANGED <<inmsg, mainPc>>,
         resp'[t] = Nothing,
         \A u \in Threads \ {t} : resp'[u] = resp[u] /\ pc'[u] = pc[u] /\ seq'[u] = seq[u]
  PROVE  IInv'
  <1>1. \A s \in DOMAIN messages' : messages[s] \in Threads \ {t}
    BY DEF IInv, TypeOK
  <1>2. \A u \in Threads : resp'[u] # Nothing => u \in Threads \ {t}
    OBVIOUS
  <1> QED BY <1>1, <1>2, NothingNew

\* A request is sent: its sequence number is new on this connection, so no
\* request on the wire has it, and the thread had no entry, as it did not wait.
LEMMA SendStep ==
  ASSUME IInv, TypeOK', NEW t \in Threads, NEW kind,
         pc[t] # "wait", SendOk(t, kind), pc' = [pc EXCEPT ![t] = "wait"],
         UNCHANGED <<resp, inmsg, mainPc>>
  PROVE  IInv'
  <1>1. /\ mseq \in Nat /\ mseq' = mseq + 1
        /\ seq' = [seq EXCEPT ![t] = mseq + 1]
        /\ seq \in [Threads -> Nat] /\ pc \in [Threads -> Pcs]
        /\ DOMAIN messages' = DOMAIN messages \cup {mseq + 1}
        /\ messages'[mseq + 1] = t
        /\ \A s \in DOMAIN messages : s # mseq + 1 => messages'[s] = messages[s]
    <2>1. mseq' = mseq + 1 /\ seq' = [seq EXCEPT ![t] = mseq + 1]
          /\ messages' = With(messages, mseq + 1, t)
      BY DEF SendOk
    <2>2. mseq \in Nat /\ seq \in [Threads -> Nat] /\ pc \in [Threads -> Pcs]
      BY DEF IInv, TypeOK
    <2>3. /\ DOMAIN messages' = DOMAIN messages \cup {mseq + 1}
          /\ messages'[mseq + 1] = t
          /\ \A s \in DOMAIN messages : s # mseq + 1 => messages'[s] = messages[s]
      BY <2>1 DEF With
    <2> QED BY <2>1, <2>2, <2>3
  <1>2. \A s \in DOMAIN messages : messages[s] \in Threads /\ messages[s] # t
    BY DEF IInv, TypeOK, NoDanglingResponse
  <1>3. NoDanglingResponse'
    BY <1>1, <1>2 DEF IInv, NoDanglingResponse
  <1>4. resp[t] = Nothing
    BY DEF IInv, ResponseMatches
  <1>5. ResponseMatches'
    BY <1>1, <1>4 DEF IInv, ResponseMatches
  <1>6. ASSUME NEW m, OwnerKnown(m), m.seq \in Nat PROVE OwnerKnown(m)'
    BY <1>1, <1>6 DEF OwnerKnown
  <1>7. WireOwners'
    <2> SUFFICES ASSUME NEW m \in wire' PROVE OwnerKnown(m)'
      BY DEF WireOwners
    <2>1. CASE m \in wire
      BY <1>6, <2>1 DEF IInv, TypeOK, WireOwners
    <2>2. CASE m = [owner |-> t, seq |-> mseq + 1, kind |-> kind]
      BY <1>1, <2>2 DEF OwnerKnown
    <2> QED BY <2>1, <2>2 DEF SendOk
  <1>8. InmsgOwner'
    BY <1>6 DEF IInv, TypeOK, InmsgOwner, Responses
  <1> QED BY <1>3, <1>5, <1>7, <1>8 DEF IInv

\* The steps of SendAndWait and SendAndWait0 keep the inductive invariant.
LEMMA ClientIInv ==
  ASSUME IInv, NEW c \in Clients, ClientStep(c)
  PROVE  IInv'
  <1>0. c \in Threads /\ TypeOK' /\ TypeOK
    BY ClientTypeOK DEF IInv, Threads
  <1> USE DEF connVars, netVars
  <1>1. CASE CallWaits(c)
    BY <1>0, <1>1, NothingMoved DEF CallWaits, TypeOK
  <1>2. CASE CallSends(c)
    <2> PICK kind \in {"gated", "direct"} :
          \/ SendOk(c, kind) /\ pc' = [pc EXCEPT ![c] = "wait"]
          \/ SendFails /\ pc' = [pc EXCEPT ![c] = "null"]
      BY <1>2 DEF CallSends
    <2>1. pc[c] # "wait" /\ UNCHANGED <<resp, inmsg, mainPc>>
      BY <1>2 DEF CallSends
    <2>2. CASE SendOk(c, kind) /\ pc' = [pc EXCEPT ![c] = "wait"]
      BY <1>0, <2>1, <2>2, SendStep
    <2>3. CASE SendFails /\ pc' = [pc EXCEPT ![c] = "null"]
      <3>1. mseq' = mseq + 1 /\ UNCHANGED seq /\ GiveUp(mseq + 1)
        BY <2>3 DEF SendFails
      <3>2. resp[c] = Nothing /\ \A s \in DOMAIN messages : messages[s] # c
        BY <1>0, <2>1 DEF IInv, ResponseMatches, NoDanglingResponse
      <3>3. /\ wire' \subseteq wire
            /\ \A s \in DOMAIN messages' : s \in DOMAIN messages /\ messages'[s] = messages[s]
        BY <3>1, GiveUpLemma
      <3>4. \A s \in DOMAIN messages' : messages'[s] = messages[s] /\ messages[s] # c
        BY <3>2, <3>3
      <3>5. \A u \in Threads \ {c} : resp'[u] = resp[u] /\ pc'[u] = pc[u] /\ seq'[u] = seq[u]
        BY <1>0, <2>1, <2>3, <3>1 DEF TypeOK
      <3> QED BY <1>0, <2>1, <3>1, <3>2, <3>3, <3>4, <3>5, EntriesDropped
    <2> QED BY <2>2, <2>3
  <1>3. CASE GateTimesOut(c)
    BY <1>0, <1>3, NothingMoved DEF GateTimesOut, TypeOK
  <1>4. CASE CallAnswered(c)
    <2>1. UNCHANGED <<mseq, inmsg, mainPc, wire>> /\ Forget(c)
      BY <1>4 DEF CallAnswered
    <2>2. /\ DOMAIN messages' = DOMAIN messages \ {seq[c]}
          /\ \A s \in DOMAIN messages' : messages'[s] = messages[s] /\ messages[s] # c
      <3>1. messages' = Without(messages, seq[c])
        BY <2>1 DEF Forget
      <3>2. \A s \in DOMAIN messages : messages[s] = c => s = seq[c]
        BY DEF IInv, NoDanglingResponse
      <3>3. /\ DOMAIN messages' = DOMAIN messages \ {seq[c]}
            /\ \A s \in DOMAIN messages' : messages'[s] = messages[s]
        BY <3>1, WithoutLemma
      <3> QED BY <3>2, <3>3
    <2>3. resp'[c] = Nothing
      BY <1>0, <2>1 DEF Forget, TypeOK
    <2>4. \A u \in Threads \ {c} : resp'[u] = resp[u] /\ pc'[u] = pc[u] /\ seq'[u] = seq[u]
      BY <1>0, <1>4, <2>1 DEF CallAnswered, Forget, TypeOK
    <2> QED BY <1>0, <2>1, <2>2, <2>3, <2>4, EntriesDropped
  <1>5. CASE CallTimesOut(c)
    <2>1. /\ UNCHANGED <<mseq, inmsg, mainPc, resp>> /\ resp[c] = Nothing
          /\ GiveUp(seq[c]) /\ seq' = [seq EXCEPT ![c] = 0] /\ pc' = [pc EXCEPT ![c] = "null"]
      BY <1>5 DEF CallTimesOut, TimesOut
    <2>2. \A s \in DOMAIN messages' : s \in DOMAIN messages /\ messages'[s] = messages[s]
      BY <2>1, GiveUpLemma
    <2>3. \A s \in DOMAIN messages' : messages[s] # c
      BY <2>1, <2>2, GiveUpLemma DEF IInv, NoDanglingResponse
    <2>4. wire' \subseteq wire
      BY <2>1, GiveUpLemma
    <2> QED BY <1>0, <2>1, <2>2, <2>3, <2>4, EntriesDropped DEF TypeOK
  <1>6. CASE CallReturns(c)
    BY <1>0, <1>6, NothingMoved DEF CallReturns, TypeOK
  <1> QED BY <1>1, <1>2, <1>3, <1>4, <1>5, <1>6 DEF ClientStep

\* The decision of Register moves the registration thread only.
LEMMA RegProceedsFrame ==
  ASSUME TypeOK, NEW good, RegProceeds(good)
  PROVE  \A u \in Threads \ {Reg} : pc'[u] = pc[u]
  BY DEF RegProceeds, TypeOK

\* The steps of the registration thread keep the inductive invariant.
LEMMA RegIInv ==
  ASSUME IInv, RegStep
  PROVE  IInv'
  <1>0. Reg \in Threads /\ TypeOK' /\ TypeOK
    BY RegTypeOK DEF IInv, Threads
  <1> USE DEF connVars, netVars
  <1>1. CASE RegLocks
    BY <1>0, <1>1, NothingMoved DEF RegLocks, TypeOK
  <1>2. CASE RegSends
    BY <1>0, <1>2, SendStep DEF RegSends
  <1>3. CASE RegSendFails
    <2>1. /\ pc[Reg] # "wait" /\ UNCHANGED <<resp, seq, inmsg, mainPc>>
          /\ mseq' = mseq + 1 /\ GiveUp(mseq + 1) /\ RegProceeds(FALSE)
      BY <1>3 DEF RegSendFails, SendFails
    <2>2. resp[Reg] = Nothing /\ \A s \in DOMAIN messages : messages[s] # Reg
      BY <1>0, <2>1 DEF IInv, ResponseMatches, NoDanglingResponse
    <2>3. /\ wire' \subseteq wire
          /\ \A s \in DOMAIN messages' : s \in DOMAIN messages /\ messages'[s] = messages[s]
      BY <2>1, GiveUpLemma
    <2>4. \A s \in DOMAIN messages' : messages'[s] = messages[s] /\ messages[s] # Reg
      BY <2>2, <2>3
    <2>5. \A u \in Threads \ {Reg} : pc'[u] = pc[u]
      BY <1>0, <2>1, RegProceedsFrame
    <2> QED BY <1>0, <2>1, <2>2, <2>3, <2>4, <2>5, EntriesDropped
  <1>4. CASE RegAnswered
    <2>1. UNCHANGED <<mseq, inmsg, mainPc, wire>> /\ Forget(Reg) /\ \E b : RegProceeds(b)
      BY <1>4 DEF RegAnswered
    <2>2. /\ DOMAIN messages' = DOMAIN messages \ {seq[Reg]}
          /\ \A s \in DOMAIN messages' : messages'[s] = messages[s] /\ messages[s] # Reg
      <3>1. messages' = Without(messages, seq[Reg])
        BY <2>1 DEF Forget
      <3>2. \A s \in DOMAIN messages : messages[s] = Reg => s = seq[Reg]
        BY DEF IInv, NoDanglingResponse
      <3>3. /\ DOMAIN messages' = DOMAIN messages \ {seq[Reg]}
            /\ \A s \in DOMAIN messages' : messages'[s] = messages[s]
        BY <3>1, WithoutLemma
      <3> QED BY <3>2, <3>3
    <2>3. resp'[Reg] = Nothing
      BY <1>0, <2>1 DEF Forget, TypeOK
    <2>4. \A u \in Threads \ {Reg} : resp'[u] = resp[u] /\ seq'[u] = seq[u]
      BY <1>0, <2>1 DEF Forget, TypeOK
    <2>5. \A u \in Threads \ {Reg} : pc'[u] = pc[u]
      BY <1>0, <2>1, RegProceedsFrame
    <2> QED BY <1>0, <2>1, <2>2, <2>3, <2>4, <2>5, EntriesDropped
  <1>5. CASE RegTimesOut
    <2>1. /\ UNCHANGED <<mseq, inmsg, mainPc, resp>> /\ resp[Reg] = Nothing
          /\ GiveUp(seq[Reg]) /\ seq' = [seq EXCEPT ![Reg] = 0] /\ RegProceeds(FALSE)
      BY <1>5 DEF RegTimesOut, TimesOut
    <2>2. \A s \in DOMAIN messages' : s \in DOMAIN messages /\ messages'[s] = messages[s]
      BY <2>1, GiveUpLemma
    <2>3. \A s \in DOMAIN messages' : messages[s] # Reg
      BY <2>1, <2>2, GiveUpLemma DEF IInv, NoDanglingResponse
    <2>4. wire' \subseteq wire
      BY <2>1, GiveUpLemma
    <2>5. \A u \in Threads \ {Reg} : pc'[u] = pc[u]
      BY <1>0, <2>1, RegProceedsFrame
    <2> QED BY <1>0, <2>1, <2>2, <2>3, <2>4, <2>5, EntriesDropped DEF TypeOK
  <1>6. CASE RegFails
    BY <1>0, <1>6, NothingMoved DEF RegFails, TypeOK
  <1>7. CASE RegDisconnects
    <2>1. /\ UNCHANGED <<mseq, inmsg, mainPc, resp, seq>> /\ Disconnect /\ pc[Reg] # "wait"
          /\ pc' = [pc EXCEPT ![Reg] = "off"]
      BY <1>7 DEF RegDisconnects
    <2>2. resp[Reg] = Nothing
      BY <1>0, <2>1 DEF IInv, ResponseMatches
    <2> QED BY <1>0, <2>1, <2>2, DisconnectLemma, EntriesDropped DEF TypeOK
  <1> QED BY <1>1, <1>2, <1>3, <1>4, <1>5, <1>6, <1>7 DEF RegStep

\* The steps of the connection thread keep the inductive invariant, given that
\* OpenSucceeds starts a registration thread where none is waiting.
LEMMA MainIInv ==
  ASSUME IInv, RegParked, MainStep
  PROVE  IInv'
  <1>0. TypeOK' /\ TypeOK
    BY MainTypeOK DEF IInv
  <1> USE DEF connVars, thrVars, netVars, MainUnchanged
  <1>1. CASE NewSocket
    <2>1. wire' = {} /\ inmsg' = Nothing /\ mainPc' # "dispatch"
      BY <1>1 DEF NewSocket, IInv, InmsgOwner
    <2>2. NoDanglingResponse' /\ ResponseMatches'
      BY <1>1 DEF NewSocket, IInv, NoDanglingResponse, ResponseMatches
    <2> QED BY <1>0, <2>1, <2>2 DEF IInv, WireOwners, InmsgOwner
  <1>2. CASE LeaveGate
    BY <1>0, <1>2, NothingMoved DEF LeaveGate
  <1>3. CASE OpenBegins
    BY <1>0, <1>3, NothingMoved DEF OpenBegins
  <1>4. CASE PeerAccepts
    BY <1>0, <1>4, NothingMoved DEF PeerAccepts
  <1>5. CASE OpenSucceeds
    <2>1. pc[Reg] # "wait"
      BY <1>5 DEF OpenSucceeds, RegParked
    <2> QED BY <1>0, <1>5, <2>1, NothingMoved DEF OpenSucceeds, ReadOrJoin
  <1>6. CASE OpenFails
    BY <1>0, <1>6, NothingMoved DEF OpenFails
  <1>7. CASE ReadsResponse
    <2> PICK m \in wire, res \in Outcomes :
          /\ inmsg' = [owner |-> m.owner, seq |-> m.seq, res |-> res]
          /\ wire' = wire \ {m}
      BY <1>7 DEF ReadsResponse
    <2>1. UNCHANGED <<messages, mseq, pc, seq, resp>> /\ mainPc' = "dispatch"
      BY <1>7 DEF ReadsResponse
    <2>2. NoDanglingResponse' /\ ResponseMatches'
      BY <2>1 DEF IInv, NoDanglingResponse, ResponseMatches
    <2>3. WireOwners' /\ OwnerKnown(inmsg)'
      BY <2>1 DEF IInv, WireOwners, OwnerKnown
    <2>4. inmsg' # Nothing
      BY DEF Nothing, Outcomes
    <2> QED BY <1>0, <2>1, <2>2, <2>3, <2>4 DEF IInv, InmsgOwner
  <1>8. CASE ReadFails
    BY <1>0, <1>8, NothingMoved DEF ReadFails
  <1>9. CASE Dispatch
    <2>1. /\ UNCHANGED <<messages, mseq, pc, seq, wire>>
          /\ inmsg' = Nothing /\ mainPc' # "dispatch"
          /\ inmsg # Nothing
      BY <1>9 DEF Dispatch, ReadOrJoin, IInv, InmsgOwner
    <2>2. NoDanglingResponse' /\ WireOwners' /\ InmsgOwner'
      BY <2>1 DEF IInv, NoDanglingResponse, WireOwners, OwnerKnown, InmsgOwner
    <2>3. CASE inmsg.seq \in DOMAIN messages
      <3>1. resp' = [resp EXCEPT ![messages[inmsg.seq]] = inmsg]
        BY <1>9, <2>3 DEF Dispatch
      <3>2. /\ messages[inmsg.seq] = inmsg.owner /\ inmsg.owner \in Threads
            /\ pc[inmsg.owner] = "wait" /\ seq[inmsg.owner] = inmsg.seq
        BY <1>0, <2>1, <2>3 DEF IInv, InmsgOwner, OwnerKnown, NoDanglingResponse, TypeOK
      <3>3. ResponseMatches'
        BY <1>0, <2>1, <3>1, <3>2 DEF IInv, ResponseMatches, TypeOK
      <3> QED BY <1>0, <2>2, <3>3 DEF IInv
    <2>4. CASE inmsg.seq \notin DOMAIN messages
      BY <1>0, <1>9, <2>1, <2>2, <2>4 DEF Dispatch, IInv, ResponseMatches
    <2> QED BY <2>3, <2>4
  <1>10. CASE Joins
    BY <1>0, <1>10, NothingMoved DEF Joins
  <1>11. CASE Ends
    BY <1>0, <1>11, NothingMoved DEF Ends
  <1> QED BY <1>1, <1>2, <1>3, <1>4, <1>5, <1>6, <1>7, <1>8, <1>9, <1>10, <1>11
          DEF MainStep

\* Stopping, suspending, waking, losing the peer: whatever drops entries drops
\* them all.
LEMMA EnvIInv ==
  ASSUME IInv, EnvStep
  PROVE  IInv'
  <1>0. TypeOK' /\ TypeOK
    BY EnvTypeOK DEF IInv
  <1> USE DEF connVars, thrVars, netVars, MainUnchanged
  <1>1. CASE StopBegins
    BY <1>0, <1>1, NothingMoved DEF StopBegins
  <1>2. CASE StopDisconnects
    BY <1>0, <1>2, DisconnectLemma, NothingNew DEF StopDisconnects, IInv, ResponseMatches
  <1>3. CASE OnSleep
    BY <1>0, <1>3, DisconnectLemma, NothingNew DEF OnSleep, IInv, ResponseMatches
  <1>4. CASE OnWake
    BY <1>0, <1>4, NothingMoved DEF OnWake
  <1>5. CASE Kick
    BY <1>0, <1>5, DisconnectLemma, NothingNew DEF Kick, IInv, ResponseMatches
  <1>6. CASE PeerLeaves
    BY <1>0, <1>6, NothingNew DEF PeerLeaves, IInv, NoDanglingResponse, ResponseMatches
  <1>7. CASE CalmDown
    BY <1>0, <1>7, NothingMoved DEF CalmDown
  <1> QED BY <1>1, <1>2, <1>3, <1>4, <1>5, <1>6, <1>7 DEF EnvStep

-----------------------------------------------------------------------------
(***************************************************************************)
(* The theorems.                                                           *)
(***************************************************************************)

\* At most one registration thread exists, and Register never runs against a
\* socket that is still being created or opened.
THEOREM OneRegistration == Spec => []RegParked
  <1>1. Init => RegParked
    BY DEF Init, RegParked, Threads
  <1>2. TypeOK /\ RegParked /\ [Next]_vars => RegParked'
    <2> SUFFICES ASSUME TypeOK, RegParked, [Next]_vars PROVE RegParked'
      OBVIOUS
    <2> USE DEF RegParked, connVars, thrVars, netVars, MainUnchanged
    <2>1. ASSUME NEW c \in Clients, ClientStep(c) PROVE RegParked'
      <3>1. mainPc' = mainPc
        BY <2>1 DEF ClientStep, CallWaits, CallSends, GateTimesOut, CallAnswered,
                    CallTimesOut, CallReturns
      <3>2. \E x : pc' = [pc EXCEPT ![c] = x]
        BY <2>1 DEF ClientStep, CallWaits, CallSends, GateTimesOut, CallAnswered,
                    CallTimesOut, CallReturns
      <3> QED BY <3>1, <3>2, ThreadsAssumption DEF TypeOK
    <2>2. CASE RegStep
      <3>1. pc[Reg] # "off" /\ mainPc' = mainPc
        BY <2>2 DEF RegStep, RegLocks, RegSends, RegSendFails, RegAnswered, RegTimesOut,
                    RegFails, RegDisconnects
      <3> QED BY <3>1
    <2>3. CASE MainStep
      BY <2>3 DEF MainStep, NewSocket, LeaveGate, OpenBegins, PeerAccepts, OpenSucceeds,
                  OpenFails, ReadsResponse, ReadFails, Dispatch, Joins, Ends, ReadOrJoin
    <2>4. CASE EnvStep
      BY <2>4 DEF EnvStep, StopBegins, StopDisconnects, OnSleep, OnWake, Kick, PeerLeaves,
                  CalmDown
    <2>5. CASE UNCHANGED vars
      BY <2>5 DEF vars
    <2> QED BY <2>1, <2>2, <2>3, <2>4, <2>5 DEF Next
  <1> QED BY <1>1, <1>2, TypeCorrect, PTL DEF Spec

\* The inductive invariant holds in every reachable state.
LEMMA Inductive == Spec => []IInv
  <1>1. IInv /\ RegParked /\ [Next]_vars => IInv'
    <2> SUFFICES ASSUME IInv, RegParked, [Next]_vars PROVE IInv'
      OBVIOUS
    <2>1. CASE UNCHANGED vars
      <3>1. /\ UNCHANGED <<messages, mseq, wire, inmsg, mainPc, pc, seq, resp>>
            /\ TypeOK'
        BY <2>1 DEF vars, connVars, thrVars, netVars, IInv, TypeOK
      <3> QED BY <3>1, NothingMoved
    <2> QED BY <2>1, ClientIInv, RegIInv, MainIInv, EnvIInv DEF Next
  <1> QED BY <1>1, InitIInv, OneRegistration, PTL DEF Spec

\* No pointer in m_messages outlives the call whose response it leads to, for
\* any number of threads, connections, losses, time-outs and suspensions.
THEOREM NoDangling == Spec => []NoDanglingResponse
  BY Inductive, PTL DEF IInv

\* A thread is only ever handed the response to its own current request, although
\* every new connection starts m_seq again while old entries are still in m_messages.
THEOREM ResponsesMatch == Spec => []ResponseMatches
  BY Inductive, PTL DEF IInv

-----------------------------------------------------------------------------
(***************************************************************************)
(* No request that waits for m_ready is sent before the registration of    *)
(* the connection it is written to, for any number of callers and queries, *)
(* whatever the environment does.                                          *)
(***************************************************************************)

\* The server has granted the request number n of the registration, if its
\* grant is required.
Granted(n) == RegRequest(n) \in Required => RegRequest(n) \in served

\* m_ready is set only on a connection that has been registered.
ReadyGranted == ready => Required \subseteq served

\* Register goes from one request to the next only when the first was granted
\* or need not be, and starts with the first one.
RegGranted ==
  /\ pc[Reg] \in {"send", "wait"} => \A n \in 1..(regStep - 1) : Granted(n)
  /\ pc[Reg] \notin {"send", "wait"} => regStep = 1

\* What Register waits for is the request that it takes it for: the number on
\* the wire is that request's, and a good response to it says that it was granted.
RegAsked == pc[Reg] = "wait" =>
  /\ \A m \in wire : m.owner = Reg /\ m.seq = seq[Reg] => m.kind = RegRequest(regStep)
  /\ \A r \in {inmsg, resp[Reg]} :
       r # Nothing /\ r.owner = Reg /\ r.seq = seq[Reg] /\ r.res = "ok" => Granted(regStep)

\* The inductive invariant, beside IInv and RegParked.
RInv == ReadyGranted /\ RegGranted /\ RegAsked /\ NoRequestBeforeRegistration

-----------------------------------------------------------------------------
\* The requests of the registration, by their number.
LEMMA RegRequests ==
  /\ RegRequest(1) = "hello" /\ RegRequest(2) = "authenticate"
  /\ RegRequest(RegLast) = "enableAsyncMetadata"
  /\ \A n \in 3..RegLast : n # RegLast => RegRequest(n) = "query"
  BY BoundsAssumption DEF RegRequest, RegLast

\* A connection that is not registered, at the start.
LEMMA InitRInv == Init => RInv
  BY DEF Init, RInv, ReadyGranted, RegGranted, RegAsked, NoRequestBeforeRegistration, Threads

\* Most steps add no request of the registration and no response. They keep the
\* invariant if they take no grant back, if the registration thread goes on to
\* wait for nothing new, and if a gated request is sent only with m_ready.
LEMMA Kept ==
  ASSUME RInv,
         served \subseteq served', ready' => ready, UNCHANGED regStep,
         \/ pc'[Reg] = pc[Reg] /\ seq'[Reg] = seq[Reg]
         \/ pc[Reg] \notin {"send", "wait"} /\ pc'[Reg] # "wait",
         \A m \in wire' : m \in wire \/ (m.owner # Reg /\ (m.kind = "gated" => ready)),
         inmsg' \in {inmsg, Nothing}, resp'[Reg] = resp[Reg]
  PROVE  RInv'
  <1>1. \A n : Granted(n) => Granted(n)'
    BY DEF Granted
  <1>2. ReadyGranted'
    BY DEF RInv, ReadyGranted
  <1>3. NoRequestBeforeRegistration'
    BY DEF RInv, ReadyGranted, NoRequestBeforeRegistration
  <1>4. RegGranted'
    BY <1>1 DEF RInv, RegGranted
  <1>5. RegAsked'
    <2> SUFFICES ASSUME pc'[Reg] = "wait" PROVE RegAsked'
      BY DEF RegAsked
    <2>1. pc[Reg] = "wait" /\ seq'[Reg] = seq[Reg]
      OBVIOUS
    <2>2. \A m \in wire' : m.owner = Reg /\ m.seq = seq[Reg] => m.kind = RegRequest(regStep)
      BY <2>1 DEF RInv, RegAsked
    <2>3. \A r \in {inmsg', resp'[Reg]} :
            r # Nothing /\ r.owner = Reg /\ r.seq = seq[Reg] /\ r.res = "ok" => Granted(regStep)
      BY <2>1 DEF RInv, RegAsked
    <2>4. Granted(regStep) => Granted(regStep)'
      BY DEF Granted
    <2> QED BY <2>1, <2>2, <2>3, <2>4 DEF RegAsked
  <1> QED BY <1>2, <1>3, <1>4, <1>5 DEF RInv

\* What Register does with the outcome of a request keeps the invariant, if a
\* good outcome means that the request was granted.
LEMMA Proceeds ==
  ASSUME IInv, RInv, pc[Reg] \in {"send", "wait"},
         NEW good \in BOOLEAN, good => Granted(regStep), RegProceeds(good),
         UNCHANGED served, wire' \subseteq wire
  PROVE  RInv'
  <1>1. /\ regStep \in 1..RegLast /\ RegLast \in Nat /\ RegLast >= 3
        /\ pc \in [Threads -> Pcs] /\ Reg \in Threads
    BY BoundsAssumption DEF IInv, TypeOK, RegLast, Threads
  <1>2. \A n : Granted(n) => Granted(n)'
    BY DEF Granted
  <1>3. \A n \in 1..(regStep - 1) : Granted(n)
    BY DEF RInv, RegGranted
  <1>4. NoRequestBeforeRegistration'
    BY DEF RInv, NoRequestBeforeRegistration
  <1>5. CASE regStep' = 1 /\ pc' = [pc EXCEPT ![Reg] = "fail"] /\ ready' = ready
    BY <1>1, <1>4, <1>5 DEF RInv, ReadyGranted, RegGranted, RegAsked
  <1>6. CASE good /\ regStep = RegLast /\ regStep' = 1 /\ pc' = [pc EXCEPT ![Reg] = "off"]
    <2>1. Granted(1) /\ Granted(2) /\ Granted(RegLast)
      BY <1>1, <1>3, <1>6
    <2>2. Required \subseteq served
      BY <2>1, RegRequests DEF Granted, Required
    <2> QED BY <1>1, <1>4, <1>6, <2>2 DEF RInv, ReadyGranted, RegGranted, RegAsked
  <1>7. CASE /\ regStep # RegLast /\ (good \/ regStep > 2) /\ regStep' = regStep + 1
             /\ pc' = [pc EXCEPT ![Reg] = "send"] /\ ready' = ready
    <2>1. Granted(regStep)
      <3>1. CASE good
        BY <3>1
      <3>2. CASE regStep > 2
        <4>1. RegRequest(regStep) = "query"
          BY <1>1, <1>7, <3>2, RegRequests
        <4> QED BY <4>1 DEF Granted, Required
      <3> QED BY <1>7, <3>1, <3>2
    <2>2. \A n \in 1..(regStep' - 1) : Granted(n)
      BY <1>1, <1>3, <1>7, <2>1
    <2>3. pc'[Reg] = "send"
      BY <1>1, <1>7
    <2>4. RegGranted'
      BY <1>2, <2>2, <2>3 DEF RegGranted
    <2> QED BY <1>4, <1>7, <2>3, <2>4 DEF RInv, ReadyGranted, RegAsked
  <1> QED BY <1>5, <1>6, <1>7 DEF RegProceeds

-----------------------------------------------------------------------------
\* A caller adds at most a request of its own, a gated one only with m_ready.
LEMMA ClientRInv ==
  ASSUME IInv, RInv, NEW c \in Clients, ClientStep(c)
  PROVE  RInv'
  <1>1. c # Reg /\ pc \in [Threads -> Pcs] /\ seq \in [Threads -> Nat]
        /\ resp \in [Threads -> Responses \cup {Nothing}] /\ Reg \in Threads
    BY ThreadsAssumption DEF IInv, TypeOK, Threads
  <1> USE DEF connVars, netVars
  <1>2. CASE CallWaits(c) \/ GateTimesOut(c) \/ CallReturns(c)
    BY <1>1, <1>2, Kept DEF CallWaits, GateTimesOut, CallReturns
  <1>3. CASE CallSends(c)
    <2>1. PICK kind \in {"gated", "direct"} :
            /\ kind = "gated" => ready
            /\ \/ SendOk(c, kind) /\ pc' = [pc EXCEPT ![c] = "wait"]
               \/ SendFails /\ pc' = [pc EXCEPT ![c] = "null"]
      BY <1>3 DEF CallSends
    <2>2. UNCHANGED <<served, ready, regStep, inmsg, resp>>
      BY <1>3 DEF CallSends
    <2>3. CASE SendOk(c, kind) /\ pc' = [pc EXCEPT ![c] = "wait"]
      <3>1. \A m \in wire' : m \in wire \/ (m.owner # Reg /\ (m.kind = "gated" => ready))
        BY <1>1, <2>1, <2>3 DEF SendOk
      <3>2. pc'[Reg] = pc[Reg] /\ seq'[Reg] = seq[Reg]
        BY <1>1, <2>3 DEF SendOk
      <3> QED BY <2>2, <3>1, <3>2, Kept
    <2>4. CASE SendFails /\ pc' = [pc EXCEPT ![c] = "null"]
      BY <1>1, <2>2, <2>4, GiveUpLemma, Kept DEF SendFails
    <2> QED BY <2>1, <2>3, <2>4
  <1>4. CASE CallAnswered(c)
    BY <1>1, <1>4, Kept DEF CallAnswered, Forget
  <1>5. CASE CallTimesOut(c)
    BY <1>1, <1>5, GiveUpLemma, Kept DEF CallTimesOut
  <1> QED BY <1>2, <1>3, <1>4, <1>5 DEF ClientStep

\* The registration thread: a request it sends has a number that nothing on the
\* wire, and no response, has; what it is told about it is true.
LEMMA RegRInv ==
  ASSUME IInv, RInv, RegStep
  PROVE  RInv'
  <1>1. pc \in [Threads -> Pcs] /\ seq \in [Threads -> Nat] /\ mseq \in Nat /\ Reg \in Threads
    BY DEF IInv, TypeOK, Threads
  <1> USE DEF connVars, netVars
  <1>2. CASE RegLocks \/ RegFails
    BY <1>1, <1>2, Kept DEF RegLocks, RegFails
  <1>3. CASE RegDisconnects
    BY <1>1, <1>3, DisconnectLemma, Kept DEF RegDisconnects
  <1>4. CASE RegSends
    <2>1. /\ pc[Reg] = "send" /\ pc'[Reg] = "wait" /\ seq'[Reg] = mseq + 1
          /\ UNCHANGED <<served, ready, regStep, inmsg, resp>>
      BY <1>1, <1>4 DEF RegSends, SendOk
    <2>2. \A m \in wire' :
            m \in wire \/ m = [owner |-> Reg, seq |-> mseq + 1, kind |-> RegRequest(regStep)]
      BY <1>4 DEF RegSends, SendOk
    <2>3. \A m \in wire : m.seq # mseq + 1
      BY <1>1 DEF IInv, TypeOK, WireOwners, OwnerKnown
    <2>4. resp[Reg] = Nothing /\ (inmsg # Nothing => inmsg.seq # mseq + 1)
      BY <1>1, <2>1 DEF IInv, TypeOK, InmsgOwner, OwnerKnown, ResponseMatches, Responses
    <2>5. RegRequest(regStep) # "gated"
      <3>1. regStep \in 1..RegLast /\ RegLast \in Nat
        BY BoundsAssumption DEF IInv, TypeOK, RegLast
      <3> QED BY <3>1, RegRequests
    <2>6. NoRequestBeforeRegistration'
      BY <2>1, <2>2, <2>5 DEF RInv, NoRequestBeforeRegistration
    <2>7. ReadyGranted'
      BY <2>1 DEF RInv, ReadyGranted
    <2>8. \A n : Granted(n) => Granted(n)'
      BY <2>1 DEF Granted
    <2>9. RegGranted'
      BY <2>1, <2>8 DEF RInv, RegGranted
    <2>10. RegAsked'
      <3>1. \A m \in wire' : m.owner = Reg /\ m.seq = mseq + 1 => m.kind = RegRequest(regStep)
        BY <2>2, <2>3
      <3>2. \A r \in {inmsg', resp'[Reg]} : ~(r # Nothing /\ r.seq = mseq + 1)
        BY <2>1, <2>4
      <3> QED BY <2>1, <3>1, <3>2 DEF RegAsked
    <2> QED BY <2>6, <2>7, <2>9, <2>10 DEF RInv
  <1>5. CASE RegSendFails
    <2>1. wire' \subseteq wire /\ pc[Reg] = "send" /\ RegProceeds(FALSE) /\ UNCHANGED served
      BY <1>5, GiveUpLemma DEF RegSendFails, SendFails
    <2> QED BY <2>1, Proceeds
  <1>6. CASE RegAnswered
    <2>1. /\ pc[Reg] = "wait" /\ resp[Reg] # Nothing /\ UNCHANGED <<served, wire>>
          /\ RegProceeds(resp[Reg].res = "ok")
      BY <1>6 DEF RegAnswered
    <2>2. resp[Reg].owner = Reg /\ resp[Reg].seq = seq[Reg]
      BY <1>1, <2>1 DEF IInv, ResponseMatches
    <2>3. resp[Reg].res = "ok" => Granted(regStep)
      BY <2>1, <2>2 DEF RInv, RegAsked
    <2> DEFINE good == resp[Reg].res = "ok"
    <2>4. good \in BOOLEAN /\ (good => Granted(regStep)) /\ RegProceeds(good)
      BY <2>1, <2>3
    <2> HIDE DEF good
    <2> QED BY <2>1, <2>4, Proceeds
  <1>7. CASE RegTimesOut
    <2>1. wire' \subseteq wire /\ pc[Reg] = "wait" /\ RegProceeds(FALSE) /\ UNCHANGED served
      BY <1>7, GiveUpLemma DEF RegTimesOut
    <2> QED BY <2>1, Proceeds
  <1> QED BY <1>2, <1>3, <1>4, <1>5, <1>6, <1>7 DEF RegStep

\* The connection thread: the grants are taken back with m_ready and when nobody
\* registers, and a response it reads and hands on is that of the request.
LEMMA MainRInv ==
  ASSUME IInv, RegParked, RInv, MainStep
  PROVE  RInv'
  <1>1. /\ pc \in [Threads -> Pcs] /\ seq \in [Threads -> Nat] /\ Reg \in Threads
        /\ resp \in [Threads -> Responses \cup {Nothing}]
    BY DEF IInv, TypeOK, Threads
  <1> USE DEF connVars, thrVars, netVars, MainUnchanged
  <1>2. CASE NewSocket
    <2>1. /\ pc'[Reg] = "off" /\ regStep' = 1 /\ ready' = FALSE /\ wire' = {}
      BY <1>2 DEF NewSocket, RegParked, RInv, RegGranted
    <2> QED BY <2>1 DEF RInv, ReadyGranted, RegGranted, RegAsked, NoRequestBeforeRegistration
  <1>3. CASE LeaveGate \/ OpenBegins \/ PeerAccepts \/ OpenFails \/ ReadFails \/ Joins \/ Ends
    <2>1. UNCHANGED <<served, wire, ready, regStep, pc, seq, resp, inmsg>>
      BY <1>3 DEF LeaveGate, OpenBegins, PeerAccepts, OpenFails, ReadFails, Joins, Ends
    <2> QED BY <2>1, Kept
  <1>4. CASE OpenSucceeds
    <2>1. pc[Reg] = "off" /\ pc'[Reg] = "start"
      BY <1>1, <1>4 DEF OpenSucceeds, RegParked
    <2> QED BY <1>4, <2>1, Kept DEF OpenSucceeds
  <1>5. CASE ReadsResponse
    <2>1. PICK m \in wire, res \in Outcomes :
            /\ inmsg' = [owner |-> m.owner, seq |-> m.seq, res |-> res]
            /\ wire' = wire \ {m}
            /\ served' = IF res = "ok" /\ m.kind \in Required THEN served \cup {m.kind} ELSE served
      BY <1>5 DEF ReadsResponse
    <2>2. UNCHANGED <<ready, regStep, pc, seq, resp>>
      BY <1>5 DEF ReadsResponse
    <2>3. served \subseteq served' /\ (res = "ok" /\ m.kind \in Required => m.kind \in served')
      BY <2>1
    <2>4. \A n : Granted(n) => Granted(n)'
      BY <2>3 DEF Granted
    <2>5. ReadyGranted' /\ RegGranted' /\ NoRequestBeforeRegistration'
      BY <2>1, <2>2, <2>3, <2>4
      DEF RInv, ReadyGranted, RegGranted, NoRequestBeforeRegistration
    <2>6. RegAsked'
      <3> SUFFICES ASSUME pc[Reg] = "wait" PROVE RegAsked'
        BY <2>2 DEF RegAsked
      <3>1. \A x \in wire' : x.owner = Reg /\ x.seq = seq[Reg] => x.kind = RegRequest(regStep)
        BY <2>1 DEF RInv, RegAsked
      <3>2. ASSUME m.owner = Reg, m.seq = seq[Reg], res = "ok" PROVE Granted(regStep)'
        <4>1. m.kind = RegRequest(regStep)
          BY <3>2 DEF RInv, RegAsked
        <4>2. RegRequest(regStep) \in Required => RegRequest(regStep) \in served'
          BY <2>3, <3>2, <4>1
        <4> QED BY <2>2, <4>2 DEF Granted
      <3>3. ASSUME resp[Reg] # Nothing, resp[Reg].owner = Reg, resp[Reg].seq = seq[Reg],
                   resp[Reg].res = "ok"
            PROVE  Granted(regStep)'
        <4>1. Granted(regStep)
          BY <3>3 DEF RInv, RegAsked
        <4> QED BY <2>2, <2>3, <4>1 DEF Granted
      <3>4. inmsg'.owner = m.owner /\ inmsg'.seq = m.seq /\ inmsg'.res = res
        BY <2>1
      <3> QED BY <2>2, <3>1, <3>2, <3>3, <3>4 DEF RegAsked
    <2> QED BY <2>5, <2>6 DEF RInv
  <1>6. CASE Dispatch
    <2>1. /\ inmsg' = Nothing /\ UNCHANGED <<ready, served, wire, regStep, pc, seq>>
          /\ resp'[Reg] \in {resp[Reg], inmsg}
      BY <1>1, <1>6 DEF Dispatch
    <2>2. \A n : Granted(n) => Granted(n)'
      BY <2>1 DEF Granted
    <2>3. ReadyGranted' /\ RegGranted' /\ NoRequestBeforeRegistration'
      BY <2>1, <2>2 DEF RInv, ReadyGranted, RegGranted, NoRequestBeforeRegistration
    <2>4. RegAsked'
      <3> SUFFICES ASSUME pc[Reg] = "wait" PROVE RegAsked'
        BY <2>1 DEF RegAsked
      <3>1. Granted(regStep) => Granted(regStep)'
        BY <2>1 DEF Granted
      <3>2. \A x \in wire' : x.owner = Reg /\ x.seq = seq[Reg] => x.kind = RegRequest(regStep)
        BY <2>1 DEF RInv, RegAsked
      <3>3. \A r \in {inmsg', resp'[Reg]} :
              r # Nothing /\ r.owner = Reg /\ r.seq = seq[Reg] /\ r.res = "ok" => Granted(regStep)
        BY <2>1 DEF RInv, RegAsked
      <3> QED BY <2>1, <3>1, <3>2, <3>3 DEF RegAsked
    <2> QED BY <2>3, <2>4 DEF RInv
  <1> QED BY <1>2, <1>3, <1>4, <1>5, <1>6 DEF MainStep

\* Stopping, suspending, waking and losing the peer send nothing and grant nothing.
LEMMA EnvRInv ==
  ASSUME RInv, EnvStep
  PROVE  RInv'
  <1> USE DEF connVars, thrVars, netVars, MainUnchanged
  <1>1. CASE StopBegins \/ OnWake \/ CalmDown
    BY <1>1, Kept DEF StopBegins, OnWake, CalmDown
  <1>2. CASE StopDisconnects \/ OnSleep \/ Kick
    BY <1>2, DisconnectLemma, Kept DEF StopDisconnects, OnSleep, Kick
  <1>3. CASE PeerLeaves
    BY <1>3, Kept DEF PeerLeaves
  <1> QED BY <1>1, <1>2, <1>3 DEF EnvStep

\* SendAndWait's wait for m_ready keeps each request that needs the registration
\* behind it, on every connection there will be: the server has granted hello,
\* authenticate and enableAsyncMetadata on the connection it is written to.
THEOREM RegisteredFirst == Spec => []NoRequestBeforeRegistration
  <1>1. IInv /\ RegParked /\ RInv /\ [Next]_vars => RInv'
    <2> SUFFICES ASSUME IInv, RegParked, RInv, [Next]_vars PROVE RInv'
      OBVIOUS
    <2>1. CASE UNCHANGED vars
      BY <2>1, Kept DEF vars, connVars, thrVars, netVars
    <2> QED BY <2>1, ClientRInv, RegRInv, MainRInv, EnvRInv DEF Next
  <1> QED BY <1>1, InitRInv, Inductive, OneRegistration, PTL DEF Spec, RInv

-----------------------------------------------------------------------------
\* The inductive invariant behind ReadyIsReported: m_ready is set only between
\* the end of a registration and the next socket, so that nothing that reports
\* another state meets it.
ReportedInv ==
  /\ ~suspended /\ (ready => announced)
  /\ pc[Reg] # "off" => ~ready
  /\ mainPc \in {"gate", "open", "opening"} => ~ready

\* While nobody suspends the system every step keeps it.
LEMMA ReportedKept ==
  ASSUME "sleep" \notin Events, TypeOK, RegParked, ReportedInv, [Next]_vars
  PROVE  ReportedInv'
  <1>1. pc \in [Threads -> Pcs] /\ Reg \in Threads
    BY DEF TypeOK, Threads
  <1> USE DEF connVars, thrVars, netVars, MainUnchanged
  <1>2. ASSUME NEW c \in Clients, ClientStep(c) PROVE ReportedInv'
    <2>1. UNCHANGED <<suspended, ready, announced, mainPc>> /\ \E x : pc' = [pc EXCEPT ![c] = x]
      BY <1>2 DEF ClientStep, CallWaits, CallSends, GateTimesOut, CallAnswered,
                  CallTimesOut, CallReturns
    <2> QED BY <1>1, <2>1, ThreadsAssumption DEF ReportedInv
  <1>3. CASE RegStep
    <2>1. UNCHANGED <<suspended, mainPc>> /\ pc[Reg] # "off"
      BY <1>3 DEF RegStep, RegLocks, RegSends, RegSendFails, RegAnswered, RegTimesOut,
                  RegFails, RegDisconnects
    <2>2. mainPc \notin {"gate", "open", "opening"}
      BY <2>1 DEF RegParked
    <2>3. CASE UNCHANGED <<ready, announced>>
      BY <2>1, <2>2, <2>3 DEF ReportedInv
    <2>4. CASE \E good \in BOOLEAN : RegProceeds(good)
      <3>1. PICK good \in BOOLEAN : RegProceeds(good)
        BY <2>4
      <3>2. ready' = ready \/ (ready' /\ announced' /\ pc'[Reg] = "off")
        BY <1>1, <3>1 DEF RegProceeds, SetState, ReportedInv
      <3> QED BY <2>1, <2>2, <3>2 DEF ReportedInv
    <2>5. \/ UNCHANGED <<ready, announced>>
          \/ RegProceeds(FALSE) \/ RegProceeds(resp[Reg].res = "ok")
      BY <1>3 DEF RegStep, RegLocks, RegSends, RegSendFails, RegAnswered, RegTimesOut,
                  RegFails, RegDisconnects
    <2> QED BY <2>3, <2>4, <2>5
  <1>4. CASE MainStep
    <2>1. CASE NewSocket
      BY <2>1 DEF NewSocket, ReportedInv
    <2>2. CASE OpenSucceeds
      BY <1>1, <2>2 DEF OpenSucceeds, ReportedInv, ReadOrJoin
    <2>3. CASE OpenFails
      BY <2>3 DEF OpenFails, ReportedInv
    <2>4. CASE LeaveGate \/ OpenBegins \/ PeerAccepts
      BY <2>4 DEF LeaveGate, OpenBegins, PeerAccepts, ReportedInv
    <2>5. CASE ReadsResponse \/ ReadFails \/ Dispatch \/ Joins \/ Ends
      BY <2>5 DEF ReadsResponse, ReadFails, Dispatch, Joins, Ends, ReportedInv, ReadOrJoin
    <2> QED BY <1>4, <2>1, <2>2, <2>3, <2>4, <2>5 DEF MainStep
  <1>5. CASE EnvStep
    BY <1>5 DEF EnvStep, StopBegins, StopDisconnects, OnSleep, OnWake, Kick, PeerLeaves,
                CalmDown, ReportedInv
  <1>6. CASE UNCHANGED vars
    BY <1>6 DEF vars, ReportedInv
  <1> QED BY <1>2, <1>3, <1>4, <1>5, <1>6 DEF Next

\* Whoever finds m_ready set could also have been told so: as long as nobody
\* suspends the system, the last state of which Kodi was notified is CONNECTED.
THEOREM ReadyReported ==
  ASSUME "sleep" \notin Events
  PROVE  Spec => []ReadyIsReported
  <1>1. Init => ReportedInv
    BY DEF Init, ReportedInv, Threads
  <1>2. TypeOK /\ RegParked /\ ReportedInv /\ [Next]_vars => ReportedInv'
    BY ReportedKept
  <1>3. ReportedInv => ReadyIsReported
    BY DEF ReportedInv, ReadyIsReported
  <1> QED BY <1>1, <1>2, <1>3, TypeCorrect, OneRegistration, PTL DEF Spec

-----------------------------------------------------------------------------
(***************************************************************************)
(* The connection implements RequestService, for any number of callers and *)
(* whatever the environment does: every step changes the stages of calls   *)
(* as RequestService allows, or not at all.                                *)
(***************************************************************************)

\* Where a caller can be.
CallerPcs == \A c \in Clients : pc[c] \in {"idle", "gate", "wait", "ok", "null"}

\* Every sequence number is used for one request of a connection, and a request
\* is on the wire or its response is read, not both.
OneRequest ==
  /\ \A m, n \in wire : m.seq = n.seq => m = n
  /\ \A m \in wire : inmsg # Nothing => m.seq # inmsg.seq
  /\ \A t \in Threads : resp[t] # Nothing => \A m \in wire : ~(m.owner = t /\ m.seq = resp[t].seq)

-----------------------------------------------------------------------------
\* The stage of a call by where its thread is.
LEMMA StageOf ==
  \A c \in Clients :
    /\ pc[c] = "idle" => Stage(c) = "idle"
    /\ pc[c] = "gate" => Stage(c) = "queued"
    /\ pc[c] = "ok" => Stage(c) = "answered"
    /\ pc[c] = "null" => Stage(c) = "failed"
    /\ pc[c] = "wait" /\ Submitted(c) => Stage(c) = "submitted"
    /\ pc[c] = "wait" /\ ~Submitted(c) /\ Executed(c) => Stage(c) = "executed"
    /\ pc[c] = "wait" /\ ~Submitted(c) /\ ~Executed(c) => Stage(c) = "lost"
  BY DEF Stage

\* The same in the state after a step.
LEMMA StageOfNext ==
  \A c \in Clients :
    /\ pc'[c] = "idle" => Stage(c)' = "idle"
    /\ pc'[c] = "gate" => Stage(c)' = "queued"
    /\ pc'[c] = "ok" => Stage(c)' = "answered"
    /\ pc'[c] = "null" => Stage(c)' = "failed"
    /\ pc'[c] = "wait" /\ Submitted(c)' => Stage(c)' = "submitted"
    /\ pc'[c] = "wait" /\ ~Submitted(c)' /\ Executed(c)' => Stage(c)' = "executed"
    /\ pc'[c] = "wait" /\ ~Submitted(c)' /\ ~Executed(c)' => Stage(c)' = "lost"
  BY DEF Stage

\* What a step may do to the call of one thread.
May(c) == Stage(c)' # Stage(c) => <<Stage(c), Stage(c)'>> \in Service!Moves

\* A call that goes on waiting: its request is not written again, and a
\* response comes from the wire.
LEMMA WaitsOn ==
  ASSUME NEW c \in Clients, pc[c] = "wait", pc'[c] = "wait",
         Submitted(c)' => Submitted(c), Executed(c)' => Submitted(c) \/ Executed(c)
  PROVE  May(c)
  <1>1. CASE Submitted(c)
    BY <1>1, StageOf, StageOfNext DEF May, Service!Moves
  <1>2. CASE ~Submitted(c) /\ Executed(c)
    BY <1>2, StageOf, StageOfNext DEF May, Service!Moves
  <1>3. CASE ~Submitted(c) /\ ~Executed(c)
    BY <1>3, StageOf, StageOfNext DEF May, Service!Moves
  <1> QED BY <1>1, <1>2, <1>3

\* A step of another thread, or of the environment, that sends nothing for the
\* caller and hands nothing to it.
LEMMA Elsewhere ==
  ASSUME CallerPcs, NEW c \in Clients, pc'[c] = pc[c], seq'[c] = seq[c],
         \A m \in wire' : m \in wire \/ m.owner # c,
         inmsg' \in {inmsg, Nothing}, resp'[c] = resp[c],
         Found(c)' => Found(c)
  PROVE  May(c)
  <1>1. c # Reg
    BY ThreadsAssumption
  <1>2. CASE pc[c] = "wait"
    <2>1. Submitted(c)' => Submitted(c)
      BY DEF Submitted
    <2>2. Executed(c)' => Executed(c)
      BY <1>1 DEF Executed, Nothing
    <2> QED BY <1>2, <2>1, <2>2, WaitsOn
  <1>3. CASE pc[c] # "wait"
    BY <1>3, StageOf, StageOfNext DEF May, CallerPcs
  <1> QED BY <1>2, <1>3

\* A step that adds no entry to m_messages, no request and no response.
LEMMA ElsewhereNoEntry ==
  ASSUME CallerPcs, NEW c \in Clients, pc'[c] = pc[c], seq'[c] = seq[c],
         wire' \subseteq wire, inmsg' \in {inmsg, Nothing}, resp'[c] = resp[c],
         \A s \in DOMAIN messages' : s \in DOMAIN messages /\ messages'[s] = messages[s]
  PROVE  May(c)
  <1>1. Found(c)' => Found(c)
    BY DEF Found
  <1> QED BY <1>1, Elsewhere

\* Another thread sends a request.
LEMMA ElsewhereSend ==
  ASSUME IInv, CallerPcs, NEW c \in Clients, NEW t \in Threads, t # c, NEW kind, SendOk(t, kind),
         pc'[c] = pc[c], UNCHANGED <<inmsg, resp>>
  PROVE  May(c)
  <1>1. seq'[c] = seq[c] /\ messages' = With(messages, mseq + 1, t)
    BY DEF SendOk, IInv, TypeOK
  <1>2. Found(c)' => Found(c)
    BY <1>1 DEF Found, With
  <1>3. \A m \in wire' : m \in wire \/ m.owner # c
    BY DEF SendOk
  <1> QED BY <1>1, <1>2, <1>3, Elsewhere

-----------------------------------------------------------------------------
\* A step that writes no request and adds no response keeps OneRequest.
LEMMA OneKept ==
  ASSUME OneRequest, wire' \subseteq wire, inmsg' \in {inmsg, Nothing},
         \A t \in Threads : resp'[t] \in {resp[t], Nothing}
  PROVE  OneRequest'
  BY DEF OneRequest

\* A request that is written has a number of its own.
LEMMA OneSend ==
  ASSUME IInv, OneRequest, NEW t \in Threads, pc[t] # "wait", NEW kind, SendOk(t, kind),
         UNCHANGED <<inmsg, resp>>
  PROVE  OneRequest'
  <1> DEFINE new == [owner |-> t, seq |-> mseq + 1, kind |-> kind]
  <1>1. \A m \in wire' : m \in wire \/ m = new
    BY DEF SendOk
  <1>2. mseq \in Nat /\ \A m \in wire : m.seq \in Nat /\ m.seq <= mseq
    BY DEF IInv, TypeOK, WireOwners, OwnerKnown
  <1>3. inmsg # Nothing => inmsg.seq \in Nat /\ inmsg.seq <= mseq
    BY DEF IInv, TypeOK, InmsgOwner, OwnerKnown, Responses
  <1>4. resp[t] = Nothing
    BY DEF IInv, ResponseMatches
  <1>5. \A m, n \in wire' : m.seq = n.seq => m = n
    BY <1>1, <1>2 DEF OneRequest
  <1>6. \A m \in wire' : inmsg # Nothing => m.seq # inmsg.seq
    BY <1>1, <1>2, <1>3 DEF OneRequest
  <1>7. \A u \in Threads : resp[u] # Nothing => \A m \in wire' : ~(m.owner = u /\ m.seq = resp[u].seq)
    BY <1>1, <1>4 DEF OneRequest
  <1> QED BY <1>5, <1>6, <1>7 DEF OneRequest

\* What a step has to keep, and to do to the calls.
Good == OneRequest' /\ CallerPcs' /\ \A c \in Clients : May(c)

\* The steps of a caller.
LEMMA ClientGood ==
  ASSUME IInv, OneRequest, CallerPcs, NEW c \in Clients, ClientStep(c)
  PROVE  Good
  <1>1. /\ pc \in [Threads -> Pcs] /\ seq \in [Threads -> Nat] /\ mseq \in Nat
        /\ resp \in [Threads -> Responses \cup {Nothing}]
        /\ c \in Threads /\ c # Reg /\ Clients \subseteq Threads
    BY ThreadsAssumption DEF IInv, TypeOK, Threads
  <1> USE DEF connVars, netVars
  <1>2. /\ inmsg' = inmsg
        /\ \A d \in Clients \ {c} : pc'[d] = pc[d] /\ seq'[d] = seq[d] /\ resp'[d] = resp[d]
        /\ \A t \in Threads : resp'[t] \in {resp[t], Nothing}
    BY <1>1 DEF ClientStep, CallWaits, CallSends, GateTimesOut, CallAnswered, CallTimesOut,
                CallReturns, SendOk, SendFails, Forget
  <1>3. CallerPcs'
    <2>1. pc'[c] \in {"idle", "gate", "wait", "ok", "null"}
      BY <1>1 DEF ClientStep, CallWaits, CallSends, GateTimesOut, CallAnswered, CallTimesOut,
                  CallReturns
    <2> QED BY <1>2, <2>1 DEF CallerPcs
  <1>4. CASE \E kind \in {"gated", "direct"} :
               pc[c] \in {"idle", "gate"} /\ SendOk(c, kind) /\ pc'[c] = "wait" /\ UNCHANGED resp
    <2>1. PICK kind : pc[c] \in {"idle", "gate"} /\ SendOk(c, kind) /\ pc'[c] = "wait" /\ UNCHANGED resp
      BY <1>4
    <2>2. OneRequest'
      BY <1>1, <1>2, <2>1, OneSend
    <2>3. ASSUME NEW d \in Clients \ {c} PROVE May(d)
      BY <1>1, <1>2, <2>1, ElsewhereSend
    <2>4. May(c)
      <3>1. seq'[c] = mseq + 1 /\ resp'[c] = Nothing
        BY <1>1, <2>1 DEF SendOk, IInv, ResponseMatches
      <3>2. inmsg.owner # c \/ inmsg.seq # mseq + 1
        BY <1>1 DEF IInv, TypeOK, InmsgOwner, OwnerKnown, Nothing, Responses
      <3>3. ~Executed(c)'
        BY <1>2, <3>1, <3>2 DEF Executed
      <3> QED BY <2>1, <3>3, StageOf, StageOfNext DEF May, Service!Moves
    <2> QED BY <1>3, <2>2, <2>3, <2>4 DEF Good
  <1>5. CASE /\ wire' \subseteq wire
             /\ \A s \in DOMAIN messages' : s \in DOMAIN messages /\ messages'[s] = messages[s]
             /\ May(c)
    <2>1. OneRequest'
      BY <1>2, <1>5, OneKept
    <2>2. ASSUME NEW d \in Clients \ {c} PROVE May(d)
      BY <1>2, <1>5, ElsewhereNoEntry
    <2> QED BY <1>3, <1>5, <2>1, <2>2 DEF Good
  <1>6. CASE CallWaits(c) \/ GateTimesOut(c) \/ CallReturns(c)
    <2>1. May(c)
      BY <1>1, <1>6, StageOf, StageOfNext
      DEF CallWaits, GateTimesOut, CallReturns, May, Service!Moves
    <2> QED BY <1>5, <1>6, <2>1 DEF CallWaits, GateTimesOut, CallReturns
  <1>7. CASE CallSends(c)
    <2>1. PICK kind \in {"gated", "direct"} :
            \/ SendOk(c, kind) /\ pc' = [pc EXCEPT ![c] = "wait"]
            \/ SendFails /\ pc' = [pc EXCEPT ![c] = "null"]
      BY <1>7 DEF CallSends
    <2>2. pc[c] \in {"idle", "gate"} /\ UNCHANGED resp
      BY <1>7 DEF CallSends
    <2>3. CASE SendOk(c, kind) /\ pc' = [pc EXCEPT ![c] = "wait"]
      BY <1>1, <1>4, <2>2, <2>3
    <2>4. CASE SendFails /\ pc' = [pc EXCEPT ![c] = "null"]
      <3>1. May(c)
        BY <1>1, <2>2, <2>4, StageOf, StageOfNext DEF May, Service!Moves
      <3> QED BY <1>5, <2>4, <3>1, GiveUpLemma DEF SendFails
    <2> QED BY <2>1, <2>3, <2>4
  <1>8. CASE CallAnswered(c)
    <2>1. pc[c] = "wait" /\ resp[c] # Nothing /\ pc'[c] \in {"ok", "null"}
      BY <1>1, <1>8 DEF CallAnswered
    <2>2. ~Submitted(c) /\ Executed(c)
      BY <1>1, <2>1 DEF Submitted, Executed, OneRequest, IInv, ResponseMatches
    <2>3. May(c)
      BY <2>1, <2>2, StageOf, StageOfNext DEF May, Service!Moves
    <2>4. wire' = wire /\ messages' = Without(messages, seq[c])
      BY <1>8 DEF CallAnswered, Forget
    <2>5. \A s \in DOMAIN messages' : s \in DOMAIN messages /\ messages'[s] = messages[s]
      <3>1. /\ DOMAIN messages' = DOMAIN messages \ {seq[c]}
            /\ \A s \in DOMAIN messages' : messages'[s] = messages[s]
        BY <2>4, WithoutLemma
      <3> QED BY <3>1
    <2> QED BY <1>5, <2>3, <2>4, <2>5
  <1>9. CASE CallTimesOut(c)
    <2>1. pc[c] = "wait" /\ pc'[c] = "null"
      BY <1>1, <1>9 DEF CallTimesOut
    <2>2. May(c)
      BY <2>1, StageOf, StageOfNext DEF May, Service!Moves
    <2> QED BY <1>5, <1>9, <2>2, GiveUpLemma DEF CallTimesOut
  <1> QED BY <1>6, <1>7, <1>8, <1>9 DEF ClientStep

\* A step of the registration thread, the connection thread or the environment
\* that sends nothing and hands on no response.
LEMMA OthersGood ==
  ASSUME OneRequest, CallerPcs,
         \A c \in Clients : pc'[c] = pc[c] /\ seq'[c] = seq[c] /\ resp'[c] = resp[c],
         wire' \subseteq wire, inmsg' \in {inmsg, Nothing},
         \A t \in Threads : resp'[t] \in {resp[t], Nothing},
         \A s \in DOMAIN messages' : s \in DOMAIN messages /\ messages'[s] = messages[s]
  PROVE  Good
  <1>1. OneRequest'
    BY OneKept
  <1>2. CallerPcs'
    BY DEF CallerPcs
  <1>3. ASSUME NEW c \in Clients PROVE May(c)
    BY ElsewhereNoEntry
  <1> QED BY <1>1, <1>2, <1>3 DEF Good

\* The steps of the registration thread.
LEMMA RegGood ==
  ASSUME IInv, OneRequest, CallerPcs, RegStep
  PROVE  Good
  <1>1. /\ pc \in [Threads -> Pcs] /\ seq \in [Threads -> Nat] /\ mseq \in Nat
        /\ resp \in [Threads -> Responses \cup {Nothing}]
        /\ Reg \in Threads /\ Clients \subseteq Threads /\ Reg \notin Clients
    BY ThreadsAssumption DEF IInv, TypeOK, Threads
  <1> USE DEF connVars, netVars
  <1>2. /\ inmsg' = inmsg
        /\ \A c \in Clients : pc'[c] = pc[c] /\ seq'[c] = seq[c] /\ resp'[c] = resp[c]
        /\ \A t \in Threads : resp'[t] \in {resp[t], Nothing}
    <2>1. CASE RegLocks \/ RegFails \/ RegDisconnects
      BY <1>1, <2>1 DEF RegLocks, RegFails, RegDisconnects
    <2>2. CASE RegSends
      BY <1>1, <2>2 DEF RegSends, SendOk
    <2>3. CASE RegSendFails
      BY <1>1, <2>3 DEF RegSendFails, SendFails, RegProceeds
    <2>4. CASE RegAnswered
      BY <1>1, <2>4 DEF RegAnswered, Forget, RegProceeds
    <2>5. CASE RegTimesOut
      BY <1>1, <2>5 DEF RegTimesOut, RegProceeds
    <2> QED BY <2>1, <2>2, <2>3, <2>4, <2>5 DEF RegStep
  <1>3. CASE RegSends
    <2>1. pc[Reg] # "wait" /\ SendOk(Reg, RegRequest(regStep)) /\ UNCHANGED <<inmsg, resp>>
      BY <1>3 DEF RegSends
    <2>2. OneRequest'
      BY <1>1, <2>1, OneSend
    <2>3. CallerPcs'
      BY <1>2 DEF CallerPcs
    <2>4. ASSUME NEW c \in Clients PROVE May(c)
      BY <1>1, <1>2, <2>1, ElsewhereSend
    <2> QED BY <2>2, <2>3, <2>4 DEF Good
  <1>4. CASE /\ wire' \subseteq wire
             /\ \A s \in DOMAIN messages' : s \in DOMAIN messages /\ messages'[s] = messages[s]
    BY <1>2, <1>4, OthersGood
  <1>5. CASE RegLocks \/ RegFails
    BY <1>4, <1>5 DEF RegLocks, RegFails
  <1>6. CASE RegDisconnects
    BY <1>4, <1>6, DisconnectLemma DEF RegDisconnects
  <1>7. CASE RegSendFails
    BY <1>4, <1>7, GiveUpLemma DEF RegSendFails, SendFails
  <1>8. CASE RegAnswered
    <2>1. wire' = wire /\ messages' = Without(messages, seq[Reg])
      BY <1>8 DEF RegAnswered, Forget
    <2>2. \A s \in DOMAIN messages' : s \in DOMAIN messages /\ messages'[s] = messages[s]
      <3>1. /\ DOMAIN messages' = DOMAIN messages \ {seq[Reg]}
            /\ \A s \in DOMAIN messages' : messages'[s] = messages[s]
        BY <2>1, WithoutLemma
      <3> QED BY <3>1
    <2> QED BY <1>4, <2>1, <2>2
  <1>9. CASE RegTimesOut
    BY <1>4, <1>9, GiveUpLemma DEF RegTimesOut
  <1> QED BY <1>3, <1>5, <1>6, <1>7, <1>8, <1>9 DEF RegStep

\* The steps of the connection thread.
LEMMA MainGood ==
  ASSUME IInv, OneRequest, CallerPcs, MainStep
  PROVE  Good
  <1>1. /\ pc \in [Threads -> Pcs] /\ resp \in [Threads -> Responses \cup {Nothing}]
        /\ Clients \subseteq Threads /\ Reg \notin Clients /\ Reg \in Threads
    BY ThreadsAssumption DEF IInv, TypeOK, Threads
  <1> USE DEF connVars, thrVars, netVars, MainUnchanged
  <1>2. CASE NewSocket
    BY <1>2, OthersGood DEF NewSocket
  <1>3. CASE LeaveGate \/ OpenBegins \/ PeerAccepts \/ OpenFails \/ ReadFails \/ Joins \/ Ends
    <2>1. UNCHANGED <<pc, seq, resp, wire, inmsg, messages>>
      BY <1>3 DEF LeaveGate, OpenBegins, PeerAccepts, OpenFails, ReadFails, Joins, Ends
    <2> QED BY <2>1, OthersGood
  <1>4. CASE OpenSucceeds
    BY <1>1, <1>4, OthersGood DEF OpenSucceeds
  <1>5. CASE ReadsResponse
    <2>1. PICK m \in wire, res \in Outcomes :
            inmsg' = [owner |-> m.owner, seq |-> m.seq, res |-> res] /\ wire' = wire \ {m}
      BY <1>5 DEF ReadsResponse
    <2>2. UNCHANGED <<pc, seq, resp, messages>> /\ inmsg = Nothing
      BY <1>5 DEF ReadsResponse, IInv, InmsgOwner
    <2>3. OneRequest'
      BY <2>1, <2>2 DEF OneRequest
    <2>4. CallerPcs'
      BY <2>2 DEF CallerPcs
    <2>5. ASSUME NEW c \in Clients PROVE May(c)
      <3>1. CASE pc[c] = "wait"
        <4>1. Submitted(c)' => Submitted(c)
          BY <2>1, <2>2 DEF Submitted
        <4>2. Executed(c)' => Submitted(c) \/ Executed(c)
          BY <2>1, <2>2 DEF Executed, Submitted
        <4> QED BY <2>2, <3>1, <4>1, <4>2, WaitsOn
      <3>2. CASE pc[c] # "wait"
        BY <2>2, <3>2, StageOf, StageOfNext DEF May, CallerPcs
      <3> QED BY <3>1, <3>2
    <2> QED BY <2>3, <2>4, <2>5 DEF Good
  <1>6. CASE Dispatch
    <2>1. inmsg' = Nothing /\ inmsg # Nothing /\ UNCHANGED <<pc, seq, wire, messages>>
      BY <1>6 DEF Dispatch, IInv, InmsgOwner
    <2>2. ASSUME NEW t \in Threads, resp'[t] # resp[t]
          PROVE  resp'[t] = inmsg /\ inmsg.owner = t /\ inmsg.seq = seq[t] /\ Found(t)
      <3>1. inmsg.seq \in DOMAIN messages /\ messages[inmsg.seq] = t /\ resp'[t] = inmsg
        BY <1>1, <1>6, <2>2 DEF Dispatch
      <3>2. inmsg.owner = t /\ seq[t] = inmsg.seq
        BY <2>1, <3>1 DEF IInv, InmsgOwner, OwnerKnown, NoDanglingResponse
      <3> QED BY <3>1, <3>2 DEF Found
    <2>3. OneRequest'
      <3>1. \A t \in Threads : resp'[t] # Nothing => \A m \in wire : ~(m.owner = t /\ m.seq = resp'[t].seq)
        BY <2>1, <2>2 DEF OneRequest
      <3> QED BY <2>1, <3>1 DEF OneRequest
    <2>4. CallerPcs'
      BY <2>1 DEF CallerPcs
    <2>5. ASSUME NEW c \in Clients PROVE May(c)
      <3>1. CASE pc[c] = "wait"
        <4>1. Submitted(c)' => Submitted(c)
          BY <2>1 DEF Submitted
        <4>2. Executed(c)' => Executed(c)
          <5>1. CASE resp'[c] # resp[c]
            BY <1>1, <2>2, <5>1 DEF Executed
          <5>2. CASE resp'[c] = resp[c]
            BY <1>1, <2>1, <5>2 DEF Executed, Nothing
          <5> QED BY <5>1, <5>2
        <4> QED BY <2>1, <3>1, <4>1, <4>2, WaitsOn
      <3>2. CASE pc[c] # "wait"
        BY <2>1, <3>2, StageOf, StageOfNext DEF May, CallerPcs
      <3> QED BY <3>1, <3>2
    <2> QED BY <2>3, <2>4, <2>5 DEF Good
  <1> QED BY <1>2, <1>3, <1>4, <1>5, <1>6 DEF MainStep

\* The steps of the environment.
LEMMA EnvGood ==
  ASSUME OneRequest, CallerPcs, EnvStep
  PROVE  Good
  <1> USE DEF connVars, thrVars, netVars, MainUnchanged
  <1>1. CASE StopBegins \/ OnWake \/ CalmDown
    BY <1>1, OthersGood DEF StopBegins, OnWake, CalmDown
  <1>2. CASE StopDisconnects \/ OnSleep \/ Kick
    BY <1>2, DisconnectLemma, OthersGood DEF StopDisconnects, OnSleep, Kick
  <1>3. CASE PeerLeaves
    BY <1>3, OthersGood DEF PeerLeaves
  <1> QED BY <1>1, <1>2, <1>3 DEF EnvStep

\* SendAndWait and SendAndWait0 give their callers what RequestService promises:
\* an answer only to a request that the server has executed, at most once, and
\* none to a request that is lost, however connections come and go meanwhile.
THEOREM Implements == Spec => RefinesService
  <1>1. Init => Service!Init /\ OneRequest /\ CallerPcs
    <2> SUFFICES ASSUME Init PROVE Service!Init /\ OneRequest /\ CallerPcs
      OBVIOUS
    <2>1. \A c \in Clients : pc[c] = "idle"
      BY ThreadsAssumption DEF Init, Threads
    <2>2. wire = {} /\ \A t \in Threads : resp[t] = Nothing
      BY DEF Init
    <2>3. \A c \in Clients : Stage(c) = "idle"
      BY <2>1, StageOf
    <2> QED BY <2>1, <2>2, <2>3 DEF Service!Init, OneRequest, CallerPcs
  <1>2. IInv /\ OneRequest /\ CallerPcs /\ [Next]_vars => Good
    <2> SUFFICES ASSUME IInv, OneRequest, CallerPcs, [Next]_vars PROVE Good
      OBVIOUS
    <2>1. CASE UNCHANGED vars
      BY <2>1, OthersGood DEF vars, connVars, thrVars, netVars
    <2> QED BY <2>1, ClientGood, RegGood, MainGood, EnvGood DEF Next
  <1>3. CallerPcs' /\ Good => Service!Next
    <2> SUFFICES ASSUME CallerPcs', Good PROVE Service!Next
      OBVIOUS
    <2>1. \A c \in Clients : Stage(c)' \in Service!Stages
      BY StageOfNext DEF CallerPcs, Service!Stages
    <2>2. \A c \in Clients : May(c)
      BY DEF Good
    <2> QED BY <2>1, <2>2 DEF Service!Next, May
  <1> QED BY <1>1, <1>2, <1>3, Inductive, PTL DEF Spec, RefinesService, Service!Spec, Good
=============================================================================
