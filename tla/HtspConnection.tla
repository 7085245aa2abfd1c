--------------------------- MODULE HtspConnection ---------------------------
(***************************************************************************)
(* The HTSP connection of pvr.hts (HTSPConnection.cpp, TCPSocket.cpp).     *)
(*                                                                         *)
(* Three kinds of threads share the state that m_mutex protects:           *)
(*   - the connection thread (Process, ReadMessage): creates and opens the *)
(*     socket, starts the registration thread, dispatches what it reads;   *)
(*   - the registration thread Reg (Register): hello, authenticate and the *)
(*     requests of CTvheadend::Connected, one after the other;             *)
(*   - the callers, Clients: any thread inside SendAndWait (which waits    *)
(*     for m_ready first) or SendAndWait0 (which does not).                *)
(* m_mutex is released only inside the two condition waits, so whatever a  *)
(* thread does between two waits is one step; the registration thread,     *)
(* which holds it from one response to the next request, is at "send" then *)
(* and no other thread's locked step is enabled (LockFree).                *)
(*                                                                         *)
(* A request is a member of the set wire from the moment it is written to  *)
(* an open socket until the connection thread reads its response: the      *)
(* network and the server are in between, and may answer in any order.     *)
(***************************************************************************)
EXTENDS Naturals, Functions, Sequences

CONSTANTS
  Clients,    (* threads that call SendAndWait or SendAndWait0             *)
  Reg,        (* the registration thread                                   *)
  Queries,    (* how many queries Connected makes before it asks for the   *)
              (* asynchronous data: getProfiles and getDvrConfigs, so 2    *)
  MaxSeq,     (* bound: no call starts once m_seq has reached it           *)
  Events      (* what the environment does, a subset of EventKinds         *)

EventKinds == {"loss",       \* the peer closes the connection between packets
               "torn",       \* the peer closes it in the middle of a packet
               "unreachable",\* an attempt to connect fails
               "error",      \* the server answers a request with an error
               "sleep",      \* the system is suspended and woken up
               "stop",       \* the addon is stopped
               "kick",       \* another component calls Disconnect
               "calm"}       \* all of this comes to an end

ASSUME ThreadsAssumption == Reg \notin Clients
ASSUME BoundsAssumption == Queries \in Nat /\ MaxSeq \in Nat /\ Events \subseteq EventKinds

VARIABLES
  sock,       (* m_socket, and the TCP connection below it                 *)
  messages,   (* m_messages: sequence number -> waiting thread             *)
  mseq,       (* m_seq                                                     *)
  ready,      (* m_ready                                                   *)
  suspended,  (* m_suspended                                               *)
  stopping,   (* m_stopProcessing                                          *)
  announced,  (* m_state is CONNECTED: the one state of m_state, of which  *)
              (* Kodi is notified, that the properties tell apart          *)
  mainPc,     (* where the connection thread is                            *)
  inmsg,      (* the response ReadMessage has read and not yet dispatched  *)
  pc,         (* where every other thread is                               *)
  seq,        (* the local seq of a thread's SendAndWait0                  *)
  resp,       (* the HTSPResponse on a thread's stack                      *)
  regStep,    (* which request of Register is being sent                   *)
  wire,       (* requests written to the open connection, not yet answered *)
  served,     (* registration requests the server has granted on it        *)
  stopPc,     (* where the thread that stops the addon is                  *)
  calm        (* the environment has stopped interfering, for good         *)

connVars == <<sock, messages, mseq, ready, suspended, stopping, announced>>
thrVars  == <<pc, seq, resp, regStep>>
netVars  == <<wire, served>>
vars == <<connVars, mainPc, inmsg, thrVars, netVars, stopPc, calm>>

Threads == Clients \cup {Reg}

\* The requests of Register and of Connected, in order.
RegLast == Queries + 3
RegRequest(n) == CASE n = 1 -> "hello"
                   [] n = 2 -> "authenticate"
                   [] n = RegLast -> "enableAsyncMetadata"
                   [] OTHER -> "query"
\* m_messages with no entry.
NoMessages == [s \in {} |-> Reg]

\* What the server must have granted before it serves the requests of callers.
Required == {"hello", "authenticate", "enableAsyncMetadata"}
Kinds == Required \cup {"query", "gated", "direct"}

\* A response is good, or the waiter treats it as none: "error", "noaccess" or,
\* in answer to hello, an HTSP version below HTSP_MIN_SERVER_VERSION.
Outcomes == {"ok", "error"}
Nothing == [owner |-> Reg, seq |-> 0, res |-> "none"]
Responses == [owner : Threads, seq : Nat, res : Outcomes]

SockStates == {"none", "new", "opening", "open", "lost", "torn", "closed"}
MainPcs == {"top", "gate", "open", "opening", "read",
            "dispatch", "join", "done"}
Pcs == {"off", "start", "send", "fail", "sleep",      \* Reg
        "idle", "gate", "ok", "null",                 \* Clients
        "wait"}                                       \* both: in HTSPResponse::Get

TypeOK ==
  /\ sock \in SockStates
  /\ DOMAIN messages \subseteq Nat
  /\ \A s \in DOMAIN messages : messages[s] \in Threads
  /\ mseq \in Nat
  /\ ready \in BOOLEAN /\ suspended \in BOOLEAN /\ stopping \in BOOLEAN
  /\ announced \in BOOLEAN
  /\ mainPc \in MainPcs
  /\ inmsg \in Responses \cup {Nothing}
  /\ pc \in [Threads -> Pcs]
  /\ seq \in [Threads -> Nat]
  /\ resp \in [Threads -> Responses \cup {Nothing}]
  /\ regStep \in 1..RegLast
  /\ wire \subseteq [owner : Threads, seq : Nat, kind : Kinds]
  /\ served \subseteq Required
  /\ stopPc \in {"run", "disconnect", "done"}
  /\ calm \in BOOLEAN

(***************************************************************************)
(* After Start(): the state CONNECTING has been announced, the connection  *)
(* thread is about to run and there is no socket yet.                      *)
(***************************************************************************)
Init ==
  /\ sock = "none" /\ messages = NoMessages /\ mseq = 0
  /\ ready = FALSE /\ suspended = FALSE /\ stopping = FALSE
  /\ announced = FALSE
  /\ mainPc = "top" /\ inmsg = Nothing
  /\ pc = [t \in Threads |-> IF t = Reg THEN "off" ELSE "idle"]
  /\ seq = [t \in Threads |-> 0]
  /\ resp = [t \in Threads |-> Nothing]
  /\ regStep = 1
  /\ wire = {} /\ served = {}
  /\ stopPc = "run" /\ calm = FALSE

-----------------------------------------------------------------------------
(***************************************************************************)
(* Building blocks.                                                        *)
(***************************************************************************)
LockFree == pc[Reg] # "send"

Without(map, s) == Restrict(map, DOMAIN map \ {s})
With(map, s, t) == [x \in DOMAIN map \cup {s} |-> IF x = s THEN t ELSE map[x]]

\* SetState: nothing changes, and nothing is announced, while suspended.
SetState(connected) == announced' = IF suspended THEN announced ELSE connected

\* Disconnect: the socket, if there is one behind m_socket, is closed and
\* forgotten, and every entry of m_messages is dropped.
ClosedSock == IF sock \in {"none", "new"} THEN sock ELSE "closed"
Disconnect == /\ sock' = ClosedSock
              /\ messages' = NoMessages
              /\ wire' = {}

\* What SendMessage0 and SendAndWait0 do when the write fails or no response
\* arrives: forget the request, and close the connection unless suspended.
GiveUp(s) ==
  IF suspended
  THEN /\ messages' = Without(messages, s)
       /\ UNCHANGED <<sock, wire>>
  ELSE Disconnect

\* (Mutant of Forget: the entry is not erased once the response is there.)
ForgetLeavesEntry(t) == /\ UNCHANGED messages
                        /\ resp' = [resp EXCEPT ![t] = Nothing]
                        /\ seq' = [seq EXCEPT ![t] = 0]

\* Get returns the response and SendAndWait0 forgets the request.
Forget(t) == /\ messages' = Without(messages, seq[t])
             /\ resp' = [resp EXCEPT ![t] = Nothing]
             /\ seq' = [seq EXCEPT ![t] = 0]

\* (Mutant of SendOk: m_seq is not advanced.)
SendOkSameSeq(t, kind) ==
  /\ sock \in {"open", "lost", "torn"}
  /\ seq' = [seq EXCEPT ![t] = mseq + 1]
  /\ messages' = With(messages, mseq + 1, t)
  /\ wire' = IF sock = "open"
             THEN wire \cup {[owner |-> t, seq |-> mseq + 1, kind |-> kind]}
             ELSE wire
  /\ UNCHANGED <<sock, mseq>>

\* SendAndWait0 up to its wait: a new sequence number, an entry in m_messages
\* and the write. A write to a connection the peer has left may still succeed.
SendOk(t, kind) ==
  /\ sock \in {"open", "lost", "torn"}
  /\ mseq' = mseq + 1
  /\ seq' = [seq EXCEPT ![t] = mseq + 1]
  /\ messages' = With(messages, mseq + 1, t)
  /\ wire' = IF sock = "open"
             THEN wire \cup {[owner |-> t, seq |-> mseq + 1, kind |-> kind]}
             ELSE wire
  /\ UNCHANGED sock

SendFails ==
  /\ sock \notin {"none", "open"}
  /\ mseq' = mseq + 1
  /\ GiveUp(mseq + 1)
  /\ UNCHANGED seq

\* A thread in HTSPResponse::Get can still be answered: its request is under
\* way, m_messages still leads to it and the connection thread still reads.
Answerable(t) ==
  /\ mainPc \in {"read", "dispatch"} /\ ~stopping
  /\ seq[t] \in DOMAIN messages /\ messages[seq[t]] = t
  /\ \/ \E m \in wire : m.owner = t /\ m.seq = seq[t]
     \/ inmsg # Nothing /\ inmsg.owner = t /\ inmsg.seq = seq[t]

\* (Mutant of TimesOut: wait instead of wait_for.)
NeverTimesOut(t) == FALSE

\* Get returns without a response. It may at any time; once the environment
\* is calm, only when no response can come any more.
TimesOut(t) == /\ resp[t] = Nothing
               /\ calm => ~Answerable(t)

-----------------------------------------------------------------------------
(***************************************************************************)
(* The callers: SendAndWait and SendAndWait0.                              *)
(***************************************************************************)

\* SendAndWait while m_ready is false: wait on m_regCond.
CallWaits(c) ==
  /\ LockFree /\ ~calm /\ pc[c] = "idle" /\ mseq < MaxSeq
  /\ ~ready
  /\ pc' = [pc EXCEPT ![c] = "gate"]
  /\ UNCHANGED <<connVars, mainPc, inmsg, seq, resp, regStep, netVars, stopPc, calm>>

\* The call sends its request: SendAndWait at once or after its wait, or
\* SendAndWait0, which does not look at m_ready (it needs an m_socket).
CallSends(c) ==
  /\ LockFree
  /\ \E kind \in {"gated", "direct"} :
       /\ \/ /\ pc[c] = "idle" /\ ~calm /\ mseq < MaxSeq
             /\ kind = "gated" => ready
          \/ pc[c] = "gate" /\ ready /\ kind = "gated"
       /\ \/ SendOk(c, kind) /\ pc' = [pc EXCEPT ![c] = "wait"]
          \/ SendFails /\ pc' = [pc EXCEPT ![c] = "null"]
  /\ UNCHANGED <<ready, suspended, stopping, announced, mainPc, inmsg, resp, regStep,
                 served, stopPc, calm>>

\* WaitForConnection times out and m_ready is still false.
GateTimesOut(c) ==
  /\ LockFree /\ pc[c] = "gate" /\ ~ready
  /\ pc' = [pc EXCEPT ![c] = "null"]
  /\ UNCHANGED <<connVars, mainPc, inmsg, seq, resp, regStep, netVars, stopPc, calm>>

\* Get returns a response; SendAndWait0 hands it on unless it is an error.
CallAnswered(c) ==
  /\ LockFree /\ pc[c] = "wait" /\ resp[c] # Nothing
  /\ Forget(c)
  /\ pc' = [pc EXCEPT ![c] = IF resp[c].res = "ok" THEN "ok" ELSE "null"]
  /\ UNCHANGED <<sock, mseq, ready, suspended, stopping, announced, mainPc, inmsg,
                 regStep, netVars, stopPc, calm>>

\* (Mutant of CallTimesOut: the missing response is not noticed.)
CallTimesOutUnnoticed(c) ==
  /\ LockFree /\ pc[c] = "wait" /\ TimesOut(c)
  /\ GiveUp(seq[c]) /\ seq' = [seq EXCEPT ![c] = 0]
  /\ pc' = [pc EXCEPT ![c] = "ok"]
  /\ UNCHANGED <<mseq, ready, suspended, stopping, announced, mainPc, inmsg, resp,
                 regStep, served, stopPc, calm>>

CallTimesOut(c) ==
  /\ LockFree /\ pc[c] = "wait" /\ TimesOut(c)
  /\ GiveUp(seq[c]) /\ seq' = [seq EXCEPT ![c] = 0]
  /\ pc' = [pc EXCEPT ![c] = "null"]
  /\ UNCHANGED <<mseq, ready, suspended, stopping, announced, mainPc, inmsg, resp,
                 regStep, served, stopPc, calm>>

CallReturns(c) ==
  /\ pc[c] \in {"ok", "null"}
  /\ pc' = [pc EXCEPT ![c] = "idle"]
  /\ UNCHANGED <<connVars, mainPc, inmsg, seq, resp, regStep, netVars, stopPc, calm>>

-----------------------------------------------------------------------------
(***************************************************************************)
(* The registration thread: Register, with SendHello, SendAuth and         *)
(* CTvheadend::Connected.                                                  *)
(***************************************************************************)
RegLocks ==
  /\ pc[Reg] = "start"
  /\ pc' = [pc EXCEPT ![Reg] = "send"]
  /\ UNCHANGED <<connVars, mainPc, inmsg, seq, resp, regStep, netVars, stopPc, calm>>

RegSends ==
  /\ pc[Reg] = "send"
  /\ SendOk(Reg, RegRequest(regStep))
  /\ pc' = [pc EXCEPT ![Reg] = "wait"]
  /\ UNCHANGED <<ready, suspended, stopping, announced, mainPc, inmsg, resp, regStep,
                 served, stopPc, calm>>

\* (Mutant of RegProceeds: a failed last request is passed over like a query.)
RegProceedsPastLast(good) ==
  \/ /\ good /\ regStep = RegLast
     /\ SetState(TRUE) /\ ready' = TRUE
     /\ pc' = [pc EXCEPT ![Reg] = "off"] /\ regStep' = 1
  \/ /\ good \/ regStep > 2
     /\ pc' = [pc EXCEPT ![Reg] = "send"] /\ regStep' = regStep + 1
     /\ UNCHANGED <<ready, announced>>

\* What Register does with the outcome of its current request: without a hello
\* of a recent enough server or without authenticate it announces the failure
\* and fails; the queries may fail; enableAsyncMetadata decides.
RegProceeds(good) ==
  \/ /\ ~good /\ regStep \in {1, 2, RegLast}
     /\ IF regStep = RegLast THEN UNCHANGED announced ELSE SetState(FALSE)
     /\ pc' = [pc EXCEPT ![Reg] = "fail"] /\ regStep' = 1
     /\ UNCHANGED ready
  \/ /\ good /\ regStep = RegLast
     /\ SetState(TRUE) /\ ready' = TRUE
     /\ pc' = [pc EXCEPT ![Reg] = "off"] /\ regStep' = 1
  \/ /\ regStep # RegLast /\ (good \/ regStep > 2)
     /\ pc' = [pc EXCEPT ![Reg] = "send"] /\ regStep' = regStep + 1
     /\ UNCHANGED <<ready, announced>>

RegSendFails ==
  /\ pc[Reg] = "send"
  /\ SendFails
  /\ RegProceeds(FALSE)
  /\ UNCHANGED <<suspended, stopping, mainPc, inmsg, resp, served, stopPc, calm>>

RegAnswered ==
  /\ pc[Reg] = "wait" /\ resp[Reg] # Nothing
  /\ Forget(Reg)
  /\ RegProceeds(resp[Reg].res = "ok")
  /\ UNCHANGED <<sock, mseq, suspended, stopping, mainPc, inmsg, netVars, stopPc, calm>>

RegTimesOut ==
  /\ pc[Reg] = "wait" /\ TimesOut(Reg)
  /\ GiveUp(seq[Reg]) /\ seq' = [seq EXCEPT ![Reg] = 0]
  /\ RegProceeds(FALSE)
  /\ UNCHANGED <<mseq, suspended, stopping, mainPc, inmsg, resp, served, stopPc, calm>>

\* The fail label, m_mutex released: nothing more while suspended, otherwise a
\* pause (SLOW_RECONNECT_INTERVAL) and then Disconnect.
RegFails ==
  /\ pc[Reg] = "fail"
  /\ pc' = [pc EXCEPT ![Reg] = IF suspended THEN "off" ELSE "sleep"]
  /\ UNCHANGED <<connVars, mainPc, inmsg, seq, resp, regStep, netVars, stopPc, calm>>

\* (Mutant of RegDisconnects: a failed registration leaves the connection open.)
RegJustEnds ==
  /\ pc[Reg] = "sleep"
  /\ pc' = [pc EXCEPT ![Reg] = "off"]
  /\ UNCHANGED <<connVars, mainPc, inmsg, seq, resp, regStep, netVars, stopPc, calm>>

RegDisconnects ==
  /\ pc[Reg] = "sleep"
  /\ Disconnect
  /\ pc' = [pc EXCEPT ![Reg] = "off"]
  /\ UNCHANGED <<mseq, ready, suspended, stopping, announced, mainPc, inmsg, seq, resp,
                 regStep, served, stopPc, calm>>

-----------------------------------------------------------------------------
(***************************************************************************)
(* The connection thread: Process and ReadMessage.                         *)
(***************************************************************************)
MainUnchanged == UNCHANGED <<suspended, stopping, thrVars, stopPc, calm>>

\* The test of the receive loop, made at the end of the step before.
ReadOrJoin == IF stopping THEN "join" ELSE "read"

\* (Mutant of NewSocket: m_ready survives the connection.)
NewSocketStillReady ==
  /\ LockFree /\ mainPc = "top" /\ ~stopping
  /\ sock' = "new" /\ mseq' = 0
  /\ wire' = {} /\ served' = {}
  /\ mainPc' = "gate"
  /\ UNCHANGED <<messages, ready, announced, inmsg>> /\ MainUnchanged

\* while (!ShouldStopProcessing()): a new, unopened socket and fresh per
\* connection state. m_messages is left as it is.
NewSocket ==
  /\ LockFree /\ mainPc = "top" /\ ~stopping
  /\ sock' = "new" /\ ready' = FALSE /\ mseq' = 0
  /\ wire' = {} /\ served' = {}
  /\ mainPc' = "gate"
  /\ UNCHANGED <<messages, announced, inmsg>> /\ MainUnchanged

\* The wait for wakeup, and the check behind it.
LeaveGate ==
  /\ mainPc = "gate" /\ (~suspended \/ stopping)
  /\ mainPc' = IF stopping THEN "done" ELSE "open"
  /\ UNCHANGED <<sock, messages, mseq, ready, announced, inmsg, netVars>> /\ MainUnchanged

\* TCPSocket::Open: GetSocket(true), then connect.
OpenBegins ==
  /\ mainPc = "open"
  /\ sock' = "opening" /\ mainPc' = "opening"
  /\ UNCHANGED <<messages, mseq, ready, announced, inmsg, netVars>> /\ MainUnchanged

\* The server accepts the connection, which connect may not have noticed yet.
PeerAccepts ==
  /\ mainPc = "opening" /\ sock = "opening"
  /\ sock' = "open"
  /\ UNCHANGED <<messages, mseq, ready, announced, mainPc, inmsg, netVars>> /\ MainUnchanged

\* connect succeeds; the registration thread is created and the receive loop
\* entered. If Disconnect has closed the socket under connect, Open may return
\* either way.
OpenSucceeds ==
  /\ mainPc = "opening" /\ sock # "opening"
  /\ pc' = [pc EXCEPT ![Reg] = "start"]
  /\ mainPc' = ReadOrJoin
  /\ UNCHANGED <<connVars, inmsg, seq, resp, regStep, netVars, stopPc, calm>>

\* Open fails: the state is set, and after a pause the outer loop starts over.
OpenFails ==
  /\ LockFree /\ mainPc = "opening"
  /\ \/ sock = "closed"
     \/ sock = "opening" /\ "unreachable" \in Events /\ ~calm
  /\ sock' = "closed" /\ SetState(FALSE)
  /\ mainPc' = "top"
  /\ UNCHANGED <<messages, mseq, ready, inmsg, netVars>> /\ MainUnchanged

\* ReadMessage: a packet arrives, the response to any of the requests on the
\* wire. (A packet without a known seq goes to the listener and changes nothing
\* here.) The socket is read without m_mutex.
ReadsResponse ==
  /\ mainPc = "read" /\ sock = "open"
  /\ \E m \in wire, res \in Outcomes :
       /\ res = "error" => "error" \in Events /\ ~calm
       /\ inmsg' = [owner |-> m.owner, seq |-> m.seq, res |-> res]
       /\ wire' = wire \ {m}
       /\ served' = IF res = "ok" /\ m.kind \in Required THEN served \cup {m.kind} ELSE served
  /\ mainPc' = "dispatch"
  /\ UNCHANGED <<sock, messages, mseq, ready, announced>> /\ MainUnchanged

\* ReadMessage returns false: the socket was closed, here or by the peer
\* between packets. Inside a packet (sock = "torn") TCPSocket::Read returns 0,
\* not -1, and the loop over the packet goes on.
ReadFails ==
  /\ mainPc = "read" /\ sock \in {"lost", "closed"}
  /\ mainPc' = "join"
  /\ UNCHANGED <<sock, messages, mseq, ready, announced, inmsg, netVars>> /\ MainUnchanged

\* ReadMessage under m_mutex: the response is set if m_messages still has its
\* seq (it stays there until the waiter runs), otherwise it is dropped.
Dispatch ==
  /\ LockFree /\ mainPc = "dispatch"
  /\ resp' = IF inmsg.seq \in DOMAIN messages
             THEN [resp EXCEPT ![messages[inmsg.seq]] = inmsg]
             ELSE resp
  /\ inmsg' = Nothing
  /\ mainPc' = ReadOrJoin
  /\ UNCHANGED <<connVars, pc, seq, regStep, netVars, stopPc, calm>>

\* m_regThread->StopThread() joins; then the outer loop tests for stop.
Joins ==
  /\ mainPc = "join" /\ pc[Reg] = "off"
  /\ mainPc' = "top"
  /\ UNCHANGED <<sock, messages, mseq, ready, announced, inmsg, netVars>> /\ MainUnchanged

Ends ==
  /\ mainPc = "top" /\ stopping
  /\ mainPc' = "done"
  /\ UNCHANGED <<sock, messages, mseq, ready, announced, inmsg, netVars>> /\ MainUnchanged

-----------------------------------------------------------------------------
(***************************************************************************)
(* Stop, suspend and the environment.                                      *)
(***************************************************************************)

\* Stop: the flag first, without m_mutex, then Disconnect.
StopBegins ==
  /\ "stop" \in Events /\ stopPc = "run"
  /\ stopping' = TRUE /\ stopPc' = "disconnect"
  /\ UNCHANGED <<sock, messages, mseq, ready, suspended, announced, mainPc, inmsg, thrVars,
                 netVars, calm>>

\* (Mutant of StopDisconnects: the flag alone.)
StopForgetsToDisconnect ==
  /\ stopPc = "disconnect" /\ stopPc' = "done"
  /\ UNCHANGED <<connVars, mainPc, inmsg, thrVars, netVars, calm>>

StopDisconnects ==
  /\ LockFree /\ stopPc = "disconnect"
  /\ Disconnect /\ stopPc' = "done"
  /\ UNCHANGED <<mseq, ready, suspended, stopping, announced, mainPc, inmsg, thrVars, served,
                 calm>>

OnSleep ==
  /\ "sleep" \in Events /\ LockFree /\ ~calm /\ ~suspended
  /\ Disconnect /\ suspended' = TRUE
  /\ UNCHANGED <<mseq, ready, stopping, announced, mainPc, inmsg, thrVars, served, stopPc, calm>>

OnWake ==
  /\ LockFree /\ suspended
  /\ suspended' = FALSE
  /\ UNCHANGED <<sock, messages, mseq, ready, stopping, announced, mainPc, inmsg, thrVars,
                 netVars, stopPc, calm>>

\* The demuxer closes a connection it believes dead (HTSPDemuxer::Read).
Kick ==
  /\ "kick" \in Events /\ LockFree /\ ~calm /\ sock \in {"opening", "open", "lost", "torn"}
  /\ Disconnect
  /\ UNCHANGED <<mseq, ready, suspended, stopping, announced, mainPc, inmsg, thrVars, served,
                 stopPc, calm>>

\* The peer goes away, between two packets or in the middle of one. Requests
\* under way are lost (a response already received counts as read before).
PeerLeaves ==
  /\ ~calm /\ sock = "open"
  /\ \/ "loss" \in Events /\ sock' = "lost"
     \/ "torn" \in Events /\ wire # {} /\ sock' = "torn"
  /\ wire' = {}
  /\ UNCHANGED <<messages, mseq, ready, announced, mainPc, inmsg, served>> /\ MainUnchanged

\* From here on the server is reachable and answers in time, nobody suspends
\* the system and no new call starts.
CalmDown ==
  /\ "calm" \in Events /\ ~calm /\ ~suspended
  /\ calm' = TRUE
  /\ UNCHANGED <<connVars, mainPc, inmsg, thrVars, netVars, stopPc>>

-----------------------------------------------------------------------------
ClientStep(c) == \/ CallWaits(c) \/ CallSends(c) \/ GateTimesOut(c)
                 \/ CallAnswered(c) \/ CallTimesOut(c) \/ CallReturns(c)

RegStep == \/ RegLocks \/ RegSends \/ RegSendFails \/ RegAnswered \/ RegTimesOut
           \/ RegFails \/ RegDisconnects

MainStep == \/ NewSocket \/ LeaveGate \/ OpenBegins \/ PeerAccepts \/ OpenSucceeds
            \/ OpenFails \/ ReadsResponse \/ ReadFails \/ Dispatch
            \/ Joins \/ Ends

EnvStep == \/ StopBegins \/ StopDisconnects \/ OnSleep \/ OnWake \/ Kick
           \/ PeerLeaves \/ CalmDown

Next == (\E c \in Clients : ClientStep(c)) \/ RegStep \/ MainStep \/ EnvStep

Spec == Init /\ [][Next]_vars

\* A call that has begun goes on: it is answered, it times out, it returns.
CallProceeds(c) == \/ pc[c] = "gate" /\ CallSends(c)
                   \/ GateTimesOut(c) \/ CallAnswered(c) \/ CallTimesOut(c)
                   \/ CallReturns(c)

\* Every thread the addon runs is scheduled, its timed waits end, and the stop
\* that has begun goes on. Nothing is assumed of the peer except, once calm,
\* that it answers; suspending, waking and stopping are up to the user.
Fairness == /\ WF_vars(RegStep)
            /\ WF_vars(MainStep)
            /\ SF_vars(StopDisconnects)
            /\ \A c \in Clients : SF_vars(CallProceeds(c))

FairSpec == Spec /\ Fairness

-----------------------------------------------------------------------------
(***************************************************************************)
(* Properties.                                                             *)
(***************************************************************************)

\* m_messages holds pointers to HTSPResponse objects on the stacks of the
\* threads inside SendAndWait0. No entry outlives the call that made it: the
\* thread it leads to is in Get, waiting for that very sequence number.
NoDanglingResponse ==
  \A s \in DOMAIN messages : pc[messages[s]] = "wait" /\ seq[messages[s]] = s

\* Whatever happened to the connection meanwhile, a thread in Get is only ever
\* handed the response to the request it is waiting for.
ResponseMatches ==
  \A t \in Threads :
    resp[t] # Nothing => /\ pc[t] = "wait"
                         /\ resp[t].owner = t /\ resp[t].seq = seq[t]

\* SendAndWait's wait for m_ready keeps every such request behind the
\* registration of the connection it is written to: the server has granted
\* hello, authenticate and enableAsyncMetadata on it.
NoRequestBeforeRegistration ==
  \A m \in wire :
    m.kind = "gated" => Required \subseteq served

\* As long as nobody suspends the system, whoever finds m_ready set could also
\* have been told so: Kodi has been notified of CONNECTED and of nothing since.
ReadyIsReported == ready => announced

\* Every call of SendAndWait and SendAndWait0 returns to its caller.
CallsReturn == \A c \in Clients : pc[c] \in {"gate", "wait"} ~> pc[c] \in {"ok", "null"}

\* Once Stop has been called the connection thread ends, wherever it was.
StopEnds == stopping ~> mainPc = "done"

\* Once the peer behaves, and after any sequence of losses, refused
\* connections, errors and time-outs, the connection is ready and stays so.
Recovers == calm ~> [](stopping \/ (ready /\ sock = "open"))

-----------------------------------------------------------------------------
\* The connection as its callers see it: whether the request of a call is on
\* the wire, whether its response is there or will be handed on, and its stage.
Submitted(c) == \E m \in wire : m.owner = c /\ m.seq = seq[c]
Found(c) == seq[c] \in DOMAIN messages /\ messages[seq[c]] = c
Executed(c) == resp[c] # Nothing \/ (inmsg.owner = c /\ inmsg.seq = seq[c] /\ Found(c))
Stage(c) ==
  CASE pc[c] = "idle" -> "idle"
    [] pc[c] = "gate" -> "queued"
    [] pc[c] = "ok" -> "answered"
    [] pc[c] = "null" -> "failed"
    [] pc[c] = "wait" -> IF Submitted(c) THEN "submitted" ELSE IF Executed(c) THEN "executed" ELSE "lost"

Service == INSTANCE RequestService WITH Callers <- Clients,
                                        stage <- [c \in Clients |-> Stage(c)]

\* The connection implements the request service: a call is answered only after
\* the server executed it, executes at most once, and once lost only fails.
RefinesService == Service!Spec
=============================================================================
