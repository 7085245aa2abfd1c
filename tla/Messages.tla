------------------------------ MODULE Messages ------------------------------
(***************************************************************************)
(* The way of a message from the server to the thread that uses it:        *)
(* HTSPConnection::ReadMessage, HTSPResponse, CTvheadend::ProcessMessage   *)
(* and Process, HTSPDemuxer::ParseMuxPacket, Read and Flush, with          *)
(* HTSPMessage.h and both SyncedBuffers.                                   *)
(*                                                                         *)
(* The connection thread reads bytes, makes an htsmsg_t of them (here an   *)
(* address in heap) and hands it to the thread that waits for a response,  *)
(* to the demuxer, which copies a packet out of it, or to m_queue, for the *)
(* Process thread. The buffer that this module extends is m_pktBuffer;     *)
(* m_queue is Q. Both were made with the largest size there is.            *)
(*                                                                         *)
(* What the requests, the demuxer and the Process thread do with messages  *)
(* is the matter of other modules; one request waits at a time here.       *)
(***************************************************************************)
EXTENDS HtsMsg, SyncedBuffer

CONSTANTS
  Encode(_),    (* the bytes of a message, and                             *)
  Decode(_),    (* the message they are read back as: HtsMsgBinary         *)
  Samples,      (* what the server sends of its own accord: messages       *)
  MaxSent,      (* bound: how many of them it sends                        *)
  MaxRequests,  (* bound: requests                                         *)
  MaxLosses     (* bound: how often the connection breaks                  *)

\* Neither buffer can be filled.
ASSUME MessagesAssumption ==
  /\ MaxSent \in 0..MaxSize /\ MaxRequests \in Nat /\ MaxLosses \in Nat
  /\ {"kodi", "flush"} = Poppers

VARIABLES
  wire,      (* the bytes on their way                                     *)
  onWire,    (* the messages that are not completely read                  *)
  sent, losses, (* how many messages and losses there have been            *)
  reader,    (* where ReadMessage is: length, bytes read, message          *)
  heap,      (* the messages in memory, by address                         *)
  last,      (* the last address                                           *)
  qBuffer, qHasData, qWaiting, qNotified, (* m_queue: addresses            *)
  process,   (* the message the Process thread has, or 0                   *)
  seq,       (* m_seq                                                      *)
  response,  (* the registered HTSPResponse: number and message            *)
  answer,    (* the message SendAndWait has returned, or 0                 *)
  forgotten, (* the messages that nobody will free                         *)
  asked,     (* the server has the request                                 *)
  owed,      (* the messages and packets in transit to each, as they were  *)
             (* sent                                                       *)
  misfreed   (* memory has been freed twice                                *)

wireVars == <<wire, onWire, sent, losses>>
heapVars == <<heap, last, misfreed, forgotten>>
qVars == <<qBuffer, qHasData, qWaiting, qNotified>>
respVars == <<seq, response, answer, asked>>
vars == <<wireVars, reader, heapVars, bufVars, qVars, process, respVars, owed>>

Q == INSTANCE SyncedBuffer WITH buffer <- qBuffer, hasData <- qHasData, waiting <- qWaiting,
       notified <- qNotified, Entries <- Nat, Poppers <- {"process"}

\* Names of fields: their spelling does not matter, that they are bytes does.
Method == <<109>>
Seqno == <<115, 101>>
SubId == <<115>>
Stream == <<114>>
Pts == <<116>>
Payload == <<112>>
Data == <<100>>

\* The name of the method muxpkt.
MuxPkt == <<109>>

\* The response to the request with number n.
Answer(n) == <<AddU32(Seqno, n)>>
Answers == {Answer(n) : n \in 1..MaxRequests}

\* The numbers of requests do not wrap.
ASSUME NumbersFit == \A n \in 1..MaxRequests : GetU32(Answer(n), Seqno) = Result(OK, n)

\* What the server sends of its own accord is a call of a method and no response.
ASSUME SamplesAreCalls ==
  \A msg \in Samples : GetStr(msg, Method).err = OK /\ GetU32(msg, Seqno).err # OK

\* What is sent is read back, behind its length.
ASSUME ReadBack ==
  \A msg \in Samples \cup Answers :
    LET bytes == Encode(msg)
    IN /\ bytes \in Seq(0..255) /\ Len(bytes) >= 4 /\ Number(SubSeq(bytes, 1, 4)) = Len(bytes) - 4
       /\ Decode(SubSeq(bytes, 5, Len(bytes))) = [ok |-> TRUE, msg |-> msg]

NoResponse == [seq |-> 0, flag |-> FALSE, msg |-> 0]
AtLength == [at |-> "length", len |-> 4, buf |-> <<>>, msg |-> 0]

Init ==
  /\ wire = <<>> /\ onWire = <<>> /\ sent = 0 /\ losses = 0 /\ reader = AtLength
  /\ heap = [a \in {} |-> <<>>] /\ last = 0 /\ misfreed = FALSE /\ forgotten = {}
  /\ BufferInit /\ Q!BufferInit /\ process = 0
  /\ seq = 0 /\ response = NoResponse /\ answer = 0 /\ asked = FALSE
  /\ owed = [process |-> <<>>, kodi |-> <<>>]

-----------------------------------------------------------------------------
(***************************************************************************)
(* The server.                                                             *)
(***************************************************************************)
\* The subscription of the demuxer that is open.
Subscription == 1
IsFor(msg, id) == GetU32(msg, SubId) = Result(OK, id)
IsPacket(msg) ==
  /\ IsFor(msg, Subscription) /\ GetStr(msg, Method) = Result(OK, MuxPkt)
  /\ GetU32(msg, Stream).err = OK /\ GetBin(msg, Payload).err = OK
IsQueued(msg) == GetU32(msg, SubId).err # OK /\ GetU32(msg, Seqno).err # OK /\ GetStr(msg, Method).err = OK

\* The packet that ParseMuxPacket makes of a message, and the streams there are.
Packet(msg) == <<GetU32(msg, Stream).value, GetS64(msg, Pts), GetBin(msg, Payload).value>>
Streams == {GetU32(msg, Stream).value : msg \in Samples}

\* Packets are what m_pktBuffer is for.
ASSUME PacketsAreEntries == \A msg \in Samples : IsPacket(msg) => Packet(msg) \in Entries

\* SelectSeq, written out so that it can be reasoned about.
Chosen(msgs, Is(_)) ==
  LET chosen[i \in 0..Len(msgs)] ==
        IF i = 0 THEN <<>>
        ELSE IF Is(msgs[i]) THEN Append(chosen[i - 1], msgs[i]) ELSE chosen[i - 1]
  IN chosen[Len(msgs)]

Sends(msg) ==
  /\ wire' = wire \o Encode(msg) /\ onWire' = Append(onWire, msg)
  /\ owed' = [process |-> IF IsQueued(msg) THEN Append(owed.process, msg) ELSE owed.process,
              kodi |-> IF IsPacket(msg) THEN Append(owed.kodi, Packet(msg)) ELSE owed.kodi]

ServerSends ==
  /\ sent < MaxSent /\ sent' = sent + 1 /\ \E msg \in Samples : Sends(msg)
  /\ UNCHANGED <<losses, reader, heapVars, bufVars, qVars, process, respVars>>

ServerAnswers ==
  /\ asked /\ asked' = FALSE /\ Sends(Answer(seq))
  /\ UNCHANGED <<sent, losses, reader, heapVars, bufVars, qVars, process, seq, response, answer>>

\* All but as many of the last as those that are lost.
Without(known, lost) == SubSeq(known, 1, Len(known) - Len(lost))

\* The connection ends, and is made again: what has not been read is lost.
\* (ReadMessage frees what it has read, and the connection thread starts anew.)
Breaks ==
  /\ wire' = <<>> /\ onWire' = <<>> /\ asked' = FALSE /\ reader' = AtLength
  /\ owed' = [process |-> Without(owed.process, Chosen(onWire, IsQueued)),
              kodi |-> Without(owed.kodi, Chosen(onWire, IsPacket))]

Loss ==
  /\ losses < MaxLosses /\ losses' = losses + 1 /\ reader.msg = 0 /\ Breaks
  /\ UNCHANGED <<sent, heapVars, bufVars, qVars, process, seq, response, answer>>

-----------------------------------------------------------------------------
(***************************************************************************)
(* The connection thread: ReadMessage.                                     *)
(***************************************************************************)
Smaller(m, n) == IF m < n THEN m ELSE n

\* One recv, of which the result is as long as chance has it.
Receives(n) ==
  /\ n \in 1..Smaller(Len(wire), reader.len - Len(reader.buf))
  /\ wire' = SubSeq(wire, n + 1, Len(wire))
  /\ reader' = [reader EXCEPT !.buf = @ \o SubSeq(wire, 1, n)]

ReadLength ==
  /\ reader.at = "length" /\ Len(wire) >= 4
  /\ wire' = SubSeq(wire, 5, Len(wire))
  /\ reader' = [reader EXCEPT !.at = "body", !.len = Number(SubSeq(wire, 1, 4))]
  /\ UNCHANGED <<onWire, sent, losses, heapVars, bufVars, qVars, process, respVars, owed>>

ReadBody ==
  /\ reader.at = "body" /\ \E n \in {1, reader.len - 1, reader.len - Len(reader.buf)} : Receives(n)
  /\ UNCHANGED <<onWire, sent, losses, heapVars, bufVars, qVars, process, respVars, owed>>

\* Memory: an address is handed on with the duty to free it.
Frees(a) ==
  /\ UNCHANGED forgotten
  /\ IF a = 0 THEN UNCHANGED <<heap, misfreed>>
     ELSE heap' = [b \in DOMAIN heap \ {a} |-> heap[b]] /\ misfreed' = (misfreed \/ a \notin DOMAIN heap)

\* A message that cannot be decoded ends the connection. (What of it had been
\* decoded is freed; a field that breaks off after its name is not, which is no
\* message and left out.)
\* (Mutant of Deserializes: what the first recv has returned is taken for all.)
DeserializesPart ==
  /\ reader.at = "body" /\ reader.buf # <<>>
  /\ LET d == Decode(reader.buf) IN
       IF d.ok
       THEN /\ heap' = [a \in DOMAIN heap \cup {last + 1} |-> IF a = last + 1 THEN d.msg ELSE heap[a]]
            /\ last' = last + 1 /\ reader' = [AtLength EXCEPT !.at = "message", !.msg = last + 1]
            /\ onWire' = Tail(onWire) /\ UNCHANGED <<wire, asked, owed>>
       ELSE Breaks /\ UNCHANGED <<heap, last>>
  /\ UNCHANGED <<sent, losses, bufVars, qVars, process, seq, response, answer, misfreed, forgotten>>
Deserializes ==
  /\ reader.at = "body" /\ Len(reader.buf) = reader.len
  /\ LET d == Decode(reader.buf) IN
       IF d.ok
       THEN /\ heap' = [a \in DOMAIN heap \cup {last + 1} |-> IF a = last + 1 THEN d.msg ELSE heap[a]]
            /\ last' = last + 1 /\ reader' = [AtLength EXCEPT !.at = "message", !.msg = last + 1]
            /\ onWire' = Tail(onWire) /\ UNCHANGED <<wire, asked, owed>>
       ELSE Breaks /\ UNCHANGED <<heap, last>>
  /\ UNCHANGED <<sent, losses, bufVars, qVars, process, seq, response, answer, misfreed, forgotten>>

Read == heap[reader.msg]
Has == reader.at = "message" /\ reader' = AtLength

\* The number of the response that the message is, if it is one.
Answered == LET r == GetU32(Read, Seqno) IN
  r.err = OK /\ response.seq # 0 /\ r.value = response.seq

\* HTSPResponse::Set.
SetsResponse ==
  /\ Has /\ Answered
  /\ response' = [response EXCEPT !.msg = reader.msg, !.flag = TRUE]
  /\ UNCHANGED <<wireVars, heapVars, bufVars, qVars, process, seq, answer, asked, owed>>

\* A message nobody waits for, and without a method: a late response.
Destroys ==
  /\ Has /\ ~Answered /\ GetStr(Read, Method).err # OK /\ Frees(reader.msg)
  /\ UNCHANGED <<wireVars, last, bufVars, qVars, process, respVars, owed>>

\* What ParseMuxPacket finds of the demuxer: whether its subscription is active,
\* m_streamStat, and whether m_seektime is set. Other threads and the messages
\* of the subscription change that between any two packets (LiveStream).
Demuxers == [active : BOOLEAN, streams : SUBSET Streams, seeking : BOOLEAN]
Accepts(demuxer, msg) ==
  demuxer.active /\ GetU32(msg, Stream).value \in demuxer.streams /\ ~demuxer.seeking

\* ProcessMessage with a subscriptionId: the demuxer, if there is one, copies
\* the packet if it is one and it accepts it, and ReadMessage destroys the
\* message. A packet that is dropped is owed no longer: it is the first of
\* those that are not yet in the buffer.
PassesToDemuxer ==
  /\ Has /\ ~Answered /\ GetStr(Read, Method).err = OK /\ GetU32(Read, SubId).err = OK
  /\ \/ ~IsPacket(Read) /\ UNCHANGED <<bufVars, owed>>
     \/ /\ IsPacket(Read)
        /\ \E demuxer \in Demuxers :
             IF Accepts(demuxer, Read) THEN Push(Packet(Read)) /\ UNCHANGED owed
             ELSE UNCHANGED bufVars /\ owed' = [owed EXCEPT !.kodi = RemoveAt(@, Len(buffer) + 1)]
  /\ Frees(reader.msg)
  /\ UNCHANGED <<wireVars, last, qVars, process, respVars>>

\* What the HTSPMessage that is copied has left; its destructor frees that.
\* (Mutant of CopiedFrom: a copy shares the message with its original.)
CopiedFromShared(a) == a
CopiedFrom(a) == 0

\* ProcessMessage without one: m_queue owns it.
Stores ==
  /\ Has /\ ~Answered /\ GetStr(Read, Method).err = OK /\ GetU32(Read, SubId).err # OK
  /\ Q!Push(reader.msg) /\ Frees(CopiedFrom(reader.msg))
  /\ UNCHANGED <<wireVars, last, bufVars, process, respVars, owed>>

ReaderStep == ReadLength \/ ReadBody \/ Deserializes \/ SetsResponse \/ Destroys \/ PassesToDemuxer \/ Stores

-----------------------------------------------------------------------------
(***************************************************************************)
(* A thread that sends a request and waits: SendAndWait0, HTSPResponse.    *)
(***************************************************************************)
Requests ==
  /\ response = NoResponse /\ answer = 0 /\ seq < MaxRequests
  /\ seq' = seq + 1 /\ response' = [NoResponse EXCEPT !.seq = seq + 1] /\ asked' = TRUE
  /\ UNCHANGED <<wireVars, reader, heapVars, bufVars, qVars, process, answer, owed>>

\* Get, with a message or after the timeout, and erase from m_messages.
Gets ==
  /\ response # NoResponse /\ answer' = response.msg /\ response' = NoResponse
  /\ UNCHANGED <<wireVars, reader, heapVars, bufVars, qVars, process, seq, asked, owed>>

\* The caller destroys it when it has read it,
UsesAnswer ==
  /\ answer # 0 /\ answer' = 0 /\ Frees(answer)
  /\ UNCHANGED <<wireVars, reader, last, bufVars, qVars, process, seq, response, asked, owed>>

\* except SendFileRead, when the answer has no data: it returns, and the message
\* is forgotten. (The answers here have nothing but their number.)
FileReadForgets ==
  /\ answer # 0 /\ GetBin(heap[answer], Data).err # OK
  /\ answer' = 0 /\ forgotten' = forgotten \cup {answer}
  /\ UNCHANGED <<wireVars, reader, heap, last, misfreed, bufVars, qVars, process, seq, response, asked, owed>>

-----------------------------------------------------------------------------
(***************************************************************************)
(* The Process thread, and Kodi's threads that read and flush.             *)
(***************************************************************************)
Handed(to) == owed' = [owed EXCEPT ![to] = Tail(@)]

\* Pop moves the message into the thread's HTSPMessage, which is empty.
ProcessPops ==
  /\ process = 0
  /\ \/ (Q!PopNow("process") \/ Q!PopTakes("process")) /\ process' = Head(qBuffer)
     \/ (Q!PopWaits("process") \/ Q!PopWaitsOn("process") \/ Q!PopTimesOut("process")) /\ UNCHANGED process
  /\ UNCHANGED <<wireVars, reader, heapVars, bufVars, respVars, owed>>

\* The message has been handled: ClearMessage.
ProcessHandles ==
  /\ process # 0 /\ process' = 0 /\ Frees(process) /\ Handed("process")
  /\ UNCHANGED <<wireVars, reader, last, bufVars, qVars, respVars>>

\* HTSPDemuxer::Read waits, Flush and Trim do not.
KodiReads ==
  /\ \/ (PopNow("kodi") \/ PopTakes("kodi")) /\ Handed("kodi")
     \/ (PopWaits("kodi") \/ PopWaitsOn("kodi") \/ PopTimesOut("kodi")) /\ UNCHANGED owed
  /\ UNCHANGED <<wireVars, reader, heapVars, qVars, process, respVars>>
Flushes ==
  /\ PopNow("flush") /\ Handed("kodi")
  /\ UNCHANGED <<wireVars, reader, heapVars, qVars, process, respVars>>

Next == \/ ServerSends \/ ServerAnswers \/ Loss \/ ReaderStep \/ Requests \/ Gets \/ UsesAnswer
        \/ FileReadForgets \/ ProcessPops \/ ProcessHandles \/ KodiReads \/ Flushes

Spec == Init /\ [][Next]_vars

-----------------------------------------------------------------------------
(***************************************************************************)
(* Properties.                                                             *)
(***************************************************************************)
Content(a) == IF a \in DOMAIN heap THEN heap[a] ELSE <<>>
InReader == IF reader.msg = 0 THEN <<>> ELSE <<Content(reader.msg)>>
InProcess == IF process = 0 THEN <<>> ELSE <<Content(process)>>
OnTheWay(Is(_)) == Chosen(InReader \o onWire, Is)

\* What is on its way to the Process thread and to Kodi is what the server
\* sent, field for field and packet for packet, in the order it was sent and
\* nothing twice, however the bytes arrive (ReadMessage, ProcessMessage). For the
\* Process thread nothing is missing; of the packets only those are missing that
\* ParseMuxPacket does not accept, that are flushed, or that a loss takes from the wire. A
\* thread that gets a response gets the one to its request.
HandedOnAsSent ==
  /\ InProcess \o [i \in DOMAIN qBuffer |-> Content(qBuffer[i])] \o OnTheWay(IsQueued) = owed.process
  /\ buffer \o [i \in DOMAIN OnTheWay(IsPacket) |-> Packet(OnTheWay(IsPacket)[i])] = owed.kodi
  /\ response.msg # 0 => Content(response.msg) = Answer(seq)
  /\ answer # 0 => Content(answer) = Answer(seq)

\* Every message that was received and is in memory has exactly one owner, who
\* will free it, and none that has been freed has any: nothing is freed twice or
\* used after, and nothing leaks but the answers that SendFileRead forgets.
Holds == <<reader.msg, process, response.msg, answer>> \o qBuffer
Owners == {i \in DOMAIN Holds : Holds[i] # 0}
OneOwner ==
  /\ ~misfreed /\ {Holds[i] : i \in Owners} \cup forgotten = DOMAIN heap
  /\ forgotten \cap {Holds[i] : i \in Owners} = {}
  /\ \A a \in forgotten : heap[a] \in Answers /\ GetBin(heap[a], Data).err # OK
  /\ \A i, j \in Owners : Holds[i] = Holds[j] => i = j
=============================================================================
