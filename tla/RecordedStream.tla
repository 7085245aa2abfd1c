--------------------------- MODULE RecordedStream ---------------------------
(***************************************************************************)
(* Recorded streams of pvr.hts: HTSPVFS.cpp and the map m_vfs of           *)
(* Tvheadend.cpp that leads from the stream ids Kodi has to HTSPVFS        *)
(* objects.                                                                *)
(*                                                                         *)
(* Every client is a thread of Kodi that plays the recording of its own    *)
(* name. The Process thread opens the files again when the connection has  *)
(* been replaced (RebuildState), holding m_mutex of CTvheadend; a client   *)
(* needs that mutex only to look its stream up. Nothing locks an HTSPVFS   *)
(* object itself. A request is executed by the server when it is written,  *)
(* and the thread goes on, later, with the response (or without one).      *)
(*                                                                         *)
(* Positions are counted in the seconds of recording they hold, so the bit *)
(* rate is 1 once something has been recorded.                             *)
(***************************************************************************)
EXTENDS Integers, FiniteSetsExt, Functions

CONSTANTS
  Clients,      (* threads of Kodi, and their recordings                   *)
  Growing,      (* the recordings that are in progress at first            *)
  Length,       (* how much is recorded at first                           *)
  RealTime,     (* below this distance to the end a stream is real-time    *)
  Tries,        (* how often Read asks at the end of a growing recording   *)
  MaxCalls,     (* bound: calls of all the clients                         *)
  MaxLosses,    (* bound: how often the connection is lost                 *)
  MaxTime,      (* bound: the clock                                        *)
  MaxEvents     (* bound: recordings that end or are deleted, and refused  *)
                (* requests                                                *)

ASSUME RecordedAssumption ==
  /\ Length \in Nat \ {0} /\ RealTime \in Nat /\ Tries \in Nat \ {0} /\ MaxCalls \in Nat
  /\ MaxLosses \in Nat /\ MaxTime \in Nat /\ Length <= MaxTime /\ MaxEvents \in Nat /\ Clients \subseteq Nat
  /\ Growing \subseteq Clients

VARIABLES
  link,      (* the connection: "up", "down", or connected and registering *)
  losses,    (* how often it has been lost                                 *)
  pending,   (* ~m_stateRebuilt                                            *)
  files,     (* the server's open files of this connection, by id          *)
  lastId,    (* the last file id it gave                                   *)
  recs,      (* m_recordings: the state of every recording                 *)
  len,       (* how long every recording is                                *)
  mVfs,      (* m_vfs: objects (named by the client that opened) by id     *)
  vfs,       (* the fields of every object                                 *)
  handle,    (* the stream id every client has been given, 0 for none      *)
  call,      (* what every client is doing                                 *)
  rebuild,   (* where RebuildState is on the Process thread                *)
  now,       (* std::time                                                  *)
  calls, events, (* how many there have been                               *)
  want,      (* the position every client believes to be at                *)
  misread,   (* a Read has returned other data than Kodi asked for         *)
  drift,     (* how much further from the end an object is than it was at  *)
             (* its last seek, time spent paused not counted               *)
  disturbed  (* see Disturb                                                *)

linkVars == <<link, losses, pending>>
srvVars == <<files, lastId>>
recVars == <<recs, len, now>>
kodiVars == <<handle, want, misread>>
objVars == <<vfs, drift>>
vars == <<linkVars, srvVars, recVars, mVfs, objVars, kodiVars, call, rebuild, calls, events, disturbed>>

Closed == [id |-> 0, offset |-> 0, eof |-> -1, pausedAt |-> 0, paused |-> FALSE, real |-> FALSE]
Idle == [op |-> "none", at |-> "idle", obj |-> 0, file |-> 0, arg |-> 0, res |-> -1, tries |-> 0]
Rest == [at |-> "rest", todo |-> {}, res |-> -1]

\* The requests of a client, in the order Open, Read, Seek (with Size) and Close make them.
Requests == {"open", "read", "seek", "size", "length", "close"}
Null == -1 \* no response, or an error

TypeOK ==
  /\ link \in {"up", "down", "reg"} /\ losses \in 0..MaxLosses /\ pending \in BOOLEAN
  /\ lastId \in Nat /\ DOMAIN files \subseteq 1..lastId
  /\ files \in [DOMAIN files -> [rec : Clients, pos : Nat]]
  /\ recs \in [Clients -> {"recording", "done", "gone"}] /\ len \in [Clients -> Nat]
  /\ mVfs \in [DOMAIN mVfs -> Clients] /\ DOMAIN mVfs \subseteq Nat /\ IsInjective(mVfs)
  /\ vfs \in [Clients -> [id : Nat, offset : Nat, eof : Int, pausedAt : Nat,
                          paused : BOOLEAN, real : BOOLEAN]]
  /\ \A o \in Clients : vfs[o].real <=> vfs[o].eof \in 0..(RealTime - 1)
  /\ handle \in [Clients -> Nat]
  /\ call \in [Clients -> [op : Requests \cup {"none"}, at : {"idle", "gate", "wait"},
                           obj : Clients \cup {0}, file : Nat, arg : Int, res : Int, tries : 0..Tries]]
  /\ rebuild \in [at : {"rest", "open", "opened", "seeked"}, todo : SUBSET DOMAIN mVfs, res : Int]
  /\ now \in 0..MaxTime /\ calls \in 0..MaxCalls /\ events \in 0..MaxEvents
  /\ want \in [Clients -> Nat] /\ drift \in [Clients -> Int] /\ disturbed \in BOOLEAN

Empty == [x \in {} |-> 0]

Init ==
  /\ link = "up" /\ losses = 0 /\ pending = FALSE
  /\ files = Empty /\ lastId = 0
  /\ recs = [c \in Clients |-> IF c \in Growing THEN "recording" ELSE "done"]
  /\ len = [c \in Clients |-> Length]
  /\ mVfs = Empty /\ vfs = [o \in Clients |-> Closed] /\ handle = [c \in Clients |-> 0]
  /\ call = [c \in Clients |-> Idle] /\ rebuild = Rest
  /\ now = Length /\ calls = 0 /\ events = 0
  /\ want = [c \in Clients |-> 0] /\ misread = FALSE
  /\ drift = [o \in Clients |-> 0] /\ disturbed = FALSE

-----------------------------------------------------------------------------
(***************************************************************************)
(* The server. Executes returns, as a set, the files, the last id and the  *)
(* result there may be: a file id, an amount read, a position or a size.   *)
(***************************************************************************)
Outcome(f, last, res) == [files |-> f, last |-> last, res |-> res]
Smaller(a, b) == IF a < b THEN a ELSE b

Executes(op, file, rec, arg) ==
  LET known == file \in DOMAIN files
      f == files[file]
      Same(res) == Outcome(files, lastId, res)
      Moved(pos, res) == Outcome([files EXCEPT ![file].pos = pos], lastId, res)
  IN CASE op = "open" /\ recs[rec] # "gone" ->
            Outcome([i \in DOMAIN files \cup {lastId + 1} |->
                       IF i = lastId + 1 THEN [rec |-> rec, pos |-> 0] ELSE files[i]], lastId + 1, lastId + 1)
       [] op = "read" /\ known -> LET n == Smaller(arg, len[f.rec] - f.pos) IN Moved(f.pos + n, n)
       [] op = "seek" /\ known -> Moved(Smaller(arg, len[f.rec]), Smaller(arg, len[f.rec]))
       [] op \in {"size", "length"} /\ known -> Same(len[f.rec])
       [] op = "close" /\ known -> Outcome([i \in DOMAIN files \ {file} |-> files[i]], lastId, 0)
       [] OTHER -> Same(Null)

\* A refused request counts as an event.
Written(op, file, rec, arg, out) ==
  \/ out = Executes(op, file, rec, arg) /\ UNCHANGED events
  \/ /\ events < MaxEvents /\ events' = events + 1 /\ op \in {"open", "seek"}
     /\ out = Outcome(files, lastId, Null)

(***************************************************************************)
(* What the properties of a stream after a loss exclude: a call that was   *)
(* under way at the loss, or started before the rebuild was over, and so   *)
(* may name a file of the old connection; a request the server refused to  *)
(* the rebuild; a seek whose failure is reported to Kodi as position 0; a  *)
(* wait for m_ready that timed out; and a stream opened after the loss     *)
(* whose id is that of an older one (Inserted).                            *)
(***************************************************************************)
Disturb(cond) == disturbed' = (disturbed \/ cond)

-----------------------------------------------------------------------------
(***************************************************************************)
(* SendAndWait: a client's message is built (with the file id of that      *)
(* moment), waits for m_ready, is written, and answered.                   *)
(***************************************************************************)
Asks(c, op, o, arg, tries) ==
  [Idle EXCEPT !.op = op, !.at = "gate", !.obj = o, !.file = vfs[o].id, !.arg = arg, !.tries = tries]

\* WaitForConnection returns, and the request is written and executed.
Sends(c) ==
  /\ call[c].at = "gate" /\ link = "up"
  /\ \E out \in {Executes(call[c].op, call[c].file, call[c].obj, call[c].arg),
                 Outcome(files, lastId, Null)} :
       /\ Written(call[c].op, call[c].file, call[c].obj, call[c].arg, out)
       /\ files' = out.files /\ lastId' = out.last
       /\ call' = [call EXCEPT ![c].at = "wait", ![c].res = out.res]
  /\ UNCHANGED <<linkVars, recVars, mVfs, objVars, kodiVars, rebuild, calls, disturbed>>

GateTimesOut(c) ==
  /\ call[c].at = "gate" /\ link # "up"
  /\ call' = [call EXCEPT ![c].at = "wait"] /\ Disturb(TRUE)
  /\ UNCHANGED <<linkVars, srvVars, recVars, mVfs, objVars, kodiVars, rebuild, calls, events>>

Answered(c, op) == call[c].at = "wait" /\ call[c].op = op
Returns(c) == call' = [call EXCEPT ![c] = Idle]

-----------------------------------------------------------------------------
(***************************************************************************)
(* Kodi's calls. All but Open look the stream up with m_mutex, which the   *)
(* Process thread holds while it rebuilds.                                 *)
(***************************************************************************)
Free == rebuild.at = "rest"
Calling(c) == /\ call[c].at = "idle" /\ calls < MaxCalls /\ calls' = calls + 1
              /\ Disturb(link # "up" \/ pending)
Finds(c, o) == Free /\ handle[c] \in DOMAIN mVfs /\ o = mVfs[handle[c]]
InProgress(o) == recs[o] = "recording"

\* OpenRecordedStream, of a new object.
OpenRecordedStream(c) ==
  /\ Calling(c) /\ handle[c] = 0
  /\ vfs' = [vfs EXCEPT ![c] = Closed]
  /\ call' = [call EXCEPT ![c] = [Asks(c, "open", c, 0, 0) EXCEPT !.file = 0]]
  /\ UNCHANGED <<linkVars, srvVars, recVars, mVfs, drift, kodiVars, rebuild, events>>

\* insert leaves an entry alone that is there already.
Inserted(id, o) == IF id \in DOMAIN mVfs THEN mVfs
                   ELSE [i \in DOMAIN mVfs \cup {id} |-> IF i = id THEN o ELSE mVfs[i]]

OpenReturns(c) ==
  /\ Answered(c, "open") /\ Returns(c)
  /\ Disturb(call[c].res \in DOMAIN mVfs)
  /\ IF call[c].res = Null THEN UNCHANGED <<vfs, mVfs, handle, want>>
     ELSE /\ Free
          /\ vfs' = [vfs EXCEPT ![c].id = call[c].res]
          /\ mVfs' = Inserted(call[c].res, c)
          /\ handle' = [handle EXCEPT ![c] = call[c].res] /\ want' = [want EXCEPT ![c] = 0]
  /\ UNCHANGED <<linkVars, srvVars, recVars, drift, misread, rebuild, calls, events>>

\* A stream that is not open returns at once.
ReadRecordedStream(c) ==
  /\ Calling(c)
  /\ \E o \in Clients :
       /\ Finds(c, o) /\ recs[o] # "gone" /\ vfs[o].id # 0
       /\ call' = [call EXCEPT ![c] = Asks(c, "read", o, 1, IF InProgress(o) THEN Tries ELSE 1)]
  /\ UNCHANGED <<linkVars, srvVars, recVars, mVfs, objVars, kodiVars, rebuild, events>>

\* SendFileRead again while nothing comes and tries are left.
ReadRetries(c) ==
  /\ Answered(c, "read") /\ call[c].res <= 0 /\ call[c].tries > 1
  /\ call' = [call EXCEPT ![c] = Asks(c, "read", call[c].obj, 1, call[c].tries - 1)]
  /\ UNCHANGED <<linkVars, srvVars, recVars, mVfs, objVars, kodiVars, rebuild, calls, events, disturbed>>

\* The data is what the file had before the position that it has now.
Right(c) == call[c].file \in DOMAIN files =>
  files[call[c].file] = [rec |-> c, pos |-> want[c] + call[c].res]

\* (Mutant of ReadReturns: the offset does not follow the reads.)
ReadReturnsOnly(c) ==
  /\ Answered(c, "read") /\ (call[c].res > 0 \/ call[c].tries <= 1) /\ Returns(c)
  /\ IF call[c].res > 0
     THEN /\ want' = [want EXCEPT ![c] = @ + call[c].res]
          /\ misread' = (misread \/ ~Right(c))
     ELSE UNCHANGED <<want, misread>>
  /\ UNCHANGED <<linkVars, srvVars, recVars, mVfs, objVars, handle, rebuild, calls, events, disturbed>>
ReadReturns(c) ==
  /\ Answered(c, "read") /\ (call[c].res > 0 \/ call[c].tries <= 1) /\ Returns(c)
  /\ IF call[c].res > 0
     THEN /\ vfs' = [vfs EXCEPT ![call[c].obj].offset = @ + call[c].res]
          /\ drift' = [drift EXCEPT ![call[c].obj] = @ - call[c].res]
          /\ want' = [want EXCEPT ![c] = @ + call[c].res]
          /\ misread' = (misread \/ ~Right(c))
     ELSE UNCHANGED <<objVars, want, misread>>
  /\ UNCHANGED <<linkVars, srvVars, recVars, mVfs, handle, rebuild, calls, events, disturbed>>

SeekRecordedStream(c) ==
  /\ Calling(c)
  /\ \E o \in Clients, pos \in 0..Length :
       /\ Finds(c, o) /\ recs[o] # "gone" /\ vfs[o].id # 0
       /\ call' = [call EXCEPT ![c] = Asks(c, "seek", o, pos, IF InProgress(o) THEN 1 ELSE 0)]
  /\ UNCHANGED <<linkVars, srvVars, recVars, mVfs, objVars, kodiVars, rebuild, events>>

\* Kodi is told 0 of a failed seek, which is a position as good as any.
SeekReturns(c) ==
  /\ Answered(c, "seek")
  /\ LET o == call[c].obj  ok == call[c].res # Null IN
     /\ vfs' = IF ok THEN [vfs EXCEPT ![o].offset = call[c].res] ELSE vfs
     /\ want' = [want EXCEPT ![c] = IF ok THEN call[c].res ELSE 0]
     /\ Disturb(~ok)
     /\ call' = IF call[c].tries = 1 THEN [call EXCEPT ![c] = Asks(c, "size", o, now, 0)]
                ELSE [call EXCEPT ![c] = Idle]
  /\ UNCHANGED <<linkVars, srvVars, recVars, mVfs, drift, handle, misread, rebuild, calls, events>>

\* m_isRealTimeStream follows m_eofOffsetSecs.
\* (Mutant of WithEof: the limit is included.)
WithEofIncluded(v, eof) == [v EXCEPT !.eof = eof, !.real = eof >= 0 /\ eof <= RealTime]
WithEof(v, eof) == [v EXCEPT !.eof = eof, !.real = eof >= 0 /\ eof < RealTime]
\* The distance to the end of a recording that has the length time: -1 if the
\* bit rate is not known.
Distance(size, time, offset) ==
  LET rate == IF time > 0 THEN size \div time ELSE 0
  IN IF rate <= 0 THEN -1 ELSE IF size > offset THEN (size - offset) \div rate ELSE 0

\* The rest of Seek in a recording in progress.
SizeReturns(c) ==
  /\ Answered(c, "size") /\ Returns(c)
  /\ LET o == call[c].obj
         v == vfs[o]
         eof == Distance(call[c].res, call[c].arg, v.offset)
     IN /\ vfs' = [vfs EXCEPT ![o] = [WithEof(v, eof) EXCEPT !.pausedAt = IF v.paused THEN now ELSE v.pausedAt]]
        /\ drift' = [drift EXCEPT ![o] = len[o] - v.offset - eof]
  /\ UNCHANGED <<linkVars, srvVars, recVars, mVfs, kodiVars, rebuild, calls, events, disturbed>>

\* LengthRecordedStream asks with the file id it has found, and changes nothing.
LengthRecordedStream(c) ==
  /\ Calling(c)
  /\ \E o \in Clients : Finds(c, o) /\ call' = [call EXCEPT ![c] = Asks(c, "length", o, 0, 0)]
  /\ UNCHANGED <<linkVars, srvVars, recVars, mVfs, objVars, kodiVars, rebuild, events>>

LengthReturns(c) ==
  /\ Answered(c, "length") /\ Returns(c)
  /\ UNCHANGED <<linkVars, srvVars, recVars, mVfs, objVars, kodiVars, rebuild, calls, events, disturbed>>

\* PauseRecordedStream, of a recording in progress.
Pauses(c) ==
  /\ Calling(c)
  /\ \E o \in Clients :
       /\ Finds(c, o) /\ InProgress(o) /\ ~vfs[o].paused
       /\ vfs' = [vfs EXCEPT ![o].paused = TRUE, ![o].pausedAt = now]
  /\ UNCHANGED <<linkVars, srvVars, recVars, mVfs, drift, kodiVars, call, rebuild, events>>
\* (Mutant of Resumes: the time spent paused is not counted.)
ResumesUncounted(c) ==
  /\ Calling(c)
  /\ \E o \in Clients :
       /\ Finds(c, o) /\ InProgress(o) /\ vfs[o].paused
       /\ vfs' = [vfs EXCEPT ![o].paused = FALSE, ![o].pausedAt = 0]
  /\ UNCHANGED <<linkVars, srvVars, recVars, mVfs, drift, kodiVars, call, rebuild, events>>
Resumes(c) ==
  /\ Calling(c)
  /\ \E o \in Clients :
       /\ Finds(c, o) /\ InProgress(o) /\ vfs[o].paused
       /\ LET v == vfs[o]
              eof == IF v.eof >= 0 /\ v.pausedAt > 0 THEN v.eof + (now - v.pausedAt) ELSE v.eof
          IN vfs' = [vfs EXCEPT ![o] = [WithEof(v, eof) EXCEPT !.paused = FALSE, !.pausedAt = 0]]
  /\ UNCHANGED <<linkVars, srvVars, recVars, mVfs, drift, kodiVars, call, rebuild, events>>

\* CloseRecordedStream: the entry goes first, then the file, if there is one.
\* (Mutant of CloseRecordedStream: the server is not told.)
CloseRecordedQuietly(c) ==
  /\ Calling(c)
  /\ \E o \in Clients :
       /\ Finds(c, o)
       /\ mVfs' = [i \in DOMAIN mVfs \ {handle[c]} |-> mVfs[i]]
       /\ handle' = [handle EXCEPT ![c] = 0] /\ vfs' = [vfs EXCEPT ![o] = Closed]
  /\ UNCHANGED <<linkVars, srvVars, recVars, drift, want, misread, call, rebuild, events>>
CloseRecordedStream(c) ==
  /\ Calling(c)
  /\ \E o \in Clients :
       /\ Finds(c, o)
       /\ mVfs' = [i \in DOMAIN mVfs \ {handle[c]} |-> mVfs[i]]
       /\ handle' = [handle EXCEPT ![c] = 0]
       /\ IF vfs[o].id # 0
          THEN call' = [call EXCEPT ![c] = Asks(c, "close", o, 0, 0)] /\ UNCHANGED vfs
          ELSE vfs' = [vfs EXCEPT ![o] = Closed] /\ UNCHANGED call
  /\ UNCHANGED <<linkVars, srvVars, recVars, drift, want, misread, rebuild, events>>

CloseReturns(c) ==
  /\ Answered(c, "close") /\ Returns(c)
  /\ vfs' = [vfs EXCEPT ![call[c].obj] = Closed]
  /\ UNCHANGED <<linkVars, srvVars, recVars, mVfs, drift, kodiVars, rebuild, calls, events, disturbed>>

Kodi == \E c \in Clients :
  \/ OpenRecordedStream(c) \/ ReadRecordedStream(c) \/ SeekRecordedStream(c)
  \/ LengthRecordedStream(c) \/ Pauses(c) \/ Resumes(c) \/ CloseRecordedStream(c)
Continues == \E c \in Clients :
  \/ Sends(c) \/ GateTimesOut(c) \/ OpenReturns(c) \/ ReadRetries(c) \/ ReadReturns(c)
  \/ SeekReturns(c) \/ SizeReturns(c) \/ LengthReturns(c) \/ CloseReturns(c)

-----------------------------------------------------------------------------
(***************************************************************************)
(* SyncInitCompleted: the objects of m_vfs, in the order of their ids.     *)
(* fileOpen and fileSeek do not wait for m_ready, fileClose does.          *)
(***************************************************************************)
Object == mVfs[Min(rebuild.todo)]
NextObject ==
  LET others == rebuild.todo \ {Min(rebuild.todo)}
  IN IF others = {} THEN Rest ELSE [Rest EXCEPT !.at = "open", !.todo = others]
Connected == link \in {"up", "reg"}

SyncInitCompleted ==
  /\ Free /\ pending /\ Connected
  /\ pending' = FALSE
  /\ rebuild' = IF DOMAIN mVfs = {} THEN Rest
                ELSE [Rest EXCEPT !.at = "open", !.todo = DOMAIN mVfs]
  /\ UNCHANGED <<link, losses, srvVars, recVars, mVfs, objVars, kodiVars, call, calls, events, disturbed>>

\* A request is written, unless the connection is dead, and the next step is at.
RebuildAsks(op, file, arg, at) ==
  /\ \E out \in {Executes(op, file, Object, arg), Outcome(files, lastId, Null)} :
       /\ IF Connected THEN Written(op, file, Object, arg, out)
          ELSE out = Outcome(files, lastId, Null) /\ UNCHANGED events
       /\ files' = out.files /\ lastId' = out.last
       /\ rebuild' = [rebuild EXCEPT !.at = at, !.res = out.res]
       /\ Disturb(out.res = Null)

RebuildState ==
  /\ rebuild.at = "open"
  /\ IF vfs[Object].id = 0
     THEN rebuild' = NextObject /\ UNCHANGED <<srvVars, events, disturbed>>
     ELSE RebuildAsks("open", 0, 0, "opened")
  /\ UNCHANGED <<linkVars, recVars, mVfs, objVars, kodiVars, call, calls>>

\* The file is open: it is sought to m_offset.
RebuildSeeks ==
  /\ rebuild.at = "opened" /\ rebuild.res # Null
  /\ vfs' = [vfs EXCEPT ![Object].id = rebuild.res]
  /\ RebuildAsks("seek", rebuild.res, vfs[Object].offset, "seeked")
  /\ UNCHANGED <<linkVars, recVars, mVfs, drift, kodiVars, call, calls>>

\* The position is tested as a truth value: 0 counts as failed, -1 does not.
\* (Mutant of SoughtWell: the result is taken for an error code.)
SoughtWellIfZero(res) == res = 0
SoughtWell(res) == res # 0

RebuildSought ==
  /\ rebuild.at = "seeked" /\ SoughtWell(rebuild.res)
  /\ vfs' = IF rebuild.res = Null THEN vfs ELSE [vfs EXCEPT ![Object].offset = rebuild.res]
  /\ rebuild' = NextObject
  /\ UNCHANGED <<linkVars, srvVars, recVars, mVfs, drift, kodiVars, call, calls, events, disturbed>>

\* Close, whose request waits for m_ready.
RebuildCloses ==
  /\ \/ rebuild.at = "opened" /\ rebuild.res = Null
     \/ rebuild.at = "seeked" /\ ~SoughtWell(rebuild.res)
  /\ \/ /\ link = "up"
        /\ files' = Executes("close", vfs[Object].id, Object, 0).files /\ UNCHANGED disturbed
     \/ link # "up" /\ Disturb(TRUE) /\ UNCHANGED files
  /\ vfs' = [vfs EXCEPT ![Object] = Closed]
  /\ rebuild' = NextObject
  /\ UNCHANGED <<linkVars, lastId, recVars, mVfs, drift, kodiVars, call, calls, events>>

Rebuilds == SyncInitCompleted \/ RebuildState \/ RebuildSeeks \/ RebuildSought \/ RebuildCloses

-----------------------------------------------------------------------------
(***************************************************************************)
(* The connection, the recordings and the clock.                           *)
(***************************************************************************)
Loses ==
  /\ link # "down" /\ losses < MaxLosses
  /\ losses' = losses + 1 /\ link' = "down" /\ files' = Empty /\ lastId' = 0
  /\ Disturb(~Free \/ \E c \in Clients : call[c].at # "idle")
  /\ UNCHANGED <<pending, recVars, mVfs, objVars, kodiVars, call, rebuild, calls, events>>
\* (Mutant of Reconnects: nobody is told to rebuild.)
ReconnectsOnly ==
  /\ link = "down" /\ link' = "reg"
  /\ UNCHANGED <<losses, pending, srvVars, recVars, mVfs, objVars, kodiVars, call, rebuild, calls, events, disturbed>>
Reconnects ==
  /\ link = "down" /\ link' = "reg" /\ pending' = TRUE
  /\ UNCHANGED <<losses, srvVars, recVars, mVfs, objVars, kodiVars, call, rebuild, calls, events, disturbed>>
Registers ==
  /\ link = "reg" /\ link' = "up"
  /\ UNCHANGED <<losses, pending, srvVars, recVars, mVfs, objVars, kodiVars, call, rebuild, calls, events, disturbed>>

\* A recording ends, or is deleted with its file.
Changes ==
  /\ events < MaxEvents /\ events' = events + 1 /\ Free
  /\ \E c \in Clients, state \in {"done", "gone"} :
       recs[c] # state /\ recs[c] # "gone" /\ recs' = [recs EXCEPT ![c] = state]
  /\ UNCHANGED <<linkVars, srvVars, len, now, mVfs, objVars, kodiVars, call, rebuild, calls, disturbed>>

Tick ==
  /\ now < MaxTime /\ now' = now + 1
  /\ len' = [c \in Clients |-> IF recs[c] = "recording" THEN len[c] + 1 ELSE len[c]]
  /\ drift' = [o \in Clients |-> IF recs[o] = "recording" /\ ~vfs[o].paused THEN drift[o] + 1 ELSE drift[o]]
  /\ UNCHANGED <<linkVars, srvVars, recs, mVfs, vfs, kodiVars, call, rebuild, calls, events, disturbed>>

Next == Kodi \/ Continues \/ Rebuilds \/ Loses \/ Reconnects \/ Registers \/ Changes \/ Tick

Spec == Init /\ [][Next]_vars

-----------------------------------------------------------------------------
(***************************************************************************)
(* Properties.                                                             *)
(***************************************************************************)
Settled == /\ link = "up" /\ ~pending /\ Free /\ \A c \in Clients : call[c].at = "idle"

\* What Read gives to Kodi comes from the recording and the position that Kodi
\* is at, also on the connection after a loss that hit no call.
ReadsRightBytes == ~disturbed => ~misread

\* m_offset, which RebuildState seeks to, is where the server's file is.
PositionsAgree == Settled /\ ~disturbed =>
  \A o \in Range(mVfs) : vfs[o].id # 0 =>
    vfs[o].id \in DOMAIN files /\ files[vfs[o].id] = [rec |-> o, pos |-> vfs[o].offset]

\* Every file of the server is closed in the end: none is open without an
\* object in m_vfs that Kodi can close.
NoOpenFiles == Settled /\ ~disturbed =>
  \A i \in DOMAIN files : \E c \in Clients : handle[c] \in DOMAIN mVfs /\ vfs[mVfs[handle[c]]].id = i

\* A stream that has been played beyond its start goes on after a reconnect.
GoesOn == Settled /\ ~disturbed =>
  \A c \in Clients : handle[c] # 0 /\ want[c] > 0 => vfs[mVfs[handle[c]]].id # 0

\* m_eofOffsetSecs, corrected by the time spent paused, is the distance to the
\* end of the recording, up to what has been read or recorded without a pause.
Busy(o) == \E c \in Clients : call[c].obj = o /\ call[c].op \in {"read", "size", "close"}
PausesAreCounted == ~disturbed =>
  \A o \in Range(mVfs) : vfs[o].eof >= 0 /\ recs[o] = "recording" /\ ~Busy(o) =>
    len[o] - vfs[o].offset = vfs[o].eof + drift[o] + (IF vfs[o].paused THEN now - vfs[o].pausedAt ELSE 0)
=============================================================================
