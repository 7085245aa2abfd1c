------------------------ MODULE RecordedStreamProofs ------------------------
(***************************************************************************)
(* What recorded streams promise, for any number of clients and any        *)
(* bounds: the type invariant, and, while nothing has disturbed them, that *)
(* what is read is what was asked for, that the objects and the server     *)
(* agree on files and positions, that no file is left open, that streams   *)
(* go on after a reconnect and that pauses are counted.                    *)
(***************************************************************************)
EXTENDS RecordedStream, WellFoundedInduction, TLAPS

Active(c) == call[c].at # "idle"
Waits(c, op) == call[c].op = op /\ call[c].at = "wait"
Steady == link # "down" /\ ~pending

File == [rec : Clients, pos : Nat]
Results == Nat \cup {Null}
CallFields == [op : Requests \cup {"none"}, at : {"idle", "gate", "wait"}, obj : Clients \cup {0},
               file : Nat, arg : Nat, res : Results, tries : 0..Tries]
VfsFields == [id : Nat, offset : Nat, eof : Int, pausedAt : Nat, paused : BOOLEAN, real : BOOLEAN]

-----------------------------------------------------------------------------
(***************************************************************************)
(* What always holds: the types, by the variables that a step changes      *)
(* together, and what keeps them.                                          *)
(***************************************************************************)
LinkType == link \in {"up", "down", "reg"} /\ losses \in 0..MaxLosses /\ pending \in BOOLEAN

\* Files have ids from 1 on, and are at a position of their recording.
FilesType == lastId \in Nat /\ DOMAIN files \subseteq 1..lastId /\ files \in [DOMAIN files -> File]
Within == \A i \in DOMAIN files : files[i].pos <= len[files[i].rec]
RecsType == recs \in [Clients -> {"recording", "done", "gone"}] /\ len \in [Clients -> Nat]

\* Ids lead to the object of the client that has been given them.
MapType == /\ mVfs \in [DOMAIN mVfs -> Clients] /\ DOMAIN mVfs \subseteq Nat
           /\ handle \in [Clients -> Nat]
Named == \A i \in DOMAIN mVfs : i # 0 /\ handle[mVfs[i]] = i

\* The clock is never 0, by which Resume knows a pause.
VfsType == /\ vfs \in [Clients -> VfsFields]
           /\ \A o \in Clients : vfs[o].real <=> vfs[o].eof \in 0..(RealTime - 1)
PauseKnown == \A o \in Clients : vfs[o].paused => vfs[o].pausedAt # 0

\* A call under way is of a client; one that opens has a new object.
Sound(c) ==
  /\ Active(c) <=> call[c].op # "none"
  /\ Active(c) => call[c].obj \in Clients
  /\ call[c].op = "open" => call[c].res # 0 /\ handle[c] = 0
CallType == call \in [Clients -> CallFields] /\ \A c \in Clients : Sound(c)

RebuildType ==
  /\ rebuild \in [at : {"rest", "open", "opened", "seeked"}, todo : SUBSET DOMAIN mVfs, res : Results]
  /\ Free <=> rebuild.todo = {}
Counters == now \in 0..MaxTime /\ calls \in 0..MaxCalls /\ events \in 0..MaxEvents
KodiType == /\ want \in [Clients -> Nat] /\ drift \in [Clients -> Int] /\ disturbed \in BOOLEAN
            /\ now # 0

\* The inductive invariant.
TInv == /\ LinkType /\ FilesType /\ Within /\ RecsType /\ MapType /\ Named /\ VfsType /\ PauseKnown
        /\ CallType /\ RebuildType /\ Counters /\ KodiType

\* It has the types in it.
LEMMA TypesAreRight == TInv => TypeOK
  <1> SUFFICES ASSUME TInv PROVE TypeOK
    OBVIOUS
  <1>1. IsInjective(mVfs)
    BY DEF TInv, MapType, Named, IsInjective
  <1>2. call \in [Clients -> [op : Requests \cup {"none"}, at : {"idle", "gate", "wait"},
                              obj : Clients \cup {0}, file : Nat, arg : Int, res : Int, tries : 0..Tries]]
    BY DEF TInv, CallType, CallFields, Results, Null
  <1>3. rebuild \in [at : {"rest", "open", "opened", "seeked"}, todo : SUBSET DOMAIN mVfs, res : Int]
    BY DEF TInv, RebuildType, Results, Null
  <1> QED BY <1>1, <1>2, <1>3 DEF TInv, TypeOK, LinkType, FilesType, File, RecsType, MapType, VfsType,
             VfsFields, Counters, KodiType

-----------------------------------------------------------------------------
(***************************************************************************)
(* The operators of the model.                                             *)
(***************************************************************************)
\* The rebuild takes the objects in the order of their ids.
LEMMA FirstExists ==
  ASSUME NEW S, S \subseteq Nat, S # {}
  PROVE  Min(S) \in S
  <1> DEFINE R == {p \in Nat \X Nat : p[1] < p[2]}
  <1>1. IsWellFoundedOn(R, Nat)
    BY NatLessThanWellFounded DEF OpToRel
  <1>2. PICK m \in S : \A n \in S : ~ (<<n, m>> \in R)
    <2> HIDE DEF R
    <2> QED BY <1>1, WFMin
  <1>3. \A n \in S : ~(n < m)
    BY <1>2
  <1>4. \A n \in S : m <= n
    BY <1>2, <1>3
  <1> HIDE DEF R
  <1>5. \E k \in S : \A n \in S : k <= n
    BY <1>2, <1>4
  <1> QED BY <1>5 DEF Min

\* The object the rebuild is at is that of a client.
LEMMA ObjectIsAClient ==
  ASSUME MapType, RebuildType, rebuild.at # "rest"
  PROVE  /\ Min(rebuild.todo) \in rebuild.todo /\ Min(rebuild.todo) \in DOMAIN mVfs
         /\ Object \in Clients
  <1>1. rebuild.todo # {} /\ rebuild.todo \subseteq Nat /\ rebuild.todo \subseteq DOMAIN mVfs
    BY DEF MapType, RebuildType, Free
  <1> QED BY <1>1, FirstExists DEF Object, MapType

\* What the server does with each request.
LEMMA Opens ==
  ASSUME NEW file, NEW rec, NEW arg
  PROVE  Executes("open", file, rec, arg) =
           IF recs[rec] # "gone"
           THEN Outcome([i \in DOMAIN files \cup {lastId + 1} |->
                           IF i = lastId + 1 THEN [rec |-> rec, pos |-> 0] ELSE files[i]],
                        lastId + 1, lastId + 1)
           ELSE Outcome(files, lastId, Null)
  BY DEF Executes

Moved(file, n) == [files EXCEPT ![file] = [rec |-> files[file].rec, pos |-> n]]

\* Moving a file changes its position and nothing else.
LEMMA MovedIs ==
  ASSUME FilesType, NEW file \in DOMAIN files, NEW n \in Nat
  PROVE  /\ [files EXCEPT ![file].pos = n] = Moved(file, n)
         /\ Moved(file, n) \in [DOMAIN files -> File] /\ DOMAIN Moved(file, n) = DOMAIN files
         /\ \A i \in DOMAIN files : Moved(file, n)[i].rec = files[i].rec
         /\ Moved(file, n)[file].pos = n
         /\ \A i \in DOMAIN files \ {file} : Moved(file, n)[i].pos = files[i].pos
  <1>1. files[file] \in File
    BY DEF FilesType
  <1>2. [files[file] EXCEPT !.pos = n] = [rec |-> files[file].rec, pos |-> n]
    BY <1>1 DEF File
  <1>3. [files EXCEPT ![file].pos = n] = [files EXCEPT ![file] = [files[file] EXCEPT !.pos = n]]
    BY Zenon
  <1>4. [files EXCEPT ![file].pos = n] = Moved(file, n)
    BY <1>2, <1>3 DEF Moved
  <1>5. [rec |-> files[file].rec, pos |-> n] \in File
    BY <1>1 DEF File
  <1>6. /\ Moved(file, n) \in [DOMAIN files -> File] /\ DOMAIN Moved(file, n) = DOMAIN files
        /\ \A i \in DOMAIN files : Moved(file, n)[i].rec = files[i].rec
        /\ Moved(file, n)[file].pos = n
        /\ \A i \in DOMAIN files \ {file} : Moved(file, n)[i].pos = files[i].pos
    BY <1>5 DEF Moved, FilesType
  <1> QED BY <1>4, <1>6

\* A read moves the file by what it returns, not beyond the end of the recording.
LEMMA Reads ==
  ASSUME FilesType, Within, RecsType, NEW file \in DOMAIN files, NEW rec, NEW arg \in Nat
  PROVE  \E n \in Nat :
           /\ Executes("read", file, rec, arg) =
                Outcome(Moved(file, files[file].pos + n), lastId, n)
           /\ files[file].pos + n <= len[files[file].rec]
  <1> DEFINE n == Smaller(arg, len[files[file].rec] - files[file].pos)
  <1>1. files[file].pos \in Nat /\ len[files[file].rec] \in Nat /\ files[file].pos <= len[files[file].rec]
    BY DEF FilesType, File, Within, RecsType
  <1>2. n \in Nat /\ files[file].pos + n <= len[files[file].rec]
    BY <1>1 DEF Smaller
  <1>3. Executes("read", file, rec, arg) =
          Outcome(Moved(file, files[file].pos + n), lastId, n)
    <2>1. Executes("read", file, rec, arg) =
            Outcome([files EXCEPT ![file].pos = files[file].pos + n], lastId, n)
      BY DEF Executes
    <2>2. files[file].pos + n \in Nat
      BY <1>1, <1>2
    <2> HIDE DEF n
    <2> QED BY <2>1, <2>2, MovedIs
  <1> QED BY <1>2, <1>3

\* A seek goes where it is told, or to the end of the recording.
LEMMA Seeks ==
  ASSUME FilesType, RecsType, NEW file \in DOMAIN files, NEW rec, NEW arg \in Nat
  PROVE  \E n \in Nat :
           /\ Executes("seek", file, rec, arg) = Outcome(Moved(file, n), lastId, n)
           /\ n <= len[files[file].rec] /\ (arg <= len[files[file].rec] => n = arg)
  <1> DEFINE n == Smaller(arg, len[files[file].rec])
  <1>1. len[files[file].rec] \in Nat
    BY DEF FilesType, File, RecsType
  <1>2. n \in Nat /\ n <= len[files[file].rec] /\ (arg <= len[files[file].rec] => n = arg)
    BY <1>1 DEF Smaller
  <1>3. Executes("seek", file, rec, arg) = Outcome(Moved(file, n), lastId, n)
    <2>1. Executes("seek", file, rec, arg) = Outcome([files EXCEPT ![file].pos = n], lastId, n)
      BY DEF Executes
    <2> HIDE DEF n
    <2> QED BY <1>2, <2>1, MovedIs
  <1> QED BY <1>2, <1>3

\* A size leaves the files alone.
LEMMA Sizes ==
  ASSUME NEW file \in DOMAIN files, NEW rec, NEW arg, NEW op \in {"size", "length"}
  PROVE  Executes(op, file, rec, arg) = Outcome(files, lastId, len[files[file].rec])
  BY DEF Executes

\* A close takes the file away.
LEMMA Closes ==
  ASSUME NEW file \in DOMAIN files, NEW rec, NEW arg
  PROVE  Executes("close", file, rec, arg) =
           Outcome([i \in DOMAIN files \ {file} |-> files[i]], lastId, 0)
  BY DEF Executes

\* A request that names no file of this connection is answered with an error.
LEMMA NamesNothing ==
  ASSUME NEW file, file \notin DOMAIN files, NEW rec, NEW arg, NEW op \in Requests \ {"open"}
  PROVE  Executes(op, file, rec, arg) = Outcome(files, lastId, Null)
  BY DEF Executes, Requests

\* Whatever a request does, the files stay as they should be.
LEMMA RequestTyped ==
  ASSUME FilesType, Within, RecsType, NEW op \in Requests, NEW file \in Nat, NEW rec \in Clients,
         NEW arg \in Nat, NEW out \in {Executes(op, file, rec, arg), Outcome(files, lastId, Null)}
  PROVE  /\ out.last \in Nat /\ DOMAIN out.files \subseteq 1..out.last
         /\ out.files \in [DOMAIN out.files -> File]
         /\ \A i \in DOMAIN out.files : out.files[i].pos <= len[out.files[i].rec]
         /\ out.res \in Results /\ (op = "open" => out.res # 0)
  <1>1. CASE out = Outcome(files, lastId, Null)
    BY <1>1 DEF Outcome, FilesType, Within, Results, Null
  <1>2. CASE out = Executes(op, file, rec, arg) /\ op = "open" /\ recs[rec] # "gone"
    <2> DEFINE f == [i \in DOMAIN files \cup {lastId + 1} |->
                       IF i = lastId + 1 THEN [rec |-> rec, pos |-> 0] ELSE files[i]]
    <2>1. out = Outcome(f, lastId + 1, lastId + 1)
      BY <1>2, Opens
    <2>2. f \in [DOMAIN f -> File] /\ DOMAIN f \subseteq 1..(lastId + 1)
      BY DEF FilesType, File
    <2>3. \A i \in DOMAIN f : f[i].pos <= len[f[i].rec]
      <3>1. len[rec] >= 0
        BY DEF RecsType
      <3>2. \A i \in DOMAIN files : i # lastId + 1
        BY DEF FilesType
      <3> QED BY <3>1, <3>2 DEF Within
    <2> HIDE DEF f
    <2> QED BY <1>2, <2>1, <2>2, <2>3 DEF Outcome, Results, FilesType
  <1>3. CASE out = Executes(op, file, rec, arg) /\ op = "read" /\ file \in DOMAIN files
    <2>1. PICK n \in Nat :
            /\ out = Outcome(Moved(file, files[file].pos + n), lastId, n)
            /\ files[file].pos + n <= len[files[file].rec]
      BY <1>3, Reads
    <2>2. files[file].pos + n \in Nat
      BY <1>3 DEF FilesType, File
    <2> DEFINE m == files[file].pos + n
    <2>3. out = Outcome(Moved(file, m), lastId, n) /\ m \in Nat /\ m <= len[files[file].rec]
      BY <2>1, <2>2
    <2> HIDE DEF m
    <2>4. out.files = Moved(file, m) /\ out.last = lastId /\ out.res = n
      BY <2>3 DEF Outcome
    <2>5. \A i \in DOMAIN out.files : out.files[i].pos <= len[out.files[i].rec]
      <3>1. /\ DOMAIN Moved(file, m) = DOMAIN files /\ Moved(file, m)[file].pos = m
            /\ \A i \in DOMAIN files : Moved(file, m)[i].rec = files[i].rec
            /\ \A i \in DOMAIN files \ {file} : Moved(file, m)[i].pos = files[i].pos
        BY <1>3, <2>3, MovedIs
      <3> QED BY <1>3, <2>3, <2>4, <3>1 DEF Within
    <2>6. out.files \in [DOMAIN out.files -> File] /\ DOMAIN out.files = DOMAIN files
      BY <1>3, <2>3, <2>4, MovedIs
    <2> QED BY <1>3, <2>4, <2>5, <2>6 DEF Results, FilesType
  <1>4. CASE out = Executes(op, file, rec, arg) /\ op = "seek" /\ file \in DOMAIN files
    <2>1. PICK n \in Nat :
            /\ out = Outcome(Moved(file, n), lastId, n)
            /\ n <= len[files[file].rec] /\ (arg <= len[files[file].rec] => n = arg)
      BY <1>4, Seeks
    <2> QED BY <1>4, <2>1, MovedIs DEF Outcome, Results, FilesType, Within
  <1>5. CASE out = Executes(op, file, rec, arg) /\ op \in {"size", "length"} /\ file \in DOMAIN files
    <2>1. out = Outcome(files, lastId, len[files[file].rec])
      BY <1>5, Sizes
    <2>2. len[files[file].rec] \in Nat
      BY <1>5 DEF FilesType, File, RecsType
    <2> QED BY <1>5, <2>1, <2>2 DEF Outcome, FilesType, Within, Results
  <1>6. CASE out = Executes(op, file, rec, arg) /\ op = "close" /\ file \in DOMAIN files
    <2>1. out = Outcome([i \in DOMAIN files \ {file} |-> files[i]], lastId, 0)
      BY <1>6, Closes
    <2> QED BY <1>6, <2>1 DEF Outcome, FilesType, Within, Results
  <1>7. CASE /\ out = Executes(op, file, rec, arg)
             /\ \/ op = "open" /\ recs[rec] = "gone"
                \/ op # "open" /\ file \notin DOMAIN files
    <2>1. out = Outcome(files, lastId, Null)
      BY <1>7, Opens, NamesNothing
    <2> QED BY <2>1 DEF Outcome, FilesType, Within, Results, Null
  <1> QED BY <1>1, <1>2, <1>3, <1>4, <1>5, <1>6, <1>7 DEF Requests

-----------------------------------------------------------------------------
(***************************************************************************)
(* The types are kept, variable by variable.                               *)
(***************************************************************************)
\* Files are opened, moved and closed by requests, and lost with the connection.
LEMMA AsksTyped ==
  ASSUME TInv, rebuild.at # "rest", NEW op \in Requests, NEW file \in Nat, NEW arg \in Nat, NEW at,
         RebuildAsks(op, file, arg, at), UNCHANGED len
  PROVE  /\ FilesType' /\ Within'
         /\ rebuild'.res \in Results
         /\ rebuild' = [rebuild EXCEPT !.at = at, !.res = rebuild'.res]
         /\ events' \in 0..MaxEvents /\ disturbed' \in BOOLEAN
  <1>1. PICK out \in {Executes(op, file, Object, arg), Outcome(files, lastId, Null)} :
          /\ files' = out.files /\ lastId' = out.last
          /\ rebuild' = [rebuild EXCEPT !.at = at, !.res = out.res]
          /\ Disturb(out.res = Null)
          /\ Written(op, file, Object, arg, out) \/ UNCHANGED events
    BY DEF RebuildAsks
  <1>2. Object \in Clients
    BY ObjectIsAClient DEF TInv
  <1>3. /\ out.last \in Nat /\ DOMAIN out.files \subseteq 1..out.last
        /\ out.files \in [DOMAIN out.files -> File]
        /\ \A i \in DOMAIN out.files : out.files[i].pos <= len[out.files[i].rec]
        /\ out.res \in Results
    BY <1>2, RequestTyped DEF TInv
  <1>4. rebuild'.res = out.res
    BY <1>1 DEF TInv, RebuildType
  <1>5. events' \in 0..MaxEvents
    BY <1>1, RecordedAssumption DEF Written, TInv, Counters
  <1> QED BY <1>1, <1>3, <1>4, <1>5 DEF FilesType, Within, File, Disturb, TInv, KodiType

\* What a client's request may do to the files and to its call.
LEMMA SendsTyped ==
  ASSUME TInv, NEW c \in Clients, Sends(c)
  PROVE  /\ FilesType' /\ Within'
         /\ \E res \in Results : /\ call' = [call EXCEPT ![c].at = "wait", ![c].res = res]
                                 /\ call[c].op = "open" => res # 0
         /\ events' \in 0..MaxEvents
  <1>1. PICK out \in {Executes(call[c].op, call[c].file, call[c].obj, call[c].arg),
                      Outcome(files, lastId, Null)} :
          /\ files' = out.files /\ lastId' = out.last
          /\ call' = [call EXCEPT ![c].at = "wait", ![c].res = out.res]
          /\ Written(call[c].op, call[c].file, call[c].obj, call[c].arg, out)
    BY DEF Sends
  <1>2. /\ call[c].op \in Requests /\ call[c].file \in Nat /\ call[c].obj \in Clients
        /\ call[c].arg \in Nat
    BY DEF Sends, TInv, CallType, CallFields, Sound, Active
  <1>3. /\ out.last \in Nat /\ DOMAIN out.files \subseteq 1..out.last
        /\ out.files \in [DOMAIN out.files -> File]
        /\ \A i \in DOMAIN out.files : out.files[i].pos <= len[out.files[i].rec]
        /\ out.res \in Results /\ (call[c].op = "open" => out.res # 0)
    BY <1>2, RequestTyped DEF TInv
  <1>4. len' = len
    BY DEF Sends, recVars
  <1>5. events' \in 0..MaxEvents
    BY <1>1, RecordedAssumption DEF Written, TInv, Counters
  <1> QED BY <1>1, <1>3, <1>4, <1>5 DEF FilesType, Within, File

\* Every step keeps the files within their recordings.
LEMMA FilesStep == TInv /\ [Next]_vars => FilesType' /\ Within'
  <1> SUFFICES ASSUME TInv, [Next]_vars PROVE FilesType' /\ Within'
    OBVIOUS
  <1>1. CASE \E c \in Clients : Sends(c)
    BY <1>1, SendsTyped
  <1>2. CASE RebuildState
    <2>1. len' = len
      BY <1>2 DEF RebuildState, recVars
    <2>2. CASE vfs[Object].id = 0
      BY <1>2, <2>1, <2>2 DEF RebuildState, srvVars, TInv, FilesType, File, Within
    <2>3. CASE vfs[Object].id # 0
      BY <1>2, <2>1, <2>3, AsksTyped DEF RebuildState, Requests
    <2> QED BY <2>2, <2>3
  <1>3. CASE RebuildSeeks
    <2>1. len' = len /\ rebuild.at # "rest"
      BY <1>3 DEF RebuildSeeks, recVars
    <2>2. rebuild.res \in Nat /\ vfs[Object].offset \in Nat
      BY <1>3, <2>1, ObjectIsAClient
      DEF RebuildSeeks, TInv, RebuildType, VfsType, VfsFields, Results, Null
    <2>3. RebuildAsks("seek", rebuild.res, vfs[Object].offset, "seeked")
      BY <1>3 DEF RebuildSeeks
    <2> QED BY <2>1, <2>2, <2>3, AsksTyped DEF Requests
  <1>4. CASE RebuildCloses
    <2>1. len' = len /\ lastId' = lastId /\ rebuild.at # "rest"
      BY <1>4 DEF RebuildCloses, recVars
    <2>2. vfs[Object].id \in Nat /\ Object \in Clients
      BY <2>1, ObjectIsAClient DEF TInv, VfsType, VfsFields
    <2>3. CASE files' = files
      BY <2>1, <2>3 DEF TInv, FilesType, File, Within
    <2>4. CASE files' = Executes("close", vfs[Object].id, Object, 0).files
      <3>1. files' = files \/ files' = [i \in DOMAIN files \ {vfs[Object].id} |-> files[i]]
        <4>1. CASE vfs[Object].id \in DOMAIN files
          BY <2>4, <4>1, Closes, SMTT(30) DEF Outcome
        <4>2. CASE vfs[Object].id \notin DOMAIN files
          BY <2>4, <4>2, NamesNothing DEF Outcome, Requests
        <4> QED BY <4>1, <4>2
      <3> QED BY <2>1, <3>1 DEF TInv, FilesType, File, Within
    <2> QED BY <1>4, <2>3, <2>4 DEF RebuildCloses
  <1>5. CASE Loses
    BY <1>5 DEF Loses, Empty, FilesType, File, Within
  <1>6. CASE Tick
    <2>1. files' = files /\ lastId' = lastId
      BY <1>6 DEF Tick, srvVars
    <2>2. \A c \in Clients : len[c] \in Nat /\ len'[c] \in Nat /\ len[c] <= len'[c]
      BY <1>6 DEF Tick, TInv, RecsType
    <2> QED BY <2>1, <2>2 DEF TInv, FilesType, File, Within
  <1>7. CASE UNCHANGED <<files, lastId, len>>
    BY <1>7 DEF TInv, FilesType, File, Within
  <1>8. Kodi => UNCHANGED <<files, lastId, len>>
    BY DEF Kodi, OpenRecordedStream, ReadRecordedStream, SeekRecordedStream, LengthRecordedStream,
           Pauses, Resumes, CloseRecordedStream, srvVars, recVars
  <1>9. Continues => (\E c \in Clients : Sends(c)) \/ UNCHANGED <<files, lastId, len>>
    BY DEF Continues, GateTimesOut, OpenReturns, ReadRetries, ReadReturns, SeekReturns, SizeReturns,
           LengthReturns, CloseReturns, srvVars, recVars
  <1>10. SyncInitCompleted \/ RebuildSought \/ Reconnects \/ Registers \/ Changes \/ UNCHANGED vars
           => UNCHANGED <<files, lastId, len>>
    BY DEF SyncInitCompleted, RebuildSought, Reconnects, Registers, Changes, vars, srvVars, recVars
  <1> QED BY <1>1, <1>2, <1>3, <1>4, <1>5, <1>6, <1>7, <1>8, <1>9, <1>10 DEF Next, Rebuilds

\* A client's call is made, goes on, or ends.
LEMMA AskIs ==
  ASSUME TInv, NEW c \in Clients, NEW op \in Requests, NEW o \in Clients, NEW arg \in Nat,
         NEW tries \in 0..Tries
  PROVE  /\ Asks(c, op, o, arg, tries) \in CallFields
         /\ Asks(c, op, o, arg, tries) = [op |-> op, at |-> "gate", obj |-> o, file |-> vfs[o].id,
                                          arg |-> arg, res |-> Null, tries |-> tries]
  <1>1. vfs[o].id \in Nat
    BY DEF TInv, VfsType, VfsFields
  <1>2. Asks(c, op, o, arg, tries) = [op |-> op, at |-> "gate", obj |-> o, file |-> vfs[o].id,
                                      arg |-> arg, res |-> Null, tries |-> tries]
    <2> DEFINE f == vfs[o].id
    <2>1. Asks(c, op, o, arg, tries) = [Idle EXCEPT !.op = op, !.at = "gate", !.obj = o, !.file = f,
                                                    !.arg = arg, !.tries = tries]
      BY DEF Asks
    <2> HIDE DEF f
    <2>2. Asks(c, op, o, arg, tries) = [op |-> op, at |-> "gate", obj |-> o, file |-> f,
                                        arg |-> arg, res |-> Null, tries |-> tries]
      BY <2>1 DEF Idle, Null
    <2> QED BY <2>2 DEF f
  <1> QED BY <1>1, <1>2 DEF CallFields, Results

\* A call that is over.
LEMMA IdleIs == Idle \in CallFields /\ Idle.op = "none" /\ Idle.at = "idle"
  BY RecordedAssumption DEF Idle, CallFields, Results, Null

\* A call that is replaced by a sound one.
LEMMA CallSet ==
  ASSUME TInv, NEW c \in Clients, NEW x \in CallFields, call' = [call EXCEPT ![c] = x],
         \A d \in Clients \ {c} : handle'[d] = handle[d],
         x.at # "idle" <=> x.op # "none", x.at # "idle" => x.obj \in Clients,
         x.op = "open" => x.res # 0 /\ handle'[c] = 0
  PROVE  CallType'
  <1>1. call' \in [Clients -> CallFields] /\ call'[c] = x /\ \A d \in Clients \ {c} : call'[d] = call[d]
    BY DEF TInv, CallType
  <1>2. \A d \in Clients : Sound(d)'
    BY <1>1 DEF TInv, CallType, Sound, Active
  <1> QED BY <1>1, <1>2 DEF CallType

\* A request names the object and its file.
LEMMA AskSet ==
  ASSUME TInv, NEW c \in Clients, NEW op \in Requests \ {"open"}, NEW o \in Clients, NEW arg \in Nat,
         NEW tries \in 0..Tries, call' = [call EXCEPT ![c] = Asks(c, op, o, arg, tries)],
         \A d \in Clients \ {c} : handle'[d] = handle[d]
  PROVE  CallType'
  <1>1. Asks(c, op, o, arg, tries) \in CallFields
        /\ Asks(c, op, o, arg, tries) = [op |-> op, at |-> "gate", obj |-> o, file |-> vfs[o].id,
                                          arg |-> arg, res |-> Null, tries |-> tries]
    BY AskIs
  <1> QED BY <1>1, CallSet DEF Requests

\* A call that ends.
LEMMA ReturnSet ==
  ASSUME TInv, NEW c \in Clients, Returns(c), \A d \in Clients \ {c} : handle'[d] = handle[d]
  PROVE  CallType'
  BY IdleIs, CallSet DEF Returns

\* Every step keeps the calls sound.
LEMMA CallStep == TInv /\ [Next]_vars => CallType'
  <1> SUFFICES ASSUME TInv, [Next]_vars PROVE CallType'
    OBVIOUS
  <1> USE RecordedAssumption
  <1>1. ASSUME NEW c \in Clients, OpenRecordedStream(c) PROVE CallType'
    <2> DEFINE x == [Asks(c, "open", c, 0, 0) EXCEPT !.file = 0]
    <2>0. Asks(c, "open", c, 0, 0) \in CallFields
          /\ Asks(c, "open", c, 0, 0) = [op |-> "open", at |-> "gate", obj |-> c, file |-> vfs[c].id,
                                          arg |-> 0, res |-> Null, tries |-> 0]
      BY AskIs DEF Requests
    <2>1. x \in CallFields /\ x.op = "open" /\ x.at = "gate" /\ x.obj = c /\ x.res = Null
      BY <2>0 DEF CallFields, Results
    <2>2. call' = [call EXCEPT ![c] = x] /\ handle' = handle /\ handle[c] = 0
      BY <1>1 DEF OpenRecordedStream, kodiVars
    <2> HIDE DEF x
    <2>3. x.res # 0 /\ handle'[c] = 0 /\ \A d \in Clients \ {c} : handle'[d] = handle[d]
      BY <2>1, <2>2 DEF Null
    <2>4. x.at # "idle" /\ x.op # "none" /\ x.obj \in Clients
      BY <2>1
    <2> QED BY <2>1, <2>2, <2>3, <2>4, CallSet
  <1>2. ASSUME NEW c \in Clients, ReadRecordedStream(c) PROVE CallType'
    <2>1. PICK o \in Clients :
            call' = [call EXCEPT ![c] = Asks(c, "read", o, 1, IF InProgress(o) THEN Tries ELSE 1)]
      BY <1>2 DEF ReadRecordedStream
    <2>2. (IF InProgress(o) THEN Tries ELSE 1) \in 0..Tries
      OBVIOUS
    <2>3. handle' = handle
      BY <1>2 DEF ReadRecordedStream, kodiVars
    <2> QED BY <2>1, <2>2, <2>3, AskSet DEF Requests
  <1>3. ASSUME NEW c \in Clients, SeekRecordedStream(c) PROVE CallType'
    <2>1. PICK o \in Clients, pos \in 0..Length :
            call' = [call EXCEPT ![c] = Asks(c, "seek", o, pos, IF InProgress(o) THEN 1 ELSE 0)]
      BY <1>3 DEF SeekRecordedStream
    <2>2. (IF InProgress(o) THEN 1 ELSE 0) \in 0..Tries /\ pos \in Nat
      OBVIOUS
    <2>3. handle' = handle
      BY <1>3 DEF SeekRecordedStream, kodiVars
    <2> QED BY <2>1, <2>2, <2>3, AskSet DEF Requests
  <1>4. ASSUME NEW c \in Clients, LengthRecordedStream(c) PROVE CallType'
    <2>1. PICK o \in Clients : call' = [call EXCEPT ![c] = Asks(c, "length", o, 0, 0)]
      BY <1>4 DEF LengthRecordedStream
    <2>2. handle' = handle
      BY <1>4 DEF LengthRecordedStream, kodiVars
    <2> QED BY <2>1, <2>2, AskSet, 0 \in 0..Tries DEF Requests
  <1>5. ASSUME NEW c \in Clients, CloseRecordedStream(c) PROVE CallType'
    <2>1. PICK o \in Clients : \/ call' = [call EXCEPT ![c] = Asks(c, "close", o, 0, 0)]
                               \/ call' = call
      BY <1>5 DEF CloseRecordedStream
    <2>2. handle' = [handle EXCEPT ![c] = 0]
      BY <1>5 DEF CloseRecordedStream
    <2>3. CASE call' = call
      BY <2>2, <2>3 DEF TInv, MapType, CallType, CallFields, Sound, Active
    <2>4. \A d \in Clients \ {c} : handle'[d] = handle[d]
      BY <2>2 DEF TInv, MapType
    <2>5. CASE call' = [call EXCEPT ![c] = Asks(c, "close", o, 0, 0)]
      BY <2>4, <2>5, AskSet, 0 \in 0..Tries DEF Requests
    <2> QED BY <2>1, <2>3, <2>5
  <1>6. ASSUME NEW c \in Clients, Sends(c) PROVE CallType'
    <2>1. PICK res \in Results : /\ call' = [call EXCEPT ![c].at = "wait", ![c].res = res]
                                 /\ call[c].op = "open" => res # 0
      BY <1>6, SendsTyped
    <2> DEFINE x == [call[c] EXCEPT !.at = "wait", !.res = res]
    <2>2. /\ call[c] \in CallFields /\ call[c].op # "none" /\ call[c].obj \in Clients
          /\ call[c].op = "open" => handle[c] = 0
      BY <1>6 DEF Sends, TInv, CallType, Sound, Active
    <2>3. x \in CallFields /\ x.at = "wait" /\ x.res = res /\ x.op = call[c].op /\ x.obj = call[c].obj
      BY <2>2 DEF CallFields
    <2>4. call' = [call EXCEPT ![c] = x] /\ handle' = handle
      BY <1>6, <2>1 DEF Sends, kodiVars
    <2> HIDE DEF x
    <2> QED BY <2>1, <2>2, <2>3, <2>4, CallSet
  <1>7. ASSUME NEW c \in Clients, GateTimesOut(c) PROVE CallType'
    <2> DEFINE x == [call[c] EXCEPT !.at = "wait"]
    <2>1. /\ call[c] \in CallFields /\ call[c].op # "none" /\ call[c].obj \in Clients
          /\ call[c].op = "open" => call[c].res # 0 /\ handle[c] = 0
      BY <1>7 DEF GateTimesOut, TInv, CallType, Sound, Active
    <2>2. /\ x \in CallFields /\ x.at = "wait" /\ x.res = call[c].res /\ x.op = call[c].op
          /\ x.obj = call[c].obj
      BY <2>1 DEF CallFields
    <2>3. call' = [call EXCEPT ![c] = x] /\ handle' = handle
      BY <1>7 DEF GateTimesOut, kodiVars
    <2> HIDE DEF x
    <2> QED BY <2>1, <2>2, <2>3, CallSet
  <1>8. ASSUME NEW c \in Clients, OpenReturns(c) PROVE CallType'
    <2>1. \A d \in Clients \ {c} : handle'[d] = handle[d]
      BY <1>8 DEF OpenReturns, TInv, MapType
    <2> QED BY <1>8, <2>1, ReturnSet DEF OpenReturns
  <1>9. ASSUME NEW c \in Clients, ReadRetries(c) PROVE CallType'
    <2>1. call[c] \in CallFields /\ call[c].obj \in Clients /\ call[c].tries - 1 \in 0..Tries
      BY <1>9 DEF ReadRetries, Answered, TInv, CallType, CallFields, Sound, Active
    <2>2. /\ call' = [call EXCEPT ![c] = Asks(c, "read", call[c].obj, 1, call[c].tries - 1)]
          /\ handle' = handle
      BY <1>9 DEF ReadRetries, kodiVars
    <2> QED BY <2>1, <2>2, AskSet DEF Requests
  <1>10. ASSUME NEW c \in Clients, SeekReturns(c) PROVE CallType'
    <2>1. \/ call' = [call EXCEPT ![c] = Asks(c, "size", call[c].obj, now, 0)]
          \/ Returns(c)
      BY <1>10 DEF SeekReturns, Returns
    <2>2. call[c].obj \in Clients /\ now \in Nat /\ handle' = handle
      BY <1>10 DEF SeekReturns, Answered, TInv, CallType, Sound, Active, Counters
    <2>3. CASE call' = [call EXCEPT ![c] = Asks(c, "size", call[c].obj, now, 0)]
      BY <2>2, <2>3, AskSet, 0 \in 0..Tries DEF Requests
    <2> QED BY <2>1, <2>2, <2>3, ReturnSet
  <1>11. ASSUME NEW c \in Clients, ReadReturns(c) \/ SizeReturns(c) \/ LengthReturns(c) \/ CloseReturns(c)
         PROVE  CallType'
    <2>1. Returns(c) /\ handle' = handle
      BY <1>11 DEF ReadReturns, SizeReturns, LengthReturns, CloseReturns, kodiVars
    <2> QED BY <2>1, ReturnSet
  <1>12. CASE UNCHANGED <<call, handle>>
    BY <1>12 DEF TInv, CallType, CallFields, Sound, Active
  <1>13. \A c \in Clients : Pauses(c) \/ Resumes(c) => UNCHANGED <<call, handle>>
    BY DEF Pauses, Resumes, kodiVars
  <1>14. Rebuilds \/ Loses \/ Reconnects \/ Registers \/ Changes \/ Tick \/ UNCHANGED vars
           => UNCHANGED <<call, handle>>
    BY DEF Rebuilds, SyncInitCompleted, RebuildState, RebuildSeeks, RebuildSought, RebuildCloses, Loses,
           Reconnects, Registers, Changes, Tick, vars, kodiVars
  <1>15. Kodi => CallType'
    BY <1>1, <1>2, <1>3, <1>4, <1>5, <1>12, <1>13 DEF Kodi
  <1>16. Continues => CallType'
    BY <1>6, <1>7, <1>8, <1>9, <1>10, <1>11 DEF Continues
  <1> QED BY <1>12, <1>14, <1>15, <1>16 DEF Next

\* Entries of m_vfs come when a file is open and go when Kodi closes the stream.
LEMMA MapStep == TInv /\ [Next]_vars => MapType' /\ Named'
  <1> SUFFICES ASSUME TInv, [Next]_vars PROVE MapType' /\ Named'
    OBVIOUS
  <1>1. ASSUME NEW c \in Clients, OpenReturns(c) PROVE MapType' /\ Named'
    <2> DEFINE id == call[c].res
    <2>1. id \in Results /\ id # 0 /\ handle[c] = 0
      BY <1>1 DEF OpenReturns, Answered, TInv, CallType, CallFields, Sound, Active
    <2>2. CASE id = Null
      <3>1. mVfs' = mVfs /\ handle' = handle
        BY <1>1, <2>2 DEF OpenReturns
      <3> QED BY <3>1 DEF TInv, MapType, Named
    <2>3. CASE id # Null
      <3>1. mVfs' = Inserted(id, c) /\ handle' = [handle EXCEPT ![c] = id] /\ id \in Nat
        BY <1>1, <2>1, <2>3 DEF OpenReturns, Results
      <3> HIDE DEF id
      <3>2. /\ DOMAIN mVfs' = DOMAIN mVfs \cup {id}
            /\ \A i \in DOMAIN mVfs : mVfs'[i] = mVfs[i]
            /\ id \notin DOMAIN mVfs => mVfs'[id] = c
            /\ mVfs' \in [DOMAIN mVfs' -> Clients]
        <4>1. CASE id \in DOMAIN mVfs
          BY <3>1, <4>1 DEF Inserted, TInv, MapType
        <4>2. CASE id \notin DOMAIN mVfs
          BY <3>1, <4>2 DEF Inserted, TInv, MapType
        <4> QED BY <4>1, <4>2
      <3>3. \A i \in DOMAIN mVfs : mVfs[i] # c /\ handle'[mVfs[i]] = handle[mVfs[i]]
        BY <2>1, <3>1 DEF TInv, MapType, Named
      <3>4. handle' \in [Clients -> Nat] /\ handle'[c] = id
        BY <3>1 DEF TInv, MapType
      <3>5. Named'
        BY <2>1, <3>2, <3>3, <3>4 DEF TInv, Named
      <3> QED BY <3>1, <3>2, <3>4, <3>5 DEF TInv, MapType
    <2> QED BY <2>2, <2>3
  <1>2. ASSUME NEW c \in Clients, CloseRecordedStream(c) PROVE MapType' /\ Named'
    <2>1. /\ mVfs' = [i \in DOMAIN mVfs \ {handle[c]} |-> mVfs[i]]
          /\ handle' = [handle EXCEPT ![c] = 0]
      BY <1>2 DEF CloseRecordedStream
    <2>2. \A i \in DOMAIN mVfs' : mVfs[i] # c
      BY <2>1 DEF TInv, Named
    <2> QED BY <2>1, <2>2 DEF TInv, MapType, Named
  <1>3. CASE UNCHANGED <<mVfs, handle>>
    BY <1>3 DEF TInv, MapType, Named
  <1>4. Kodi => (\E c \in Clients : CloseRecordedStream(c)) \/ UNCHANGED <<mVfs, handle>>
    BY DEF Kodi, OpenRecordedStream, ReadRecordedStream, SeekRecordedStream, LengthRecordedStream,
           Pauses, Resumes, kodiVars
  <1>5. Continues => (\E c \in Clients : OpenReturns(c)) \/ UNCHANGED <<mVfs, handle>>
    BY DEF Continues, Sends, GateTimesOut, ReadRetries, ReadReturns, SeekReturns, SizeReturns,
           LengthReturns, CloseReturns, kodiVars
  <1>6. Rebuilds \/ Loses \/ Reconnects \/ Registers \/ Changes \/ Tick \/ UNCHANGED vars
           => UNCHANGED <<mVfs, handle>>
    BY DEF Rebuilds, SyncInitCompleted, RebuildState, RebuildSeeks, RebuildSought, RebuildCloses, Loses,
           Reconnects, Registers, Changes, Tick, vars, kodiVars
  <1> QED BY <1>1, <1>2, <1>3, <1>4, <1>5, <1>6 DEF Next

\* The fields of an object.
LEMMA VfsSet ==
  ASSUME TInv, NEW o \in Clients, NEW v \in VfsFields, vfs' = [vfs EXCEPT ![o] = v],
         v.real <=> v.eof \in 0..(RealTime - 1), v.paused => v.pausedAt # 0
  PROVE  VfsType' /\ PauseKnown'
  <1>1. vfs' \in [Clients -> VfsFields] /\ vfs'[o] = v /\ \A d \in Clients \ {o} : vfs'[d] = vfs[d]
    BY DEF TInv, VfsType
  <1> QED BY <1>1 DEF TInv, VfsType, PauseKnown

\* The fields of a closed object.
LEMMA ClosedIs == /\ Closed \in VfsFields /\ Closed.paused = FALSE /\ Closed.eof = -1
                  /\ Closed.id = 0 /\ Closed.offset = 0
                  /\ Closed.real <=> Closed.eof \in 0..(RealTime - 1)
  BY DEF Closed, VfsFields

\* An object that is closed.
LEMMA ClosedSet ==
  ASSUME TInv, NEW o \in Clients, vfs' = [vfs EXCEPT ![o] = Closed]
  PROVE  VfsType' /\ PauseKnown'
  BY ClosedIs, VfsSet

\* WithEof sets the distance to the end, and whether the stream is real-time.
LEMMA EofIs ==
  ASSUME NEW v \in VfsFields, NEW eof \in Int
  PROVE  /\ WithEof(v, eof) \in VfsFields
         /\ WithEof(v, eof).real <=> WithEof(v, eof).eof \in 0..(RealTime - 1)
         /\ WithEof(v, eof).eof = eof /\ WithEof(v, eof).id = v.id
         /\ WithEof(v, eof).offset = v.offset /\ WithEof(v, eof).paused = v.paused
         /\ WithEof(v, eof).pausedAt = v.pausedAt
  <1> DEFINE b == eof >= 0 /\ eof < RealTime
  <1>1. b \in BOOLEAN /\ (b <=> eof \in 0..(RealTime - 1))
    BY RecordedAssumption
  <1>2. WithEof(v, eof) = [v EXCEPT !.eof = eof, !.real = b]
    BY DEF WithEof
  <1> HIDE DEF b
  <1> QED BY <1>1, <1>2 DEF VfsFields

\* The distance to the end is a number, whatever the server says.
LEMMA DistanceIs ==
  ASSUME NEW size \in Results, NEW time \in Nat, NEW offset \in Nat
  PROVE  Distance(size, time, offset) \in Int
  <1> DEFINE rate == IF time > 0 THEN size \div time ELSE 0
  <1>1. rate \in Int
    BY DEF Results, Null
  <1>2. Distance(size, time, offset) =
          IF rate <= 0 THEN -1 ELSE IF size > offset THEN (size - offset) \div rate ELSE 0
    BY DEF Distance
  <1> HIDE DEF rate
  <1>3. rate > 0 => (size - offset) \div rate \in Int
    BY <1>1 DEF Results, Null
  <1> QED BY <1>1, <1>2, <1>3

\* Every step keeps the objects.
LEMMA VfsStep == TInv /\ [Next]_vars => VfsType' /\ PauseKnown'
  <1> SUFFICES ASSUME TInv, [Next]_vars PROVE VfsType' /\ PauseKnown'
    OBVIOUS
  <1>a. \A o \in Clients : /\ vfs[o] \in VfsFields /\ (vfs[o].real <=> vfs[o].eof \in 0..(RealTime - 1))
                           /\ vfs[o].paused => vfs[o].pausedAt # 0
    BY DEF TInv, VfsType, PauseKnown
  <1>b. now \in Nat /\ now # 0
    BY DEF TInv, Counters, KodiType
  <1>1. ASSUME NEW c \in Clients, OpenRecordedStream(c) PROVE VfsType' /\ PauseKnown'
    BY <1>1, ClosedSet DEF OpenRecordedStream
  <1>2. ASSUME NEW c \in Clients, Pauses(c) PROVE VfsType' /\ PauseKnown'
    <2>1. PICK o \in Clients : vfs' = [vfs EXCEPT ![o].paused = TRUE, ![o].pausedAt = now]
      BY <1>2 DEF Pauses
    <2> DEFINE v == [vfs[o] EXCEPT !.paused = TRUE, !.pausedAt = now]
    <2>2. v \in VfsFields /\ v.real = vfs[o].real /\ v.eof = vfs[o].eof /\ v.pausedAt = now
      BY <1>a, <1>b DEF VfsFields
    <2>3. vfs' = [vfs EXCEPT ![o] = v]
      BY <2>1
    <2> HIDE DEF v
    <2> QED BY <1>a, <1>b, <2>2, <2>3, VfsSet
  <1>3. ASSUME NEW c \in Clients, Resumes(c) PROVE VfsType' /\ PauseKnown'
    <2>1. PICK o \in Clients, eof \in Int :
            vfs' = [vfs EXCEPT ![o] = [WithEof(vfs[o], eof) EXCEPT !.paused = FALSE, !.pausedAt = 0]]
      <3>1. PICK o \in Clients :
              LET v == vfs[o]
                  eof == IF v.eof >= 0 /\ v.pausedAt > 0 THEN v.eof + (now - v.pausedAt) ELSE v.eof
              IN vfs' = [vfs EXCEPT ![o] = [WithEof(v, eof) EXCEPT !.paused = FALSE, !.pausedAt = 0]]
        BY <1>3 DEF Resumes
      <3> DEFINE eof == IF vfs[o].eof >= 0 /\ vfs[o].pausedAt > 0
                        THEN vfs[o].eof + (now - vfs[o].pausedAt) ELSE vfs[o].eof
      <3>2. eof \in Int
        BY <1>a, <1>b DEF VfsFields
      <3>3. vfs' = [vfs EXCEPT ![o] = [WithEof(vfs[o], eof) EXCEPT !.paused = FALSE, !.pausedAt = 0]]
        BY <3>1
      <3> HIDE DEF eof
      <3> QED BY <3>2, <3>3
    <2> DEFINE w == WithEof(vfs[o], eof)
               v == [w EXCEPT !.paused = FALSE, !.pausedAt = 0]
    <2>3. vfs' = [vfs EXCEPT ![o] = v]
      BY <2>1
    <2>4. w \in VfsFields /\ (w.real <=> w.eof \in 0..(RealTime - 1))
      BY <1>a, EofIs
    <2> HIDE DEF w
    <2>2. /\ v \in VfsFields /\ v.real = w.real /\ v.eof = w.eof /\ v.paused = FALSE
          /\ v.real <=> v.eof \in 0..(RealTime - 1)
      BY <2>4 DEF VfsFields
    <2> HIDE DEF v
    <2> QED BY <2>2, <2>3, VfsSet
  <1>4. ASSUME NEW c \in Clients, CloseRecordedStream(c) PROVE VfsType' /\ PauseKnown'
    <2>1. PICK o \in Clients : vfs' = vfs \/ vfs' = [vfs EXCEPT ![o] = Closed]
      BY <1>4 DEF CloseRecordedStream
    <2>2. CASE vfs' = vfs
      BY <2>2 DEF TInv, VfsType, PauseKnown
    <2> QED BY <2>1, <2>2, ClosedSet
  <1>5. ASSUME NEW c \in Clients, OpenReturns(c) PROVE VfsType' /\ PauseKnown'
    <2>1. \/ vfs' = vfs
          \/ call[c].res # Null /\ vfs' = [vfs EXCEPT ![c].id = call[c].res]
      BY <1>5 DEF OpenReturns
    <2>2. CASE vfs' = vfs
      BY <2>2 DEF TInv, VfsType, PauseKnown
    <2>3. CASE call[c].res # Null /\ vfs' = [vfs EXCEPT ![c].id = call[c].res]
      <3> DEFINE v == [vfs[c] EXCEPT !.id = call[c].res]
      <3>1. call[c].res \in Nat
        BY <2>3 DEF TInv, CallType, CallFields, Results
      <3>2. v \in VfsFields /\ v.real = vfs[c].real /\ v.eof = vfs[c].eof /\ v.paused = vfs[c].paused
            /\ v.pausedAt = vfs[c].pausedAt
        BY <1>a, <3>1 DEF VfsFields
      <3>3. vfs' = [vfs EXCEPT ![c] = v]
        BY <2>3
      <3> HIDE DEF v
      <3> QED BY <1>a, <3>2, <3>3, VfsSet
    <2> QED BY <2>1, <2>2, <2>3
  <1>6. ASSUME NEW c \in Clients, ReadReturns(c) PROVE VfsType' /\ PauseKnown'
    <2> DEFINE o == call[c].obj
    <2>1. \/ vfs' = vfs
          \/ call[c].res > 0 /\ vfs' = [vfs EXCEPT ![o].offset = vfs[o].offset + call[c].res]
      BY <1>6 DEF ReadReturns, objVars
    <2>2. CASE vfs' = vfs
      BY <2>2 DEF TInv, VfsType, PauseKnown
    <2>3. CASE call[c].res > 0 /\ vfs' = [vfs EXCEPT ![o].offset = vfs[o].offset + call[c].res]
      <3> DEFINE v == [vfs[o] EXCEPT !.offset = vfs[o].offset + call[c].res]
      <3>1. call[c].res \in Nat /\ o \in Clients
        BY <1>6, <2>3 DEF ReadReturns, Answered, TInv, CallType, CallFields, Results, Null, Sound, Active
      <3>2. v \in VfsFields /\ v.real = vfs[o].real /\ v.eof = vfs[o].eof /\ v.paused = vfs[o].paused
            /\ v.pausedAt = vfs[o].pausedAt
        BY <1>a, <3>1 DEF VfsFields
      <3>3. vfs' = [vfs EXCEPT ![o] = v]
        BY <2>3
      <3> HIDE DEF v, o
      <3> QED BY <1>a, <3>1, <3>2, <3>3, VfsSet
    <2> QED BY <2>1, <2>2, <2>3
  <1>7. ASSUME NEW c \in Clients, SeekReturns(c) PROVE VfsType' /\ PauseKnown'
    <2> DEFINE o == call[c].obj
    <2>1. \/ vfs' = vfs
          \/ call[c].res # Null /\ vfs' = [vfs EXCEPT ![o].offset = call[c].res]
      BY <1>7 DEF SeekReturns
    <2>2. CASE vfs' = vfs
      BY <2>2 DEF TInv, VfsType, PauseKnown
    <2>3. CASE call[c].res # Null /\ vfs' = [vfs EXCEPT ![o].offset = call[c].res]
      <3> DEFINE v == [vfs[o] EXCEPT !.offset = call[c].res]
      <3>1. call[c].res \in Nat /\ o \in Clients
        BY <1>7, <2>3 DEF SeekReturns, Answered, TInv, CallType, CallFields, Results, Sound, Active
      <3>2. v \in VfsFields /\ v.real = vfs[o].real /\ v.eof = vfs[o].eof /\ v.paused = vfs[o].paused
            /\ v.pausedAt = vfs[o].pausedAt
        BY <1>a, <3>1 DEF VfsFields
      <3>3. vfs' = [vfs EXCEPT ![o] = v]
        BY <2>3
      <3> HIDE DEF v, o
      <3> QED BY <1>a, <3>1, <3>2, <3>3, VfsSet
    <2> QED BY <2>1, <2>2, <2>3
  <1>8. ASSUME NEW c \in Clients, SizeReturns(c) PROVE VfsType' /\ PauseKnown'
    <2> DEFINE o == call[c].obj
               eof == Distance(call[c].res, call[c].arg, vfs[o].offset)
               w == WithEof(vfs[o], eof)
               v == [w EXCEPT !.pausedAt = IF vfs[o].paused THEN now ELSE vfs[o].pausedAt]
    <2>1. call[c].res \in Results /\ call[c].arg \in Nat /\ o \in Clients
      BY <1>8 DEF SizeReturns, Answered, TInv, CallType, CallFields, Sound, Active
    <2>2. vfs' = [vfs EXCEPT ![o] = v]
      BY <1>8 DEF SizeReturns
    <2>3. eof \in Int
      BY <1>a, <2>1, DistanceIs DEF VfsFields
    <2> HIDE DEF o, eof
    <2>4. /\ w \in VfsFields /\ (w.real <=> w.eof \in 0..(RealTime - 1))
          /\ w.paused = vfs[o].paused
      BY <1>a, <2>1, <2>3, EofIs
    <2> HIDE DEF w
    <2>5. /\ v \in VfsFields /\ v.real = w.real /\ v.eof = w.eof /\ v.paused = w.paused
          /\ v.pausedAt = IF vfs[o].paused THEN now ELSE vfs[o].pausedAt
      BY <1>a, <1>b, <2>1, <2>4 DEF VfsFields
    <2> HIDE DEF v
    <2> QED BY <1>b, <2>1, <2>2, <2>4, <2>5, VfsSet
  <1>9. ASSUME NEW c \in Clients, CloseReturns(c) PROVE VfsType' /\ PauseKnown'
    <2>1. call[c].obj \in Clients
      BY <1>9 DEF CloseReturns, Answered, TInv, CallType, CallFields, Sound, Active
    <2> QED BY <1>9, <2>1, ClosedSet DEF CloseReturns
  <1>10. CASE RebuildSeeks \/ RebuildSought \/ RebuildCloses
    <2>1. Object \in Clients /\ rebuild.res \in Results
      BY <1>10, ObjectIsAClient DEF RebuildSeeks, RebuildSought, RebuildCloses, TInv, RebuildType
    <2>2. CASE RebuildSeeks
      <3> DEFINE v == [vfs[Object] EXCEPT !.id = rebuild.res]
      <3>1. v \in VfsFields /\ v.real = vfs[Object].real /\ v.eof = vfs[Object].eof
            /\ v.paused = vfs[Object].paused /\ v.pausedAt = vfs[Object].pausedAt
        BY <1>a, <2>1, <2>2 DEF RebuildSeeks, VfsFields, Results
      <3>2. vfs' = [vfs EXCEPT ![Object] = v]
        BY <2>2 DEF RebuildSeeks
      <3> HIDE DEF v
      <3> QED BY <1>a, <2>1, <3>1, <3>2, VfsSet
    <2>3. CASE RebuildSought /\ rebuild.res # Null
      <3> DEFINE v == [vfs[Object] EXCEPT !.offset = rebuild.res]
      <3>1. v \in VfsFields /\ v.real = vfs[Object].real /\ v.eof = vfs[Object].eof
            /\ v.paused = vfs[Object].paused /\ v.pausedAt = vfs[Object].pausedAt
        BY <1>a, <2>1, <2>3 DEF VfsFields, Results
      <3>2. vfs' = [vfs EXCEPT ![Object] = v]
        BY <2>3 DEF RebuildSought
      <3> HIDE DEF v
      <3> QED BY <1>a, <2>1, <3>1, <3>2, VfsSet
    <2>4. CASE RebuildSought /\ rebuild.res = Null
      BY <2>4 DEF RebuildSought, TInv, VfsType, PauseKnown
    <2>5. CASE RebuildCloses
      BY <2>1, <2>5, ClosedSet DEF RebuildCloses
    <2> QED BY <1>10, <2>2, <2>3, <2>4, <2>5
  <1>11. CASE UNCHANGED vfs
    BY <1>11 DEF TInv, VfsType, PauseKnown
  <1>12. Kodi => VfsType' /\ PauseKnown'
    BY <1>1, <1>2, <1>3, <1>4, <1>11
    DEF Kodi, ReadRecordedStream, SeekRecordedStream, LengthRecordedStream, objVars
  <1>13. Continues => VfsType' /\ PauseKnown'
    BY <1>5, <1>6, <1>7, <1>8, <1>9, <1>11
    DEF Continues, Sends, GateTimesOut, ReadRetries, LengthReturns, objVars
  <1>14. SyncInitCompleted \/ RebuildState \/ Loses \/ Reconnects \/ Registers \/ Changes \/ Tick
         \/ UNCHANGED vars => UNCHANGED vfs
    BY DEF SyncInitCompleted, RebuildState, Loses, Reconnects, Registers, Changes, Tick, vars, objVars
  <1> QED BY <1>10, <1>11, <1>12, <1>13, <1>14 DEF Next, Rebuilds

\* m_vfs does not change while the Process thread goes through it.
LEMMA NextObjectTyped ==
  ASSUME TInv, rebuild.at # "rest", rebuild' = NextObject, mVfs' = mVfs
  PROVE  RebuildType'
  <1> DEFINE others == rebuild.todo \ {Min(rebuild.todo)}
  <1>1. others \subseteq DOMAIN mVfs
    BY DEF TInv, RebuildType
  <1>2. CASE others = {}
    <2>1. rebuild' = Rest
      BY <1>2 DEF NextObject
    <2> QED BY <2>1 DEF Rest, RebuildType, Free, Results, Null
  <1>3. CASE others # {}
    <2>1. rebuild' = [Rest EXCEPT !.at = "open", !.todo = others]
      BY <1>3 DEF NextObject
    <2> HIDE DEF others
    <2>2. rebuild' = [at |-> "open", todo |-> others, res |-> Null]
      BY <2>1 DEF Rest, Null
    <2> QED BY <1>1, <1>3, <2>2 DEF RebuildType, Free, Results
  <1> QED BY <1>2, <1>3

\* Every step keeps the rebuild within the streams there are.
LEMMA RebuildStep == TInv /\ [Next]_vars => RebuildType'
  <1> SUFFICES ASSUME TInv, [Next]_vars PROVE RebuildType'
    OBVIOUS
  <1>1. CASE SyncInitCompleted
    <2>1. mVfs' = mVfs
      BY <1>1 DEF SyncInitCompleted
    <2>2. CASE DOMAIN mVfs = {}
      <3>1. rebuild' = Rest
        BY <1>1, <2>2 DEF SyncInitCompleted
      <3> QED BY <2>1, <3>1 DEF Rest, RebuildType, Free, Results, Null
    <2>3. CASE DOMAIN mVfs # {}
      <3>1. rebuild' = [Rest EXCEPT !.at = "open", !.todo = DOMAIN mVfs]
        BY <1>1, <2>3 DEF SyncInitCompleted
      <3>2. rebuild' = [at |-> "open", todo |-> DOMAIN mVfs, res |-> Null]
        BY <3>1 DEF Rest, Null
      <3> QED BY <2>1, <2>3, <3>2 DEF RebuildType, Free, Results
    <2> QED BY <2>2, <2>3
  <1>2. CASE RebuildState
    <2>1. mVfs' = mVfs /\ len' = len /\ rebuild.at # "rest"
      BY <1>2 DEF RebuildState, recVars
    <2>2. CASE vfs[Object].id = 0
      BY <1>2, <2>1, <2>2, NextObjectTyped DEF RebuildState
    <2>3. CASE vfs[Object].id # 0
      <3>1. /\ rebuild' = [rebuild EXCEPT !.at = "opened", !.res = rebuild'.res]
            /\ rebuild'.res \in Results
        <4>1. RebuildAsks("open", 0, 0, "opened")
          BY <1>2, <2>3 DEF RebuildState
        <4>2. "open" \in Requests /\ 0 \in Nat
          BY DEF Requests
        <4> QED BY <2>1, <4>1, <4>2, AsksTyped
      <3> QED BY <2>1, <3>1 DEF TInv, RebuildType, Free
    <2> QED BY <2>2, <2>3
  <1>3. CASE RebuildSeeks
    <2>1. mVfs' = mVfs /\ len' = len /\ rebuild.at # "rest"
      BY <1>3 DEF RebuildSeeks, recVars
    <2>2. rebuild.res \in Nat /\ vfs[Object].offset \in Nat
      BY <1>3, <2>1, ObjectIsAClient
      DEF RebuildSeeks, TInv, RebuildType, VfsType, VfsFields, Results, Null
    <2>3. /\ rebuild' = [rebuild EXCEPT !.at = "seeked", !.res = rebuild'.res]
          /\ rebuild'.res \in Results
      <3>1. RebuildAsks("seek", rebuild.res, vfs[Object].offset, "seeked")
        BY <1>3 DEF RebuildSeeks
      <3>2. "seek" \in Requests
        BY DEF Requests
      <3> QED BY <2>1, <2>2, <3>1, <3>2, AsksTyped
    <2> QED BY <2>1, <2>3 DEF TInv, RebuildType, Free
  <1>4. CASE RebuildSought \/ RebuildCloses
    <2>1. mVfs' = mVfs /\ rebuild.at # "rest" /\ rebuild' = NextObject
      BY <1>4 DEF RebuildSought, RebuildCloses
    <2> QED BY <2>1, NextObjectTyped
  <1>5. CASE UNCHANGED rebuild /\ (UNCHANGED mVfs \/ rebuild.at = "rest")
    BY <1>5 DEF TInv, RebuildType, Free
  <1>6. ASSUME NEW c \in Clients, OpenReturns(c) PROVE RebuildType'
    BY <1>5, <1>6 DEF OpenReturns, Free
  <1>7. ASSUME NEW c \in Clients, CloseRecordedStream(c) PROVE RebuildType'
    BY <1>5, <1>7 DEF CloseRecordedStream, Finds, Free
  <1>8. Kodi => RebuildType'
    BY <1>5, <1>7 DEF Kodi, OpenRecordedStream, ReadRecordedStream, SeekRecordedStream,
                      LengthRecordedStream, Pauses, Resumes
  <1>9. Continues => RebuildType'
    BY <1>5, <1>6 DEF Continues, Sends, GateTimesOut, ReadRetries, ReadReturns, SeekReturns,
                      SizeReturns, LengthReturns, CloseReturns
  <1>10. Loses \/ Reconnects \/ Registers \/ Changes \/ Tick \/ UNCHANGED vars => RebuildType'
    BY <1>5 DEF Loses, Reconnects, Registers, Changes, Tick, vars
  <1> QED BY <1>1, <1>2, <1>3, <1>4, <1>8, <1>9, <1>10 DEF Next, Rebuilds

\* The connection, the recordings, the clock and what is counted.
LEMMA LinkStep == TInv /\ [Next]_vars => LinkType' /\ RecsType'
  <1> SUFFICES ASSUME TInv, [Next]_vars PROVE LinkType' /\ RecsType'
    OBVIOUS
  <1>1. CASE SyncInitCompleted
    BY <1>1 DEF SyncInitCompleted, TInv, LinkType, RecsType, recVars
  <1>2. CASE Loses
    BY <1>2, RecordedAssumption DEF Loses, TInv, LinkType, RecsType, recVars
  <1>3. CASE Reconnects \/ Registers
    BY <1>3 DEF Reconnects, Registers, TInv, LinkType, RecsType, recVars
  <1>4. CASE Changes
    BY <1>4 DEF Changes, TInv, LinkType, RecsType, linkVars
  <1>5. CASE Tick
    <2>1. recs' = recs /\ len' \in [Clients -> Nat]
      BY <1>5 DEF Tick, TInv, RecsType
    <2> QED BY <1>5, <2>1 DEF Tick, TInv, LinkType, RecsType, linkVars
  <1>6. CASE UNCHANGED <<linkVars, recs, len>>
    BY <1>6 DEF TInv, LinkType, RecsType, linkVars
  <1>7. Kodi => UNCHANGED <<linkVars, recs, len>>
    BY DEF Kodi, OpenRecordedStream, ReadRecordedStream, SeekRecordedStream, LengthRecordedStream,
           Pauses, Resumes, CloseRecordedStream, recVars
  <1>8. Continues => UNCHANGED <<linkVars, recs, len>>
    BY DEF Continues, Sends, GateTimesOut, OpenReturns, ReadRetries, ReadReturns, SeekReturns,
           SizeReturns, LengthReturns, CloseReturns, recVars
  <1>9. RebuildState \/ RebuildSeeks \/ RebuildSought \/ RebuildCloses \/ UNCHANGED vars
          => UNCHANGED <<linkVars, recs, len>>
    BY DEF RebuildState, RebuildSeeks, RebuildSought, RebuildCloses, vars, recVars
  <1> QED BY <1>1, <1>2, <1>3, <1>4, <1>5, <1>6, <1>7, <1>8, <1>9 DEF Next, Rebuilds

\* Every step keeps the clock and the bounds.
LEMMA CounterStep == TInv /\ [Next]_vars => Counters' /\ KodiType'
  <1> SUFFICES ASSUME TInv, [Next]_vars PROVE Counters' /\ KodiType'
    OBVIOUS
  <1> USE RecordedAssumption
  <1>1. now' \in 0..MaxTime /\ now' # 0
    <2>1. Kodi => now' = now \/ (now < MaxTime /\ now' = now + 1)
      BY DEF Kodi, OpenRecordedStream, ReadRecordedStream, SeekRecordedStream, LengthRecordedStream,
             Pauses, Resumes, CloseRecordedStream, recVars
    <2>2. Continues => now' = now \/ (now < MaxTime /\ now' = now + 1)
      BY DEF Continues, Sends, GateTimesOut, OpenReturns, ReadRetries, ReadReturns, SeekReturns,
             SizeReturns, LengthReturns, CloseReturns, recVars
    <2>3. Rebuilds \/ Loses \/ Reconnects \/ Registers \/ Changes \/ Tick \/ UNCHANGED vars
             => now' = now \/ (now < MaxTime /\ now' = now + 1)
      BY DEF Rebuilds, SyncInitCompleted, RebuildState, RebuildSeeks, RebuildSought, RebuildCloses,
             Loses, Reconnects, Registers, Changes, Tick, vars, recVars
    <2>4. now' = now \/ (now < MaxTime /\ now' = now + 1)
      BY <2>1, <2>2, <2>3 DEF Next
    <2> QED BY <2>4 DEF TInv, Counters, KodiType
  <1>2. calls' \in 0..MaxCalls
    <2>1. Kodi => calls' = calls \/ (calls < MaxCalls /\ calls' = calls + 1)
      BY DEF Kodi, OpenRecordedStream, ReadRecordedStream, SeekRecordedStream, LengthRecordedStream,
             Pauses, Resumes, CloseRecordedStream, Calling
    <2>2. Continues => calls' = calls \/ (calls < MaxCalls /\ calls' = calls + 1)
      BY DEF Continues, Sends, GateTimesOut, OpenReturns, ReadRetries, ReadReturns, SeekReturns,
             SizeReturns, LengthReturns, CloseReturns
    <2>3. Rebuilds \/ Loses \/ Reconnects \/ Registers \/ Changes \/ Tick \/ UNCHANGED vars
             => calls' = calls \/ (calls < MaxCalls /\ calls' = calls + 1)
      BY DEF Rebuilds, SyncInitCompleted, RebuildState, RebuildSeeks, RebuildSought, RebuildCloses,
             Loses, Reconnects, Registers, Changes, Tick, vars
    <2>4. calls' = calls \/ (calls < MaxCalls /\ calls' = calls + 1)
      BY <2>1, <2>2, <2>3 DEF Next
    <2> QED BY <2>4 DEF TInv, Counters
  <1>3. events' \in 0..MaxEvents
    <2>1. Kodi => events' = events \/ (events < MaxEvents /\ events' = events + 1)
      BY DEF Kodi, OpenRecordedStream, ReadRecordedStream, SeekRecordedStream, LengthRecordedStream,
             Pauses, Resumes, CloseRecordedStream
    <2>2. Continues => events' = events \/ (events < MaxEvents /\ events' = events + 1)
      BY DEF Continues, Sends, GateTimesOut, OpenReturns, ReadRetries, ReadReturns, SeekReturns,
             SizeReturns, LengthReturns, CloseReturns, Written
    <2>3. Rebuilds \/ Loses \/ Reconnects \/ Registers \/ Changes \/ Tick \/ UNCHANGED vars
             => events' = events \/ (events < MaxEvents /\ events' = events + 1)
      BY DEF Rebuilds, SyncInitCompleted, RebuildState, RebuildSeeks, RebuildSought, RebuildCloses,
             Loses, Reconnects, Registers, Changes, Tick, vars, RebuildAsks, Written
    <2>4. events' = events \/ (events < MaxEvents /\ events' = events + 1)
      BY <2>1, <2>2, <2>3 DEF Next
    <2> QED BY <2>4 DEF TInv, Counters
  <1>4. disturbed' \in BOOLEAN
    <2>1. disturbed' = disturbed \/ \E cond : Disturb(cond)
      BY DEF Next, Kodi, OpenRecordedStream, ReadRecordedStream, SeekRecordedStream,
             LengthRecordedStream, Pauses, Resumes, CloseRecordedStream, Calling, Continues, Sends,
             GateTimesOut, OpenReturns, ReadRetries, ReadReturns, SeekReturns, SizeReturns,
             LengthReturns, CloseReturns, Rebuilds, SyncInitCompleted, RebuildState, RebuildAsks,
             RebuildSeeks, RebuildSought, RebuildCloses, Loses, Reconnects, Registers, Changes, Tick, vars
    <2> QED BY <2>1 DEF TInv, KodiType, Disturb
  <1>5. want' \in [Clients -> Nat] /\ drift' \in [Clients -> Int]
    <2>1. want \in [Clients -> Nat] /\ drift \in [Clients -> Int]
      BY DEF TInv, KodiType
    <2>2. ASSUME NEW c \in Clients, OpenReturns(c) \/ SeekReturns(c)
          PROVE  want' \in [Clients -> Nat] /\ drift' = drift
      <3>1. /\ drift' = drift
            /\ \/ want' = want \/ want' = [want EXCEPT ![c] = 0]
               \/ call[c].res # Null /\ want' = [want EXCEPT ![c] = call[c].res]
        BY <2>2 DEF OpenReturns, SeekReturns
      <3>2. call[c].res \in Results
        BY DEF TInv, CallType, CallFields
      <3> QED BY <2>1, <3>1, <3>2 DEF Results
    <2>3. ASSUME NEW c \in Clients, ReadReturns(c)
          PROVE  want' \in [Clients -> Nat] /\ drift' \in [Clients -> Int]
      <3>1. \/ want' = want /\ drift' = drift
            \/ /\ call[c].res > 0 /\ want' = [want EXCEPT ![c] = want[c] + call[c].res]
               /\ drift' = [drift EXCEPT ![call[c].obj] = drift[call[c].obj] - call[c].res]
        BY <2>3 DEF ReadReturns, objVars
      <3>2. call[c].res \in Results /\ call[c].obj \in Clients
        BY <2>3 DEF ReadReturns, Answered, TInv, CallType, CallFields, Sound, Active
      <3> QED BY <2>1, <3>1, <3>2 DEF Results, Null
    <2>4. ASSUME NEW c \in Clients, SizeReturns(c)
          PROVE  want' \in [Clients -> Nat] /\ drift' \in [Clients -> Int]
      <3> DEFINE o == call[c].obj
                 eof == Distance(call[c].res, call[c].arg, vfs[o].offset)
      <3>1. call[c].res \in Results /\ call[c].arg \in Nat /\ o \in Clients
        BY <2>4 DEF SizeReturns, Answered, TInv, CallType, CallFields, Sound, Active
      <3>2. want' = want /\ drift' = [drift EXCEPT ![o] = len[o] - vfs[o].offset - eof]
        BY <2>4 DEF SizeReturns, kodiVars
      <3> HIDE DEF o
      <3>3. eof \in Int /\ len[o] \in Int /\ vfs[o].offset \in Int
        BY <3>1, DistanceIs DEF TInv, RecsType, VfsType, VfsFields
      <3>4. len[o] - vfs[o].offset - eof \in Int
        BY <3>3
      <3> HIDE DEF eof
      <3> QED BY <2>1, <3>2, <3>4
    <2>5. CASE Tick
      BY <2>1, <2>5 DEF Tick, kodiVars
    <2>6. CASE UNCHANGED <<want, drift>>
      BY <2>1, <2>6
    <2>7. Kodi => UNCHANGED <<want, drift>>
      BY DEF Kodi, OpenRecordedStream, ReadRecordedStream, SeekRecordedStream, LengthRecordedStream,
             Pauses, Resumes, CloseRecordedStream, kodiVars, objVars
    <2>8. Continues => want' \in [Clients -> Nat] /\ drift' \in [Clients -> Int]
      BY <2>1, <2>2, <2>3, <2>4, <2>6
      DEF Continues, Sends, GateTimesOut, ReadRetries, LengthReturns, CloseReturns, kodiVars, objVars
    <2>9. Rebuilds \/ Loses \/ Reconnects \/ Registers \/ Changes \/ UNCHANGED vars
            => UNCHANGED <<want, drift>>
      BY DEF Rebuilds, SyncInitCompleted, RebuildState, RebuildSeeks, RebuildSought, RebuildCloses,
             Loses, Reconnects, Registers, Changes, vars, kodiVars, objVars
    <2> QED BY <2>1, <2>5, <2>6, <2>7, <2>8, <2>9 DEF Next
  <1> QED BY <1>1, <1>2, <1>3, <1>4, <1>5 DEF Counters, KodiType

\* The invariant holds at first, is kept by every step, and so always holds.
LEMMA TypesInit == Init => TInv
  <1> SUFFICES ASSUME Init PROVE TInv
    OBVIOUS
  <1> USE RecordedAssumption
  <1>1. LinkType /\ RecsType
    <2>1. link = "up" /\ losses = 0 /\ pending \in BOOLEAN
      BY DEF Init
    <2>2. recs \in [Clients -> {"recording", "done", "gone"}] /\ len \in [Clients -> Nat]
      BY DEF Init
    <2> QED BY <2>1, <2>2 DEF LinkType, RecsType
  <1>7. FilesType /\ Within
    BY DEF Init, FilesType, Within, Empty, File
  <1>2. MapType /\ Named
    BY DEF Init, MapType, Named, Empty
  <1>3. VfsType /\ PauseKnown
    BY ClosedIs DEF Init, VfsType, PauseKnown
  <1>4. CallType
    <2>1. \A c \in Clients : call[c] = Idle
      BY DEF Init
    <2> QED BY <2>1, IdleIs DEF Init, CallType, Sound, Active
  <1>5. RebuildType
    BY DEF Init, RebuildType, Free, Rest, Results, Null
  <1>6. Counters /\ KodiType
    <2>1. want \in [Clients -> Nat] /\ drift \in [Clients -> Int]
      BY DEF Init
    <2>2. now \in 0..MaxTime /\ now # 0
      BY DEF Init
    <2>3. calls = 0 /\ events = 0 /\ disturbed \in BOOLEAN
      BY DEF Init
    <2> QED BY <2>1, <2>2, <2>3 DEF Counters, KodiType
  <1> QED BY <1>1, <1>2, <1>3, <1>4, <1>5, <1>6, <1>7 DEF TInv

\* It is kept by every step.
LEMMA TypesStep == TInv /\ [Next]_vars => TInv'
  BY FilesStep, CallStep, MapStep, VfsStep, RebuildStep, LinkStep, CounterStep DEF TInv

\* So it always holds.
LEMMA TypesInductive == Spec => []TInv
  BY TypesInit, TypesStep, PTL DEF Spec

\* At every step of any run: files have ids that were given and positions that
\* exist, ids in m_vfs name objects one to one, real-time streams are those near
\* the end, a call has the object and the number of tries it may have.
THEOREM RecordedTypes == Spec => []TypeOK
  BY TypesInductive, TypesAreRight, PTL

-----------------------------------------------------------------------------
(***************************************************************************)
(* What holds until something disturbs it: whose file is whose, and where. *)
(***************************************************************************)
\* Calls are made and rebuilds are over while the connection stands; a new
\* connection has no file until the rebuild starts.
Connection ==
  /\ \A c \in Clients : Active(c) => link = "up" /\ ~pending /\ (call[c].op = "open" \/ Free)
  /\ ~Free => Steady
  /\ ~Steady => DOMAIN files = {}

\* A client that has an id has an object, which is where the client believes to be.
Own(c) == handle[c] # 0 =>
  /\ handle[c] \in DOMAIN mVfs /\ mVfs[handle[c]] = c
  /\ vfs[c].offset = want[c] /\ want[c] <= len[c]
  /\ vfs[c].id = 0 => want[c] = 0

\* A call is about the client's own object and its file.
Acts(c) == Active(c) =>
  /\ call[c].obj = c
  /\ call[c].op = "open" => vfs[c] = Closed
  /\ call[c].op \in {"read", "seek", "size", "length"} => handle[c] # 0
  /\ call[c].op \in {"read", "seek", "close"} => call[c].file = vfs[c].id /\ vfs[c].id # 0
  /\ call[c].op = "close" => handle[c] = 0
  /\ call[c].op = "seek" /\ call[c].tries # 1 => recs[c] # "recording"
  /\ call[c].op = "read" /\ call[c].at = "wait" => call[c].res # Null

\* The distance to the end, between calls.
Counted(c) == handle[c] # 0 /\ vfs[c].eof >= 0 /\ recs[c] = "recording" /\ call[c].op # "size" =>
  len[c] - vfs[c].offset = vfs[c].eof + drift[c] + (IF vfs[c].paused THEN now - vfs[c].pausedAt ELSE 0)

Mine(c) == Own(c) /\ Acts(c) /\ Counted(c)

\* Who is to close a file: the client, as soon as the file is open and until it
\* is closed, or the rebuild, which gives it to the client.
Turn(c) == handle[c] \in rebuild.todo /\ handle[c] = Min(rebuild.todo)
Opened(c) == handle[c] # 0 /\ (handle[c] \in rebuild.todo => Turn(c) /\ rebuild.at = "seeked")
Holds(c, i) ==
  \/ Opened(c) /\ vfs[c].id = i /\ i # 0
  \/ call[c].op = "close" /\ call[c].at = "gate" /\ vfs[c].id = i
  \/ Waits(c, "open") /\ call[c].res = i /\ i # Null
  \/ rebuild.at = "opened" /\ handle[c] # 0 /\ Turn(c) /\ rebuild.res = i /\ i # Null

\* Where the server has the file of c: a response that c has not seen counts.
Position(c) == IF Waits(c, "seek") /\ call[c].res # Null THEN call[c].res
               ELSE IF Waits(c, "read") THEN vfs[c].offset + call[c].res
               ELSE vfs[c].offset

Held == Steady => \A i \in DOMAIN files : \E c \in Clients : Holds(c, i)
Kept == Steady => \A c \in Clients : \A i \in Nat : Holds(c, i) => i \in DOMAIN files /\ files[i].rec = c
Placed == Steady => \A c \in Clients :
  /\ Opened(c) /\ vfs[c].id # 0 => files[vfs[c].id].pos = Position(c)
  /\ Waits(c, "open") /\ call[c].res # Null => files[call[c].res].pos = 0

\* The rebuild opens what was open and seeks to where it was.
Sought ==
  /\ rebuild.at \in {"opened", "seeked"} => rebuild.res # Null /\ vfs[Object].id # 0
  /\ rebuild.at = "seeked" => rebuild.res = vfs[Object].offset

\* The inductive invariant.
Calm == /\ Connection /\ \A c \in Clients : Mine(c)
        /\ Held /\ Kept /\ Placed /\ Sought /\ ~misread
CInv == ~disturbed => Calm

-----------------------------------------------------------------------------
(***************************************************************************)
(* A step of one client leaves the others alone.                           *)
(***************************************************************************)
OthersSame(c) ==
  /\ UNCHANGED <<link, pending, rebuild, recs, len, now>>
  /\ \A d \in Clients \ {c} :
       /\ handle'[d] = handle[d] /\ vfs'[d] = vfs[d] /\ call'[d] = call[d] /\ want'[d] = want[d]
       /\ drift'[d] = drift[d]
       /\ handle[d] \in DOMAIN mVfs =>
            handle[d] \in DOMAIN mVfs' /\ mVfs'[handle[d]] = mVfs[handle[d]]

\* What the files depend on.
OthersHold(c) == \A d \in Clients \ {c} :
  /\ \A i : Holds(d, i)' <=> Holds(d, i)
  /\ Opened(d)' <=> Opened(d)
  /\ Position(d)' = Position(d) /\ vfs'[d].id = vfs[d].id
  /\ Waits(d, "open")' <=> Waits(d, "open")
  /\ call'[d].res = call[d].res

\* The other clients keep what they hold and where they are.
LEMMA OthersStay ==
  ASSUME TInv, NEW c \in Clients, OthersSame(c)
  PROVE  OthersHold(c) /\ \A d \in Clients \ {c} : Mine(d) => Mine(d)'
  <1> SUFFICES ASSUME NEW d \in Clients \ {c}
               PROVE  /\ \A i : Holds(d, i)' <=> Holds(d, i)
                      /\ Opened(d)' <=> Opened(d)
                      /\ Position(d)' = Position(d) /\ vfs'[d].id = vfs[d].id
                      /\ Waits(d, "open")' <=> Waits(d, "open")
                      /\ call'[d].res = call[d].res
                      /\ Mine(d) => Mine(d)'
    BY DEF OthersHold
  <1>1. /\ handle'[d] = handle[d] /\ vfs'[d] = vfs[d] /\ call'[d] = call[d] /\ want'[d] = want[d]
        /\ drift'[d] = drift[d]
        /\ handle[d] \in DOMAIN mVfs =>
             handle[d] \in DOMAIN mVfs' /\ mVfs'[handle[d]] = mVfs[handle[d]]
    BY DEF OthersSame
  <1>2. /\ link' = link /\ pending' = pending /\ rebuild' = rebuild /\ recs' = recs /\ len' = len
        /\ now' = now
    BY DEF OthersSame
  <1>3. Opened(d)' <=> Opened(d)
    BY <1>1, <1>2 DEF Opened, Turn
  <1>4. \A op : Waits(d, op)' <=> Waits(d, op)
    BY <1>1 DEF Waits
  <1>5. \A i : Holds(d, i)' <=> Holds(d, i)
    BY <1>1, <1>2, <1>3, <1>4 DEF Holds, Turn
  <1>6. Position(d)' = Position(d)
    BY <1>1, <1>4 DEF Position
  <1>7. Mine(d) => Mine(d)'
    BY <1>1, <1>2 DEF Mine, Own, Acts, Active, Counted
  <1> QED BY <1>1, <1>3, <1>4, <1>5, <1>6, <1>7

\* The files follow the client that acts: it changes no other client's file, and
\* holds every file that it opens or moves.
Follows(c) ==
  /\ \A i \in DOMAIN files' : Holds(c, i)' \/ (i \in DOMAIN files /\ files'[i] = files[i] /\ ~Holds(c, i))
  /\ \A i \in DOMAIN files : Holds(c, i) \/ (i \in DOMAIN files' /\ files'[i] = files[i])
  /\ \A i \in Nat : Holds(c, i)' => i \in DOMAIN files' /\ files'[i].rec = c
  /\ Opened(c)' /\ vfs'[c].id # 0 => files'[vfs'[c].id].pos = Position(c)'
  /\ Waits(c, "open")' /\ call'[c].res # Null => files'[call'[c].res].pos = 0

\* Then the files stay whose they are.
LEMMA FilesFollow ==
  ASSUME TInv, TInv', Held, Kept, Placed, Steady, NEW c \in Clients, OthersHold(c), Follows(c)
  PROVE  Held' /\ Kept' /\ Placed'
  <1> DEFINE Others == Clients \ {c}
  <1>1. \A d \in Others : \A i \in Nat : Holds(d, i) => i \in DOMAIN files' /\ files'[i] = files[i]
                                                      /\ files[i].rec = d
    BY DEF Kept, Follows
  <1>2. Held'
    <2> SUFFICES ASSUME NEW i \in DOMAIN files' PROVE \E d \in Clients : Holds(d, i)'
      BY DEF Held
    <2>1. CASE Holds(c, i)'
      BY <2>1
    <2>2. CASE i \in DOMAIN files /\ ~Holds(c, i)
      <3>1. PICK d \in Clients : Holds(d, i)
        BY <2>2 DEF Held
      <3> QED BY <2>2, <3>1 DEF OthersHold
    <2> QED BY <2>1, <2>2 DEF Follows
  <1>3. Kept'
    <2> SUFFICES ASSUME NEW d \in Clients, NEW i \in Nat, Holds(d, i)'
                 PROVE  i \in DOMAIN files' /\ files'[i].rec = d
      BY DEF Kept
    <2>1. CASE d = c
      BY <2>1 DEF Follows
    <2>2. CASE d # c
      BY <1>1, <2>2 DEF OthersHold
    <2> QED BY <2>1, <2>2
  <1>4. Placed'
    <2> SUFFICES ASSUME NEW d \in Clients
                 PROVE  /\ Opened(d)' /\ vfs'[d].id # 0 => files'[vfs'[d].id].pos = Position(d)'
                        /\ Waits(d, "open")' /\ call'[d].res # Null => files'[call'[d].res].pos = 0
      BY DEF Placed
    <2>1. CASE d = c
      BY <2>1 DEF Follows
    <2>2. CASE d # c
      <3>1. vfs[d].id \in Nat /\ call[d].res \in Results
        BY DEF TInv, VfsType, VfsFields, CallType, CallFields
      <3>2. /\ Opened(d)' <=> Opened(d)
            /\ Position(d)' = Position(d) /\ vfs'[d].id = vfs[d].id
            /\ Waits(d, "open")' <=> Waits(d, "open")
            /\ call'[d].res = call[d].res
        BY <2>2 DEF OthersHold
      <3>3. Opened(d) /\ vfs[d].id # 0 => files'[vfs[d].id] = files[vfs[d].id]
        BY <1>1, <2>2, <3>1 DEF Holds
      <3>4. Waits(d, "open") /\ call[d].res # Null => files'[call[d].res] = files[call[d].res]
        BY <1>1, <2>2, <3>1 DEF Holds, Results
      <3>5. /\ Opened(d) /\ vfs[d].id # 0 => files[vfs[d].id].pos = Position(d)
            /\ Waits(d, "open") /\ call[d].res # Null => files[call[d].res].pos = 0
        BY DEF Placed
      <3> QED BY <3>2, <3>3, <3>4, <3>5
    <2> QED BY <2>1, <2>2
  <1> QED BY <1>2, <1>3, <1>4

\* So that only the client itself is left to look at.
LEMMA ClientActs ==
  ASSUME TInv, TInv', Calm, Steady, NEW c \in Clients, OthersSame(c), Mine(c)', Follows(c),
         Free \/ (mVfs' = mVfs /\ handle[c] = 0)
  PROVE  (\A d \in Clients : Mine(d)') /\ Held' /\ Kept' /\ Placed' /\ Sought'
  <1>1. OthersHold(c) /\ \A d \in Clients : Mine(d)'
    BY OthersStay DEF Calm
  <1>2. Held' /\ Kept' /\ Placed'
    BY <1>1, FilesFollow DEF Calm
  <1>3. Sought'
    <2>1. rebuild' = rebuild
      BY DEF OthersSame
    <2>2. CASE rebuild.at = "rest"
      BY <2>1, <2>2 DEF Sought
    <2>3. CASE rebuild.at # "rest"
      <3>1. Object' = Object /\ Object \in Clients \ {c}
        BY <2>1, <2>3, ObjectIsAClient DEF Free, TInv, Named, Object
      <3>2. vfs'[Object] = vfs[Object]
        BY <3>1 DEF OthersSame
      <3>3. Sought
        BY DEF Calm
      <3> HIDE DEF Object
      <3> QED BY <2>1, <3>1, <3>2, <3>3 DEF Sought
    <2> QED BY <2>2, <2>3
  <1> QED BY <1>1, <1>2, <1>3

-----------------------------------------------------------------------------
(***************************************************************************)
(* Kodi calls.                                                             *)
(***************************************************************************)
LEMMA CallsInPeace ==
  ASSUME TInv, NEW c \in Clients, Calling(c), ~disturbed'
  PROVE  /\ link = "up" /\ ~pending /\ Steady
         /\ ~Active(c) /\ call[c].at = "idle" /\ call[c].op = "none"
  BY DEF Calling, Disturb, Steady, TInv, CallType, Sound, Active

\* The map leads a client to its own object, when no rebuild is under way.
LEMMA FindsOwn ==
  ASSUME TInv, Calm, NEW c \in Clients, NEW o \in Clients, Finds(c, o)
  PROVE  /\ o = c /\ handle[c] # 0 /\ handle[c] \in DOMAIN mVfs
         /\ Free /\ rebuild.at = "rest" /\ rebuild.todo = {} /\ Opened(c)
  <1>1. handle[c] \in DOMAIN mVfs /\ o = mVfs[handle[c]] /\ Free /\ handle[c] # 0
    BY DEF Finds, TInv, Named
  <1>2. o = c
    BY <1>1 DEF Calm, Mine, Own
  <1> QED BY <1>1, <1>2 DEF TInv, RebuildType, Free, Opened

\* A step that opens, moves or closes no file and gives none away.
LEMMA NothingMoves ==
  ASSUME TInv, Kept, Placed, Steady, NEW c \in Clients, files' = files,
         \A i : Holds(c, i)' <=> Holds(c, i),
         Opened(c)' => vfs'[c].id = 0 \/ (Opened(c) /\ vfs'[c].id = vfs[c].id /\ Position(c)' = Position(c)),
         Waits(c, "open")' => Waits(c, "open") /\ call'[c].res = call[c].res
  PROVE  Follows(c)
  <1>1. \A i \in Nat : Holds(c, i) => i \in DOMAIN files /\ files[i].rec = c
    BY DEF Kept
  <1>2. /\ Opened(c) /\ vfs[c].id # 0 => files[vfs[c].id].pos = Position(c)
        /\ Waits(c, "open") /\ call[c].res # Null => files[call[c].res].pos = 0
    BY DEF Placed
  <1> QED BY <1>1, <1>2 DEF Follows

\* A new object has no file yet.
LEMMA OpensCalm ==
  ASSUME TInv, TInv', Calm, ~disturbed', NEW c \in Clients, OpenRecordedStream(c)
  PROVE  (\A d \in Clients : Mine(d)') /\ Held' /\ Kept' /\ Placed' /\ Sought'
  <1>1. /\ Steady /\ call[c].op = "none" /\ call[c].at = "idle" /\ handle[c] = 0
        /\ handle' = handle /\ mVfs' = mVfs /\ rebuild' = rebuild /\ files' = files
        /\ UNCHANGED <<link, pending, recs, len, now, want, drift>>
        /\ vfs' = [vfs EXCEPT ![c] = Closed]
    BY CallsInPeace DEF OpenRecordedStream, kodiVars, linkVars, recVars, srvVars
  <1> DEFINE x == [Asks(c, "open", c, 0, 0) EXCEPT !.file = 0]
  <1>2. Asks(c, "open", c, 0, 0) = [op |-> "open", at |-> "gate", obj |-> c, file |-> vfs[c].id,
                                    arg |-> 0, res |-> Null, tries |-> 0]
    BY AskIs, RecordedAssumption DEF Requests
  <1>3. x.op = "open" /\ x.at = "gate" /\ x.obj = c
    BY <1>2
  <1>4. call' = [call EXCEPT ![c] = x]
    BY DEF OpenRecordedStream
  <1> HIDE DEF x
  <1>5. /\ call'[c] = x /\ vfs'[c] = Closed
        /\ \A d \in Clients \ {c} : call'[d] = call[d] /\ vfs'[d] = vfs[d]
    BY <1>1, <1>4 DEF TInv, CallType, VfsType
  <1>6. OthersSame(c)
    BY <1>1, <1>5 DEF OthersSame
  <1>7. Mine(c)'
    BY <1>1, <1>3, <1>5 DEF Mine, Own, Acts, Counted
  <1>8. (\A i : ~Holds(c, i) /\ ~Holds(c, i)') /\ ~Opened(c)' /\ ~Waits(c, "open")'
    BY <1>1, <1>3, <1>5 DEF Holds, Opened, Waits
  <1>9. Follows(c)
    BY <1>1, <1>8, NothingMoves DEF Calm
  <1> QED BY <1>1, <1>6, <1>7, <1>9, ClientActs

\* Read, Seek and Length ask.
LEMMA AsksCalm ==
  ASSUME TInv, TInv', Calm, Steady, NEW c \in Clients, NEW op \in {"read", "seek", "length"},
         NEW arg \in Nat, NEW tries \in 0..Tries,
         call' = [call EXCEPT ![c] = Asks(c, op, c, arg, tries)],
         UNCHANGED <<link, pending, rebuild, recs, len, now, handle, vfs, want, drift, mVfs, files>>,
         call[c].op \notin {"open", "close", "size"}, handle[c] # 0, Free, Position(c) = vfs[c].offset,
         op \in {"read", "seek"} => vfs[c].id # 0,
         op = "seek" /\ tries # 1 => recs[c] # "recording"
  PROVE  (\A d \in Clients : Mine(d)') /\ Held' /\ Kept' /\ Placed' /\ Sought'
  <1>1. Asks(c, op, c, arg, tries) = [op |-> op, at |-> "gate", obj |-> c, file |-> vfs[c].id,
                                      arg |-> arg, res |-> Null, tries |-> tries]
    BY AskIs DEF Requests
  <1>2. /\ call'[c] = [op |-> op, at |-> "gate", obj |-> c, file |-> vfs[c].id,
                       arg |-> arg, res |-> Null, tries |-> tries]
        /\ \A d \in Clients \ {c} : call'[d] = call[d]
    BY <1>1 DEF TInv, CallType
  <1>3. OthersSame(c)
    BY <1>2 DEF OthersSame
  <1>4. Mine(c)'
    BY <1>2 DEF Calm, Mine, Own, Acts, Active, Counted
  <1>5. ~Waits(c, "open")' /\ ~Waits(c, "open") /\ (Opened(c)' <=> Opened(c))
    BY <1>2 DEF Waits, Opened, Turn
  <1>6. \A i : Holds(c, i)' <=> Holds(c, i)
    BY <1>2, <1>5 DEF Holds, Free
  <1>7. Position(c)' = Position(c)
    BY <1>2 DEF Position, Waits
  <1>8. Follows(c)
    BY <1>5, <1>6, <1>7, NothingMoves DEF Calm
  <1> QED BY <1>3, <1>4, <1>8, ClientActs

\* Read asks for data of its file.
LEMMA ReadsCalm ==
  ASSUME TInv, TInv', Calm, ~disturbed', NEW c \in Clients, ReadRecordedStream(c)
  PROVE  (\A d \in Clients : Mine(d)') /\ Held' /\ Kept' /\ Placed' /\ Sought'
  <1>1. Steady /\ call[c].op = "none" /\ call[c].at = "idle"
    BY CallsInPeace DEF ReadRecordedStream
  <1>2. PICK o \in Clients :
          /\ Finds(c, o) /\ vfs[o].id # 0
          /\ call' = [call EXCEPT ![c] = Asks(c, "read", o, 1, IF InProgress(o) THEN Tries ELSE 1)]
    BY DEF ReadRecordedStream
  <1>3. o = c /\ handle[c] # 0 /\ Free
    BY <1>2, FindsOwn
  <1> DEFINE tries == IF InProgress(c) THEN Tries ELSE 1
  <1>4. tries \in 0..Tries
    BY RecordedAssumption
  <1>5. call' = [call EXCEPT ![c] = Asks(c, "read", c, 1, tries)]
    BY <1>2, <1>3
  <1> HIDE DEF tries
  <1>6. UNCHANGED <<link, pending, rebuild, recs, len, now, handle, vfs, want, drift, mVfs, files>>
    BY DEF ReadRecordedStream, linkVars, srvVars, recVars, objVars, kodiVars
  <1>7. Position(c) = vfs[c].offset
    BY <1>1, SMTT(30) DEF Position, Waits
  <1>8. /\ "read" \in {"read", "seek", "length"} /\ 1 \in Nat /\ "read" # "seek"
        /\ call[c].op \notin {"open", "close", "size"} /\ vfs[c].id # 0
    BY <1>1, <1>2, <1>3
  <1> QED BY <1>1, <1>3, <1>4, <1>5, <1>6, <1>7, <1>8, AsksCalm

\* Seek asks for a position.
LEMMA SeeksCalm ==
  ASSUME TInv, TInv', Calm, ~disturbed', NEW c \in Clients, SeekRecordedStream(c)
  PROVE  (\A d \in Clients : Mine(d)') /\ Held' /\ Kept' /\ Placed' /\ Sought'
  <1>1. Steady /\ call[c].op = "none" /\ call[c].at = "idle"
    BY CallsInPeace DEF SeekRecordedStream
  <1>2. PICK o \in Clients, pos \in 0..Length :
          /\ Finds(c, o) /\ vfs[o].id # 0
          /\ call' = [call EXCEPT ![c] = Asks(c, "seek", o, pos, IF InProgress(o) THEN 1 ELSE 0)]
    BY DEF SeekRecordedStream
  <1>3. o = c /\ handle[c] # 0 /\ Free
    BY <1>2, FindsOwn
  <1> DEFINE tries == IF InProgress(c) THEN 1 ELSE 0
  <1>4. tries \in 0..Tries /\ (tries # 1 => recs[c] # "recording") /\ pos \in Nat
    BY RecordedAssumption DEF InProgress
  <1>5. call' = [call EXCEPT ![c] = Asks(c, "seek", c, pos, tries)]
    BY <1>2, <1>3
  <1> HIDE DEF tries
  <1>6. UNCHANGED <<link, pending, rebuild, recs, len, now, handle, vfs, want, drift, mVfs, files>>
    BY DEF SeekRecordedStream, linkVars, srvVars, recVars, objVars, kodiVars
  <1>7. Position(c) = vfs[c].offset
    BY <1>1 DEF Position, Waits
  <1> QED BY <1>1, <1>2, <1>3, <1>4, <1>5, <1>6, <1>7, AsksCalm

\* Length asks for the size.
LEMMA LengthCalm ==
  ASSUME TInv, TInv', Calm, ~disturbed', NEW c \in Clients, LengthRecordedStream(c)
  PROVE  (\A d \in Clients : Mine(d)') /\ Held' /\ Kept' /\ Placed' /\ Sought'
  <1>1. Steady /\ call[c].op = "none" /\ call[c].at = "idle"
    BY CallsInPeace DEF LengthRecordedStream
  <1>2. PICK o \in Clients :
          Finds(c, o) /\ call' = [call EXCEPT ![c] = Asks(c, "length", o, 0, 0)]
    BY DEF LengthRecordedStream
  <1>3. o = c /\ handle[c] # 0 /\ Free
    BY <1>2, FindsOwn
  <1>4. call' = [call EXCEPT ![c] = Asks(c, "length", c, 0, 0)] /\ 0 \in 0..Tries
    BY <1>2, <1>3, RecordedAssumption
  <1>5. UNCHANGED <<link, pending, rebuild, recs, len, now, handle, vfs, want, drift, mVfs, files>>
    BY DEF LengthRecordedStream, linkVars, srvVars, recVars, objVars, kodiVars
  <1>6. Position(c) = vfs[c].offset
    BY <1>1, SMTT(30) DEF Position, Waits
  <1> QED BY <1>1, <1>3, <1>4, <1>5, <1>6, AsksCalm

\* Pause and Resume change what is counted, and nothing that the files depend on.
LEMMA PauseCalm ==
  ASSUME TInv, TInv', Calm, Steady, NEW c \in Clients, NEW v \in VfsFields,
         vfs' = [vfs EXCEPT ![c] = v], v.id = vfs[c].id, v.offset = vfs[c].offset,
         UNCHANGED <<link, pending, rebuild, recs, len, now, handle, call, want, drift, mVfs, files>>,
         Free, call[c].op = "none",
         Counted(c)'
  PROVE  (\A d \in Clients : Mine(d)') /\ Held' /\ Kept' /\ Placed' /\ Sought'
  <1>1. vfs'[c] = v /\ \A d \in Clients \ {c} : vfs'[d] = vfs[d]
    BY DEF TInv, VfsType
  <1>2. OthersSame(c)
    BY <1>1 DEF OthersSame
  <1>3. ~Active(c)
    BY DEF TInv, CallType, Sound
  <1>4. Mine(c)'
    BY <1>1, <1>3 DEF Calm, Mine, Own, Acts, Active
  <1>5. (Opened(c)' <=> Opened(c)) /\ (Waits(c, "open")' <=> Waits(c, "open"))
    BY <1>1 DEF Waits, Opened, Turn
  <1>6. \A i : Holds(c, i)' <=> Holds(c, i)
    BY <1>1, <1>5 DEF Holds, Turn
  <1>7. Position(c)' = Position(c)
    BY <1>1 DEF Position, Waits
  <1>8. Follows(c)
    BY <1>1, <1>5, <1>6, <1>7, NothingMoves DEF Calm
  <1> QED BY <1>2, <1>4, <1>8, ClientActs

\* A pause starts now, so nothing has been missed.
LEMMA PausesCalm ==
  ASSUME TInv, TInv', Calm, ~disturbed', NEW c \in Clients, Pauses(c)
  PROVE  (\A d \in Clients : Mine(d)') /\ Held' /\ Kept' /\ Placed' /\ Sought'
  <1>1. Steady /\ call[c].op = "none"
    BY CallsInPeace DEF Pauses
  <1>2. PICK o \in Clients : /\ Finds(c, o) /\ ~vfs[o].paused
                             /\ vfs' = [vfs EXCEPT ![o].paused = TRUE, ![o].pausedAt = now]
    BY DEF Pauses
  <1>3. o = c /\ Free /\ ~vfs[c].paused
    BY <1>2, FindsOwn
  <1> DEFINE v == [vfs[c] EXCEPT !.paused = TRUE, !.pausedAt = now]
  <1>4. vfs[c] \in VfsFields /\ now \in Nat
    BY DEF TInv, VfsType, Counters
  <1>5. /\ v \in VfsFields /\ v.id = vfs[c].id /\ v.offset = vfs[c].offset /\ v.eof = vfs[c].eof
        /\ v.paused = TRUE /\ v.pausedAt = now
    BY <1>4 DEF VfsFields
  <1>6. vfs' = [vfs EXCEPT ![c] = v]
    BY <1>2, <1>3
  <1> HIDE DEF v
  <1>7. UNCHANGED <<link, pending, rebuild, recs, len, now, handle, call, want, drift, mVfs, files>>
    BY DEF Pauses, linkVars, srvVars, recVars, kodiVars
  <1>8. Counted(c)'
    <2>1. vfs'[c] = v
      BY <1>6 DEF TInv, VfsType
    <2>2. Counted(c)
      BY DEF Calm, Mine
    <2>3. drift[c] \in Int /\ now - now = 0
      BY <1>4 DEF TInv, KodiType
    <2> QED BY <1>3, <1>4, <1>5, <1>7, <2>1, <2>2, <2>3 DEF Counted, VfsFields
  <1> QED BY <1>1, <1>3, <1>5, <1>6, <1>7, <1>8, PauseCalm

\* Resuming adds the pause to the distance to the end.
LEMMA ResumesCalm ==
  ASSUME TInv, TInv', Calm, ~disturbed', NEW c \in Clients, Resumes(c)
  PROVE  (\A d \in Clients : Mine(d)') /\ Held' /\ Kept' /\ Placed' /\ Sought'
  <1>1. Steady /\ call[c].op = "none"
    BY CallsInPeace DEF Resumes
  <1>2. PICK o \in Clients :
          /\ Finds(c, o) /\ vfs[o].paused
          /\ LET f == vfs[o]
                 eof == IF f.eof >= 0 /\ f.pausedAt > 0 THEN f.eof + (now - f.pausedAt) ELSE f.eof
             IN vfs' = [vfs EXCEPT ![o] = [WithEof(f, eof) EXCEPT !.paused = FALSE, !.pausedAt = 0]]
    BY DEF Resumes
  <1>3. o = c /\ Free /\ vfs[c].paused
    BY <1>2, FindsOwn
  <1> DEFINE eof == IF vfs[c].eof >= 0 /\ vfs[c].pausedAt > 0
                    THEN vfs[c].eof + (now - vfs[c].pausedAt) ELSE vfs[c].eof
             w == WithEof(vfs[c], eof)
             v == [w EXCEPT !.paused = FALSE, !.pausedAt = 0]
  <1>4. vfs[c] \in VfsFields /\ now \in Nat /\ eof \in Int
    BY DEF TInv, VfsType, VfsFields, Counters
  <1>5. vfs' = [vfs EXCEPT ![c] = v]
    BY <1>2, <1>3
  <1>6. eof >= 0 => vfs[c].eof >= 0 /\ eof = vfs[c].eof + (now - vfs[c].pausedAt)
    <2>1. vfs[c].pausedAt \in Nat /\ vfs[c].pausedAt # 0
      BY <1>3, <1>4 DEF TInv, PauseKnown, VfsFields
    <2>2. vfs[c].eof \in Int
      BY <1>4 DEF VfsFields
    <2> QED BY <2>1, <2>2
  <1> HIDE DEF eof
  <1>7. w \in VfsFields /\ w.id = vfs[c].id /\ w.offset = vfs[c].offset /\ w.eof = eof
    BY <1>4, EofIs
  <1> HIDE DEF w
  <1>8. /\ v \in VfsFields /\ v.id = vfs[c].id /\ v.offset = vfs[c].offset /\ v.eof = eof
        /\ v.paused = FALSE
    BY <1>7 DEF VfsFields
  <1> HIDE DEF v
  <1>9. UNCHANGED <<link, pending, rebuild, recs, len, now, handle, call, want, drift, mVfs, files>>
    BY DEF Resumes, linkVars, srvVars, recVars, kodiVars
  <1>10. Counted(c)'
    <2>1. vfs'[c] = v
      BY <1>5 DEF TInv, VfsType
    <2>2. Counted(c)
      BY DEF Calm, Mine
    <2>3. drift[c] \in Int /\ vfs[c].eof \in Int /\ vfs[c].pausedAt \in Nat
      BY <1>4 DEF TInv, KodiType, VfsFields
    <2>4. SUFFICES ASSUME handle[c] # 0, eof >= 0, recs[c] = "recording"
                   PROVE  len[c] - v.offset = eof + drift[c] + 0
      BY <1>8, <1>9, <2>1 DEF Counted
    <2>5. len[c] - vfs[c].offset = vfs[c].eof + drift[c] + (now - vfs[c].pausedAt)
      BY <1>1, <1>3, <1>6, <2>2, <2>4 DEF Counted
    <2>6. v.offset = vfs[c].offset /\ eof = vfs[c].eof + (now - vfs[c].pausedAt)
      BY <1>6, <1>8, <2>4
    <2> QED BY <1>4, <2>3, <2>5, <2>6
  <1> QED BY <1>1, <1>3, <1>5, <1>8, <1>9, <1>10, PauseCalm

\* The entry goes, and the client still has to close the file.
LEMMA ClosesCalm ==
  ASSUME TInv, TInv', Calm, ~disturbed', NEW c \in Clients, CloseRecordedStream(c)
  PROVE  (\A d \in Clients : Mine(d)') /\ Held' /\ Kept' /\ Placed' /\ Sought'
  <1>1. Steady /\ call[c].op = "none" /\ call[c].at = "idle"
    BY CallsInPeace DEF CloseRecordedStream
  <1>2. PICK o \in Clients :
          /\ Finds(c, o)
          /\ IF vfs[o].id # 0
             THEN call' = [call EXCEPT ![c] = Asks(c, "close", o, 0, 0)] /\ UNCHANGED vfs
             ELSE vfs' = [vfs EXCEPT ![o] = Closed] /\ UNCHANGED call
    BY DEF CloseRecordedStream
  <1>3. /\ o = c /\ handle[c] # 0 /\ handle[c] \in DOMAIN mVfs /\ Free /\ Opened(c)
        /\ rebuild.at = "rest"
    BY <1>2, FindsOwn
  <1>4. /\ mVfs' = [i \in DOMAIN mVfs \ {handle[c]} |-> mVfs[i]]
        /\ handle' = [handle EXCEPT ![c] = 0]
        /\ UNCHANGED <<link, pending, rebuild, recs, len, now, want, drift, files>>
    BY DEF CloseRecordedStream, linkVars, srvVars, recVars
  <1>5. handle'[c] = 0 /\ \A d \in Clients \ {c} : handle'[d] = handle[d]
    BY <1>4 DEF TInv, MapType
  <1>6. \A d \in Clients \ {c} : handle[d] \in DOMAIN mVfs =>
          handle[d] \in DOMAIN mVfs' /\ mVfs'[handle[d]] = mVfs[handle[d]]
    <2> SUFFICES ASSUME NEW d \in Clients \ {c}, handle[d] \in DOMAIN mVfs
                 PROVE  handle[d] \in DOMAIN mVfs' /\ mVfs'[handle[d]] = mVfs[handle[d]]
      OBVIOUS
    <2>1. handle[d] # handle[c]
      BY <1>3 DEF Calm, Mine, Own, TInv, Named
    <2> QED BY <1>4, <2>1
  <1>7. ~Opened(c)' /\ ~Waits(c, "open")
    BY <1>1, <1>5 DEF Opened, Waits
  <1>8. CASE vfs[c].id # 0
    <2>1. Asks(c, "close", c, 0, 0) = [op |-> "close", at |-> "gate", obj |-> c, file |-> vfs[c].id,
                                       arg |-> 0, res |-> Null, tries |-> 0]
      BY AskIs, RecordedAssumption DEF Requests
    <2>2. /\ call'[c] = [op |-> "close", at |-> "gate", obj |-> c, file |-> vfs[c].id,
                         arg |-> 0, res |-> Null, tries |-> 0]
          /\ \A d \in Clients \ {c} : call'[d] = call[d]
          /\ vfs' = vfs
      BY <1>2, <1>3, <1>8, <2>1 DEF TInv, CallType
    <2>3. OthersSame(c)
      BY <1>4, <1>5, <1>6, <2>2 DEF OthersSame
    <2>4. Mine(c)'
      BY <1>5, <1>8, <2>2 DEF Mine, Own, Acts, Counted
    <2>5. \A i : Holds(c, i)' <=> Holds(c, i)
      BY <1>1, <1>3, <1>4, <1>5, <1>7, <1>8, <2>2 DEF Holds, Waits
    <2>6. Follows(c)
      BY <1>4, <1>7, <1>1, <2>2, <2>5, NothingMoves DEF Calm, Waits
    <2> QED BY <1>1, <1>3, <2>3, <2>4, <2>6, ClientActs
  <1>9. CASE vfs[c].id = 0
    <2>1. vfs' = [vfs EXCEPT ![c] = Closed] /\ call' = call
      BY <1>2, <1>3, <1>9
    <2>2. vfs'[c] = Closed /\ \A d \in Clients \ {c} : vfs'[d] = vfs[d]
      BY <2>1 DEF TInv, VfsType
    <2>3. OthersSame(c)
      BY <1>4, <1>5, <1>6, <2>1, <2>2 DEF OthersSame
    <2>4. Mine(c)'
      BY <1>1, <1>5, <2>1 DEF Mine, Own, Acts, Active, Counted
    <2>5. \A i : Holds(c, i)' <=> Holds(c, i)
      BY <1>1, <1>3, <1>4, <1>5, <1>7, <1>9, <2>1 DEF Holds, Waits
    <2>6. Follows(c)
      BY <1>4, <1>7, <1>1, <2>1, <2>5, NothingMoves DEF Calm, Waits
    <2> QED BY <1>1, <1>3, <2>3, <2>4, <2>6, ClientActs
  <1> QED BY <1>8, <1>9

-----------------------------------------------------------------------------
(***************************************************************************)
(* The server executes a client's request, and the client goes on.         *)
(***************************************************************************)
LEMMA UnderWay ==
  ASSUME TInv, Calm, NEW c \in Clients, call[c].at # "idle"
  PROVE  /\ Steady /\ link = "up" /\ call[c].op \in Requests /\ call[c].obj = c
         /\ Mine(c) /\ Active(c)
         /\ call[c].op # "open" => Free /\ rebuild.todo = {} /\ rebuild.at = "rest"
         /\ call[c].op = "open" => handle[c] = 0
  <1>1. Active(c) /\ Sound(c) /\ call[c].op \in Requests \cup {"none"}
    BY DEF Active, TInv, CallType, CallFields
  <1>2. link = "up" /\ ~pending /\ (call[c].op = "open" \/ Free) /\ Mine(c)
    BY <1>1 DEF Calm, Connection
  <1> QED BY <1>1, <1>2 DEF Sound, Steady, Mine, Acts, TInv, RebuildType, Free

\* The id that a client with a stream holds.
LEMMA HoldsItsOwn ==
  ASSUME TInv, Calm, Steady, NEW c \in Clients, handle[c] # 0, Free,
         call[c].op \in {"read", "seek", "size", "length"}
  PROVE  /\ Opened(c) /\ \A i : Holds(c, i) <=> i = vfs[c].id /\ i # 0
         /\ vfs[c].id # 0 => /\ vfs[c].id \in DOMAIN files /\ files[vfs[c].id].rec = c
                             /\ files[vfs[c].id].pos = Position(c)
  <1>1. Opened(c)
    BY DEF TInv, RebuildType, Free, Opened
  <1>2. \A i : Holds(c, i) <=> i = vfs[c].id /\ i # 0
    BY <1>1 DEF Holds, Free, Waits
  <1>3. vfs[c].id \in Nat
    BY DEF TInv, VfsType, VfsFields
  <1> QED BY <1>1, <1>2, <1>3 DEF Calm, Kept, Placed

\* The state after a request of c has been written, with the response res.
Sent(c, res) ==
  /\ call' = [call EXCEPT ![c].at = "wait", ![c].res = res]
  /\ UNCHANGED <<link, pending, rebuild, recs, len, now, handle, vfs, want, drift, mVfs>>

\* What the call of a written request is like.
LEMMA SentIs ==
  ASSUME TInv, NEW c \in Clients, call[c].at = "gate", NEW res \in Results, Sent(c, res)
  PROVE  /\ call'[c].at = "wait" /\ call'[c].res = res /\ call'[c].op = call[c].op
         /\ call'[c].obj = call[c].obj /\ call'[c].file = call[c].file
         /\ call'[c].tries = call[c].tries
         /\ OthersSame(c)
  <1>1. call[c] \in CallFields
    BY DEF TInv, CallType
  <1> DEFINE x == [call[c] EXCEPT !.at = "wait", !.res = res]
  <1>2. /\ x.at = "wait" /\ x.res = res /\ x.op = call[c].op /\ x.obj = call[c].obj
        /\ x.file = call[c].file /\ x.tries = call[c].tries
    BY <1>1 DEF CallFields
  <1>3. call' = [call EXCEPT ![c] = x]
    BY DEF Sent
  <1> HIDE DEF x
  <1>4. call'[c] = x /\ \A d \in Clients \ {c} : call'[d] = call[d]
    BY <1>3 DEF TInv, CallType
  <1>5. OthersSame(c)
    BY <1>4 DEF Sent, OthersSame
  <1> QED BY <1>2, <1>4, <1>5

\* A written request leaves what its client believes alone.
LEMMA SentCalm ==
  ASSUME TInv, TInv', Calm, NEW c \in Clients, call[c].at = "gate", NEW res \in Results, Sent(c, res),
         call[c].op = "read" => res # Null,
         Follows(c)
  PROVE  (\A d \in Clients : Mine(d)') /\ Held' /\ Kept' /\ Placed' /\ Sought'
  <1>1. /\ call'[c].at = "wait" /\ call'[c].res = res /\ call'[c].op = call[c].op
        /\ call'[c].obj = call[c].obj /\ call'[c].file = call[c].file
        /\ call'[c].tries = call[c].tries
        /\ OthersSame(c)
    BY SentIs
  <1>2. Steady /\ Mine(c) /\ Active(c) /\ (Free \/ handle[c] = 0)
    BY UnderWay
  <1>3. Mine(c)'
    BY <1>1, <1>2 DEF Sent, Mine, Own, Acts, Active, Counted
  <1> QED BY <1>1, <1>2, <1>3, ClientActs DEF Sent

\* The new file is that of the client that waits for its id.
LEMMA SendsOpen ==
  ASSUME TInv, Calm, NEW c \in Clients, call[c].at = "gate", call[c].op = "open",
         NEW out \in {Executes("open", call[c].file, c, call[c].arg), Outcome(files, lastId, Null)},
         files' = out.files, out.res \in Results, Sent(c, out.res)
  PROVE  Follows(c)
  <1>1. handle[c] = 0 /\ Steady
    BY UnderWay
  <1>2. call'[c].at = "wait" /\ call'[c].res = out.res /\ call'[c].op = "open" /\ handle'[c] = 0
    BY <1>1, SentIs DEF Sent
  <1>3. ~Opened(c)' /\ (\A i : ~Holds(c, i)) /\ \A i : Holds(c, i)' <=> i = out.res /\ i # Null
    BY <1>1, <1>2 DEF Opened, Holds, Waits
  <1>4. CASE out = Outcome(files, lastId, Null)
    <2>1. files' = files /\ out.res = Null
      BY <1>4 DEF Outcome
    <2> QED BY <1>2, <1>3, <2>1 DEF Follows
  <1>5. CASE out # Outcome(files, lastId, Null)
    <2> DEFINE f == [i \in DOMAIN files \cup {lastId + 1} |->
                       IF i = lastId + 1 THEN [rec |-> c, pos |-> 0] ELSE files[i]]
    <2>1. out = Outcome(f, lastId + 1, lastId + 1)
      BY <1>5, Opens
    <2>2. files' = f /\ out.res = lastId + 1 /\ lastId + 1 # Null
      BY <2>1 DEF Outcome, TInv, FilesType, Null
    <2>3. /\ DOMAIN files' = DOMAIN files \cup {lastId + 1}
          /\ lastId + 1 \notin DOMAIN files
          /\ \A i \in DOMAIN files : files'[i] = files[i]
          /\ files'[lastId + 1].rec = c /\ files'[lastId + 1].pos = 0
      BY <2>2 DEF TInv, FilesType
    <2> HIDE DEF f
    <2> QED BY <1>2, <1>3, <2>2, <2>3 DEF Follows
  <1> QED BY <1>4, <1>5

\* A read or a seek moves the file of its client, and the response tells by how much.
LEMMA SendsMove ==
  ASSUME TInv, Calm, NEW c \in Clients, call[c].at = "gate", call[c].op \in {"read", "seek"},
         NEW out \in {Executes(call[c].op, call[c].file, c, call[c].arg), Outcome(files, lastId, Null)},
         call[c].op = "read" => out = Executes(call[c].op, call[c].file, c, call[c].arg),
         files' = out.files, out.res \in Results, Sent(c, out.res)
  PROVE  Follows(c) /\ (call[c].op = "read" => out.res # Null)
  <1> DEFINE f == vfs[c].id
  <1>1. Steady /\ Free /\ handle[c] # 0 /\ call[c].file = f /\ f # 0
    BY UnderWay DEF Mine, Acts
  <1>2. /\ call'[c].at = "wait" /\ call'[c].res = out.res /\ call'[c].op = call[c].op
        /\ UNCHANGED <<handle, vfs, rebuild>>
    BY SentIs DEF Sent
  <1>3. /\ Opened(c) /\ (\A i : Holds(c, i) <=> i = f)
        /\ f \in DOMAIN files /\ files[f].rec = c /\ files[f].pos = vfs[c].offset
    BY <1>1, HoldsItsOwn DEF Position, Waits
  <1>4. Opened(c)' /\ ~Waits(c, "open")' /\ ~Waits(c, "open") /\ \A i : Holds(c, i)' <=> i = f
    BY <1>1, <1>2, <1>3 DEF Opened, Turn, Holds, Waits, Free
  <1>5. CASE call[c].op = "read"
    <2>1. PICK n \in Nat : out = Outcome(Moved(f, files[f].pos + n), lastId, n)
      BY <1>1, <1>3, <1>5, Reads DEF TInv, CallType, CallFields
    <2> DEFINE m == files[f].pos + n
    <2>2. m \in Nat /\ m = vfs[c].offset + n
      BY <1>3 DEF TInv, FilesType, File
    <2>3. out = Outcome(Moved(f, m), lastId, n)
      BY <2>1
    <2> HIDE DEF m
    <2>4. files' = Moved(f, m) /\ out.res = n /\ n # Null
      BY <2>3 DEF Outcome, Null
    <2>5. /\ DOMAIN files' = DOMAIN files /\ files'[f].pos = m /\ files'[f].rec = c
          /\ \A i \in DOMAIN files \ {f} : files'[i] = files[i]
      BY <1>3, <2>2, <2>4, MovedIs DEF Moved, TInv
    <2>6. Position(c)' = m
      BY <1>2, <1>5, <2>2, <2>4 DEF Position, Waits
    <2> QED BY <1>2, <1>3, <1>4, <2>4, <2>5, <2>6 DEF Follows
  <1>6. CASE call[c].op = "seek" /\ out # Outcome(files, lastId, Null)
    <2>1. PICK n \in Nat : /\ out = Outcome(Moved(f, n), lastId, n)
                           /\ n <= len[files[f].rec] /\ (call[c].arg <= len[files[f].rec] => n = call[c].arg)
      BY <1>1, <1>3, <1>6, Seeks DEF TInv, CallType, CallFields
    <2>2. files' = Moved(f, n) /\ out.res = n /\ n # Null
      BY <2>1 DEF Outcome, Null
    <2>3. /\ DOMAIN files' = DOMAIN files /\ files'[f].pos = n /\ files'[f].rec = c
          /\ \A i \in DOMAIN files \ {f} : files'[i] = files[i]
      BY <1>3, <2>2 DEF Moved
    <2>4. Position(c)' = n
      BY <1>2, <1>6, <2>2 DEF Position, Waits
    <2> QED BY <1>2, <1>3, <1>4, <1>6, <2>3, <2>4 DEF Follows
  <1>7. CASE call[c].op = "seek" /\ out = Outcome(files, lastId, Null)
    <2>1. files' = files /\ out.res = Null
      BY <1>7 DEF Outcome
    <2>2. Position(c)' = vfs[c].offset
      BY <1>2, <1>7, <2>1 DEF Position, Waits
    <2> QED BY <1>2, <1>3, <1>4, <1>7, <2>1, <2>2 DEF Follows
  <1> QED BY <1>5, <1>6, <1>7

\* The size is asked for, and nothing moves.
LEMMA SendsSize ==
  ASSUME TInv, Calm, NEW c \in Clients, call[c].at = "gate", call[c].op \in {"size", "length"},
         NEW out \in {Executes(call[c].op, call[c].file, c, call[c].arg), Outcome(files, lastId, Null)},
         files' = out.files, out.res \in Results, Sent(c, out.res)
  PROVE  Follows(c)
  <1>1. Steady /\ Free /\ handle[c] # 0
    BY UnderWay DEF Mine, Acts
  <1>2. /\ call'[c].at = "wait" /\ call'[c].res = out.res /\ call'[c].op = call[c].op
        /\ UNCHANGED <<handle, vfs, rebuild>>
    BY SentIs DEF Sent
  <1>3. files' = files
    <2>1. CASE call[c].file \in DOMAIN files
      BY <2>1, Sizes DEF Outcome
    <2>2. CASE call[c].file \notin DOMAIN files
      BY <2>2, NamesNothing DEF Outcome, Requests
    <2> QED BY <2>1, <2>2
  <1>4. (Opened(c)' <=> Opened(c)) /\ ~Waits(c, "open")'
    BY <1>2 DEF Opened, Turn, Waits
  <1>5. \A i : Holds(c, i)' <=> Holds(c, i)
    BY <1>1, <1>2, <1>4 DEF Holds, Free, Waits
  <1>6. Position(c)' = Position(c)
    BY <1>2 DEF Position, Waits
  <1> QED BY <1>1, <1>2, <1>3, <1>4, <1>5, <1>6, NothingMoves DEF Calm

\* The file is gone, and nobody holds it.
LEMMA SendsClose ==
  ASSUME TInv, Calm, NEW c \in Clients, call[c].at = "gate", call[c].op = "close",
         NEW out, out = Executes("close", call[c].file, c, call[c].arg),
         files' = out.files, out.res \in Results, Sent(c, out.res)
  PROVE  Follows(c)
  <1> DEFINE f == vfs[c].id
  <1>1. Steady /\ Free /\ handle[c] = 0 /\ call[c].file = f /\ f # 0
    BY UnderWay DEF Mine, Acts
  <1>2. /\ call'[c].at = "wait" /\ call'[c].op = "close" /\ UNCHANGED <<handle, vfs, rebuild>>
    BY SentIs DEF Sent
  <1>3. \A i : Holds(c, i) <=> i = f
    BY <1>1 DEF Holds, Opened, Waits
  <1>4. ~Opened(c)' /\ ~Waits(c, "open")' /\ \A i : ~Holds(c, i)'
    BY <1>1, <1>2 DEF Holds, Opened, Waits
  <1>5. f \in Nat
    BY DEF TInv, VfsType, VfsFields
  <1>6. f \in DOMAIN files
    BY <1>1, <1>3, <1>5 DEF Calm, Kept
  <1>7. files' = [i \in DOMAIN files \ {f} |-> files[i]]
    BY <1>1, <1>6, Closes, SMTT(30) DEF Outcome
  <1> HIDE DEF f
  <1> QED BY <1>3, <1>4, <1>7 DEF Follows

\* A request is executed.
LEMMA SendsCalm ==
  ASSUME TInv, TInv', Calm, NEW c \in Clients, Sends(c)
  PROVE  (\A d \in Clients : Mine(d)') /\ Held' /\ Kept' /\ Placed' /\ Sought'
  <1>1. call[c].at = "gate" /\ call[c].obj = c /\ call[c].op \in Requests
    BY UnderWay DEF Sends
  <1>2. PICK out \in {Executes(call[c].op, call[c].file, c, call[c].arg), Outcome(files, lastId, Null)} :
          /\ Written(call[c].op, call[c].file, c, call[c].arg, out)
          /\ files' = out.files
          /\ call' = [call EXCEPT ![c].at = "wait", ![c].res = out.res]
    BY <1>1 DEF Sends
  <1>3. out.res \in Results
    <2>1. call[c].file \in Nat /\ call[c].arg \in Nat
      BY DEF TInv, CallType, CallFields
    <2> QED BY <1>1, <1>2, <2>1, RequestTyped DEF TInv
  <1>4. Sent(c, out.res)
    BY <1>2 DEF Sends, Sent, linkVars, recVars, objVars, kodiVars
  <1>5. call[c].op \notin {"open", "seek"} => out = Executes(call[c].op, call[c].file, c, call[c].arg)
    BY <1>2 DEF Written
  <1>6. CASE call[c].op = "open"
    BY <1>1, <1>2, <1>3, <1>4, <1>6, SendsOpen, SentCalm
  <1>7. CASE call[c].op \in {"read", "seek"}
    BY <1>1, <1>2, <1>3, <1>4, <1>5, <1>7, SendsMove, SentCalm
  <1>8. CASE call[c].op \in {"size", "length"}
    BY <1>1, <1>2, <1>3, <1>4, <1>8, SendsSize, SentCalm
  <1>9. CASE call[c].op = "close"
    BY <1>1, <1>2, <1>3, <1>4, <1>5, <1>9, SendsClose, SentCalm
  <1> QED BY <1>1, <1>6, <1>7, <1>8, <1>9 DEF Requests

-----------------------------------------------------------------------------
(***************************************************************************)
(* The client goes on with the response.                                   *)
(***************************************************************************)
\* A call that ends with the file of c, if it has one, where the client has seen it.
LEMMA EndsCalm ==
  ASSUME TInv, TInv', Calm, NEW c \in Clients, call[c].at = "wait",
         call[c].op \in {"read", "seek", "size", "length"},
         NEW x \in CallFields, call' = [call EXCEPT ![c] = x], x.op \in {"none", "size"}, x.at # "wait",
         NEW v \in VfsFields, vfs' = [vfs EXCEPT ![c] = v], v.id = vfs[c].id, v.offset = Position(c),
         OthersSame(c), UNCHANGED <<handle, mVfs, files>>,
         Mine(c)'
  PROVE  (\A d \in Clients : Mine(d)') /\ Held' /\ Kept' /\ Placed' /\ Sought'
  <1>1. Steady /\ Free /\ rebuild' = rebuild /\ handle[c] # 0
    BY UnderWay DEF OthersSame, Mine, Acts
  <1>2. call'[c] = x /\ vfs'[c] = v
    BY DEF TInv, CallType, VfsType
  <1>3. /\ Opened(c) /\ \A i : Holds(c, i) <=> i = vfs[c].id /\ i # 0
    BY <1>1, HoldsItsOwn
  <1>4. Opened(c)' /\ ~Waits(c, "open")' /\ ~Waits(c, "open")
    BY <1>1, <1>2, <1>3 DEF Opened, Turn, Waits
  <1>5. \A i : Holds(c, i)' <=> Holds(c, i)
    BY <1>1, <1>2, <1>3, <1>4 DEF Holds, Waits, Free
  <1>6. Position(c)' = Position(c)
    BY <1>2 DEF Position, Waits
  <1>7. Follows(c)
    BY <1>1, <1>2, <1>3, <1>4, <1>5, <1>6, NothingMoves DEF Calm
  <1> QED BY <1>1, <1>7, ClientActs

\* The id is new to m_vfs, or something is disturbed.
LEMMA OpenReturnsCalm ==
  ASSUME TInv, TInv', Calm, ~disturbed', NEW c \in Clients, OpenReturns(c)
  PROVE  (\A d \in Clients : Mine(d)') /\ Held' /\ Kept' /\ Placed' /\ Sought'
  <1> DEFINE id == call[c].res
  <1>1. /\ Steady /\ handle[c] = 0 /\ call[c].op = "open" /\ call[c].at = "wait" /\ vfs[c] = Closed
        /\ id \in Results /\ id # 0 /\ id \notin DOMAIN mVfs
    BY UnderWay DEF OpenReturns, Answered, Disturb, Mine, Acts, TInv, CallType, CallFields, Sound
  <1>2. /\ call' = [call EXCEPT ![c] = Idle]
        /\ UNCHANGED <<link, pending, rebuild, recs, len, now, drift, files>>
    BY DEF OpenReturns, Returns, linkVars, srvVars, recVars
  <1>3. call'[c] = Idle /\ \A d \in Clients \ {c} : call'[d] = call[d]
    BY <1>2 DEF TInv, CallType
  <1>4. \A i : Holds(c, i) <=> i = id /\ i # Null
    BY <1>1 DEF Holds, Opened, Waits
  <1>5. ~Waits(c, "open")' /\ ~Active(c)' /\ call'[c].op = "none" /\ call'[c].at = "idle"
    BY <1>3, IdleIs DEF Waits, Active
  <1>6. CASE id = Null
    <2>1. UNCHANGED <<vfs, mVfs, handle, want>>
      BY <1>6 DEF OpenReturns
    <2>2. OthersSame(c)
      BY <1>2, <1>3, <2>1 DEF OthersSame
    <2>3. Mine(c)'
      BY <1>1, <1>5, <2>1 DEF Mine, Own, Acts, Counted
    <2>4. ~Opened(c)' /\ \A i : ~Holds(c, i)'
      BY <1>1, <1>5, <2>1 DEF Opened, Holds
    <2>5. Follows(c)
      BY <1>1, <1>2, <1>4, <1>5, <1>6, <2>4, NothingMoves DEF Calm
    <2> QED BY <1>1, <2>1, <2>2, <2>3, <2>5, ClientActs
  <1>7. CASE id # Null
    <2> DEFINE v == [Closed EXCEPT !.id = id]
    <2>1. /\ Free /\ mVfs' = Inserted(id, c) /\ handle' = [handle EXCEPT ![c] = id]
          /\ want' = [want EXCEPT ![c] = 0]
          /\ vfs' = [vfs EXCEPT ![c] = v]
      BY <1>1, <1>7 DEF OpenReturns
    <2>2. v.id = id /\ v.offset = 0 /\ v.eof = -1
      BY DEF Closed
    <2> HIDE DEF v
    <2>3. /\ handle'[c] = id /\ want'[c] = 0 /\ vfs'[c] = v
          /\ \A d \in Clients \ {c} : handle'[d] = handle[d] /\ want'[d] = want[d] /\ vfs'[d] = vfs[d]
      BY <2>1 DEF TInv, MapType, KodiType, VfsType
    <2>4. /\ id \in DOMAIN mVfs' /\ mVfs'[id] = c
          /\ \A i \in DOMAIN mVfs : i \in DOMAIN mVfs' /\ mVfs'[i] = mVfs[i]
      BY <1>1, <2>1 DEF Inserted
    <2>5. OthersSame(c)
      BY <1>2, <1>3, <2>3, <2>4 DEF OthersSame
    <2>6. Mine(c)'
      BY <1>1, <1>2, <1>5, <2>2, <2>3, <2>4 DEF Mine, Own, Acts, Counted, TInv, RecsType
    <2>7. rebuild.todo = {} /\ rebuild.at = "rest"
      BY <2>1 DEF TInv, RebuildType, Free
    <2>8. Opened(c)'
      BY <1>1, <1>2, <2>3, <2>7 DEF Opened
    <2>9. \A i : Holds(c, i)' <=> i = id
      BY <1>1, <1>2, <1>5, <2>2, <2>3, <2>7, <2>8 DEF Holds
    <2>10. Position(c)' = 0
      BY <1>5, <2>2, <2>3 DEF Position, Waits
    <2>11. id \in DOMAIN files /\ files[id].rec = c /\ files[id].pos = 0
      BY <1>1, <1>4, <1>7 DEF Calm, Kept, Placed, Waits, Results
    <2>12. Follows(c)
      BY <1>2, <1>4, <1>5, <1>7, <2>2, <2>3, <2>9, <2>10, <2>11 DEF Follows
    <2> QED BY <1>1, <2>1, <2>5, <2>6, <2>12, ClientActs
  <1> QED BY <1>6, <1>7

\* Nothing has come, so nothing has moved.
LEMMA ReadRetriesCalm ==
  ASSUME TInv, TInv', Calm, NEW c \in Clients, ReadRetries(c)
  PROVE  (\A d \in Clients : Mine(d)') /\ Held' /\ Kept' /\ Placed' /\ Sought'
  <1>1. /\ Steady /\ Free /\ handle[c] # 0 /\ call[c].op = "read" /\ call[c].at = "wait"
        /\ vfs[c].id # 0 /\ call[c].obj = c /\ call[c].res # Null /\ call[c].res <= 0
    BY UnderWay DEF ReadRetries, Answered, Mine, Acts
  <1>2. call[c].res = 0 /\ call[c].tries - 1 \in 0..Tries /\ vfs[c].offset \in Nat
    <2>1. /\ call[c].res \in Results /\ call[c].tries \in 0..Tries /\ call[c].tries > 1
          /\ vfs[c].offset \in Nat
      BY DEF ReadRetries, TInv, CallType, CallFields, VfsType, VfsFields
    <2> QED BY <1>1, <2>1, RecordedAssumption DEF Results, Null
  <1>3. Position(c) = vfs[c].offset
    BY <1>1, <1>2 DEF Position, Waits
  <1>4. call' = [call EXCEPT ![c] = Asks(c, "read", c, 1, call[c].tries - 1)]
    BY <1>1 DEF ReadRetries
  <1>5. UNCHANGED <<link, pending, rebuild, recs, len, now, handle, vfs, want, drift, mVfs, files>>
    BY DEF ReadRetries, linkVars, srvVars, recVars, objVars, kodiVars
  <1> QED BY <1>1, <1>2, <1>3, <1>4, <1>5, AsksCalm

\* What the client reads is at its position, which it thereby leaves.
LEMMA ReadIsRight ==
  ASSUME TInv, Calm, NEW c \in Clients, Answered(c, "read")
  PROVE  /\ Right(c) /\ call[c].res \in Nat /\ want[c] + call[c].res <= len[c]
         /\ Position(c) = vfs[c].offset + call[c].res /\ handle[c] # 0 /\ vfs[c].offset = want[c]
  <1>1. /\ Steady /\ Free /\ handle[c] # 0 /\ call[c].op = "read" /\ call[c].at = "wait"
        /\ vfs[c].id # 0 /\ call[c].file = vfs[c].id /\ call[c].res # Null /\ vfs[c].offset = want[c]
    BY UnderWay DEF Answered, Mine, Acts, Own
  <1>2. Position(c) = vfs[c].offset + call[c].res
    BY <1>1 DEF Position, Waits
  <1>3. /\ vfs[c].id \in DOMAIN files /\ files[vfs[c].id].rec = c
        /\ files[vfs[c].id].pos = want[c] + call[c].res
    BY <1>1, <1>2, HoldsItsOwn
  <1>4. call[c].res \in Nat
    BY <1>1 DEF TInv, CallType, CallFields, Results
  <1>5. files[vfs[c].id] \in File
    BY <1>3 DEF TInv, FilesType
  <1>6. Right(c)
    BY <1>1, <1>3, <1>5 DEF Right, File
  <1>7. want[c] + call[c].res <= len[c]
    BY <1>3 DEF TInv, Within
  <1> QED BY <1>1, <1>2, <1>4, <1>6, <1>7

\* m_offset follows the file, and the data is right.
LEMMA ReadReturnsCalm ==
  ASSUME TInv, TInv', Calm, NEW c \in Clients, ReadReturns(c)
  PROVE  (\A d \in Clients : Mine(d)') /\ Held' /\ Kept' /\ Placed' /\ Sought' /\ ~misread'
  <1> DEFINE n == call[c].res
             v == [vfs[c] EXCEPT !.offset = vfs[c].offset + n]
  <1>1. /\ call[c].op = "read" /\ call[c].at = "wait" /\ call[c].obj = c /\ vfs[c].id # 0 /\ Mine(c)
        /\ Active(c)
    BY UnderWay DEF ReadReturns, Answered, Mine, Acts
  <1>2. /\ Right(c) /\ n \in Nat /\ want[c] + n <= len[c] /\ Position(c) = vfs[c].offset + n
        /\ handle[c] # 0 /\ vfs[c].offset = want[c]
    BY ReadIsRight DEF ReadReturns
  <1>3. /\ call' = [call EXCEPT ![c] = Idle]
        /\ UNCHANGED <<link, pending, rebuild, recs, len, now, handle, mVfs, files>>
    BY DEF ReadReturns, Returns, linkVars, srvVars, recVars
  <1>4. /\ call'[c] = Idle /\ ~Active(c)' /\ call'[c].op = "none"
        /\ \A d \in Clients \ {c} : call'[d] = call[d]
    BY <1>3, IdleIs DEF TInv, CallType, Active
  <1>5. /\ vfs[c] \in VfsFields /\ want[c] \in Nat /\ drift[c] \in Int /\ len[c] \in Nat /\ now \in Nat
        /\ vfs[c].offset \in Nat /\ vfs[c].eof \in Int /\ vfs[c].pausedAt \in Nat
    BY DEF TInv, VfsType, VfsFields, KodiType, RecsType, Counters
  <1>6. /\ v \in VfsFields /\ v.id = vfs[c].id /\ v.offset = vfs[c].offset + n /\ v.eof = vfs[c].eof
        /\ v.paused = vfs[c].paused /\ v.pausedAt = vfs[c].pausedAt
    BY <1>2, <1>5 DEF VfsFields
  <1>7. /\ vfs' = [vfs EXCEPT ![c] = v] /\ want' = [want EXCEPT ![c] = want[c] + n]
        /\ drift' = [drift EXCEPT ![c] = drift[c] - n]
    <2>1. CASE n > 0
      BY <1>1, <2>1 DEF ReadReturns
    <2>2. CASE ~(n > 0)
      <3>1. n = 0 /\ UNCHANGED <<vfs, want, drift>>
        BY <1>2, <2>2 DEF ReadReturns, objVars
      <3>2. v = vfs[c]
        BY <1>5, <3>1 DEF VfsFields
      <3> QED BY <1>5, <3>1, <3>2 DEF TInv, VfsType, KodiType
    <2> QED BY <2>1, <2>2
  <1>8. ~misread'
    BY <1>2 DEF ReadReturns, Calm
  <1> HIDE DEF v
  <1>9. /\ vfs'[c] = v /\ want'[c] = want[c] + n /\ drift'[c] = drift[c] - n
        /\ \A d \in Clients \ {c} : vfs'[d] = vfs[d] /\ want'[d] = want[d] /\ drift'[d] = drift[d]
    BY <1>7 DEF TInv, VfsType, KodiType
  <1>10. OthersSame(c)
    BY <1>3, <1>4, <1>9 DEF OthersSame
  <1>11. Own(c)'
    BY <1>1, <1>2, <1>3, <1>6, <1>9 DEF Mine, Own
  <1>12. Counted(c)'
    <2> DEFINE p == IF vfs[c].paused THEN now - vfs[c].pausedAt ELSE 0
    <2>1. p \in Int
      BY <1>5
    <2>2. SUFFICES ASSUME vfs[c].eof >= 0, recs[c] = "recording"
                   PROVE  len[c] - (vfs[c].offset + n) = vfs[c].eof + (drift[c] - n) + p
      BY <1>3, <1>6, <1>9 DEF Counted
    <2>3. len[c] - vfs[c].offset = vfs[c].eof + drift[c] + p
      BY <1>1, <1>2, <2>2 DEF Mine, Counted
    <2> HIDE DEF p
    <2> QED BY <1>2, <1>5, <2>1, <2>3
  <1>13. Mine(c)'
    BY <1>4, <1>11, <1>12 DEF Mine, Acts
  <1> QED BY <1>1, <1>2, <1>3, <1>6, <1>7, <1>8, <1>10, <1>13, IdleIs, EndsCalm

\* m_offset and Kodi learn the position, a failure being disturbing.
LEMMA SeekReturnsCalm ==
  ASSUME TInv, TInv', Calm, ~disturbed', NEW c \in Clients, SeekReturns(c)
  PROVE  (\A d \in Clients : Mine(d)') /\ Held' /\ Kept' /\ Placed' /\ Sought'
  <1> DEFINE n == call[c].res
             v == [vfs[c] EXCEPT !.offset = n]
             x == IF call[c].tries = 1 THEN Asks(c, "size", c, now, 0) ELSE Idle
  <1>1. /\ call[c].op = "seek" /\ call[c].at = "wait" /\ call[c].obj = c /\ vfs[c].id # 0 /\ handle[c] # 0
        /\ n # Null /\ Mine(c) /\ Steady /\ Free
        /\ call[c].tries # 1 => recs[c] # "recording"
    BY UnderWay DEF SeekReturns, Answered, Disturb, Mine, Acts
  <1>2. n \in Nat /\ vfs[c] \in VfsFields /\ now \in Nat
    BY <1>1 DEF TInv, CallType, CallFields, Results, VfsType, Counters
  <1>3. Position(c) = n
    BY <1>1 DEF Position, Waits
  <1>4. n <= len[c]
    <2>1. vfs[c].id \in DOMAIN files /\ files[vfs[c].id].rec = c /\ files[vfs[c].id].pos = n
      BY <1>1, <1>3, HoldsItsOwn
    <2> QED BY <2>1 DEF TInv, Within
  <1>5. /\ vfs' = [vfs EXCEPT ![c] = v] /\ want' = [want EXCEPT ![c] = n]
        /\ UNCHANGED <<link, pending, rebuild, recs, len, now, handle, mVfs, files, drift>>
    BY <1>1 DEF SeekReturns, linkVars, srvVars, recVars
  <1>6. call' = [call EXCEPT ![c] = x]
    BY <1>1 DEF SeekReturns
  <1>7. /\ x \in CallFields /\ x.at # "wait"
        /\ \/ call[c].tries = 1 /\ x.op = "size" /\ x.obj = c
           \/ call[c].tries # 1 /\ x.op = "none" /\ x.at = "idle"
    <2>1. CASE call[c].tries = 1
      <3>1. 0 \in 0..Tries /\ "size" \in Requests
        BY RecordedAssumption DEF Requests
      <3>2. /\ Asks(c, "size", c, now, 0) \in CallFields
            /\ Asks(c, "size", c, now, 0) = [op |-> "size", at |-> "gate", obj |-> c, file |-> vfs[c].id,
                                             arg |-> now, res |-> Null, tries |-> 0]
        BY <1>2, <3>1, AskIs
      <3> QED BY <2>1, <3>2
    <2>2. CASE call[c].tries # 1
      BY <2>2, IdleIs
    <2> QED BY <2>1, <2>2
  <1>8. v \in VfsFields /\ v.id = vfs[c].id /\ v.offset = n
    BY <1>2 DEF VfsFields
  <1> HIDE DEF v, x
  <1>9. /\ vfs'[c] = v /\ want'[c] = n /\ call'[c] = x
        /\ \A d \in Clients \ {c} : vfs'[d] = vfs[d] /\ want'[d] = want[d] /\ call'[d] = call[d]
    BY <1>5, <1>6 DEF TInv, VfsType, KodiType, CallType
  <1>10. OthersSame(c)
    BY <1>5, <1>9 DEF OthersSame
  <1>11. Own(c)'
    BY <1>1, <1>4, <1>5, <1>8, <1>9 DEF Mine, Own
  <1>12. Counted(c)' /\ Acts(c)'
    BY <1>1, <1>5, <1>7, <1>9 DEF Counted, Acts, Active
  <1> QED BY <1>1, <1>3, <1>5, <1>6, <1>7, <1>8, <1>10, <1>11, <1>12, EndsCalm DEF Mine

\* The distance to the end is measured anew.
LEMMA SizeReturnsCalm ==
  ASSUME TInv, TInv', Calm, NEW c \in Clients, SizeReturns(c)
  PROVE  (\A d \in Clients : Mine(d)') /\ Held' /\ Kept' /\ Placed' /\ Sought'
  <1> DEFINE eof == Distance(call[c].res, call[c].arg, vfs[c].offset)
             w == WithEof(vfs[c], eof)
             v == [w EXCEPT !.pausedAt = IF vfs[c].paused THEN now ELSE vfs[c].pausedAt]
  <1>1. /\ call[c].op = "size" /\ call[c].at = "wait" /\ call[c].obj = c /\ handle[c] # 0 /\ Mine(c)
    BY UnderWay DEF SizeReturns, Answered, Mine, Acts
  <1>2. /\ vfs' = [vfs EXCEPT ![c] = v]
        /\ drift' = [drift EXCEPT ![c] = len[c] - vfs[c].offset - eof]
    BY <1>1 DEF SizeReturns
  <1>3. /\ call' = [call EXCEPT ![c] = Idle]
        /\ UNCHANGED <<link, pending, rebuild, recs, len, now, handle, mVfs, files, want>>
    BY DEF SizeReturns, Returns, linkVars, srvVars, recVars, kodiVars
  <1>4. /\ vfs[c] \in VfsFields /\ vfs[c].offset \in Nat /\ vfs[c].pausedAt \in Nat /\ now \in Nat
        /\ len[c] \in Nat
    BY DEF TInv, VfsType, VfsFields, RecsType, Counters
  <1>5. eof \in Int
    BY <1>4, DistanceIs DEF TInv, CallType, CallFields
  <1> HIDE DEF eof
  <1>6. /\ w \in VfsFields /\ w.id = vfs[c].id /\ w.offset = vfs[c].offset /\ w.eof = eof
        /\ w.paused = vfs[c].paused
    BY <1>4, <1>5, EofIs
  <1> HIDE DEF w
  <1>7. /\ v \in VfsFields /\ v.id = vfs[c].id /\ v.offset = vfs[c].offset /\ v.eof = eof
        /\ v.paused = vfs[c].paused /\ v.pausedAt = IF vfs[c].paused THEN now ELSE vfs[c].pausedAt
    BY <1>4, <1>6 DEF VfsFields
  <1> HIDE DEF v
  <1>8. /\ call'[c] = Idle /\ ~Active(c)' /\ call'[c].op = "none"
        /\ \A d \in Clients \ {c} : call'[d] = call[d]
    BY <1>3, IdleIs DEF TInv, CallType, Active
  <1>9. /\ vfs'[c] = v /\ drift'[c] = len[c] - vfs[c].offset - eof
        /\ \A d \in Clients \ {c} : vfs'[d] = vfs[d] /\ drift'[d] = drift[d]
    BY <1>2 DEF TInv, VfsType, KodiType
  <1>10. OthersSame(c)
    BY <1>3, <1>8, <1>9 DEF OthersSame
  <1>11. Own(c)'
    BY <1>1, <1>3, <1>7, <1>9 DEF Mine, Own
  <1>12. Counted(c)'
    <2>1. now - now = 0
      BY <1>4
    <2>2. eof + (len[c] - vfs[c].offset - eof) + 0 = len[c] - vfs[c].offset
      BY <1>4, <1>5
    <2> QED BY <1>3, <1>7, <1>9, <2>1, <2>2 DEF Counted
  <1>13. Mine(c)'
    BY <1>8, <1>11, <1>12 DEF Mine, Acts
  <1>14. Position(c) = vfs[c].offset
    BY <1>1 DEF Position, Waits
  <1> QED BY <1>1, <1>2, <1>3, <1>7, <1>10, <1>13, <1>14, IdleIs, EndsCalm

\* The length changes nothing.
LEMMA LengthReturnsCalm ==
  ASSUME TInv, TInv', Calm, NEW c \in Clients, LengthReturns(c)
  PROVE  (\A d \in Clients : Mine(d)') /\ Held' /\ Kept' /\ Placed' /\ Sought'
  <1>1. /\ call[c].op = "length" /\ call[c].at = "wait" /\ handle[c] # 0 /\ Mine(c)
    BY UnderWay DEF LengthReturns, Answered, Mine, Acts
  <1>2. /\ call' = [call EXCEPT ![c] = Idle]
        /\ UNCHANGED <<link, pending, rebuild, recs, len, now, handle, mVfs, files, want, drift, vfs>>
    BY DEF LengthReturns, Returns, linkVars, srvVars, recVars, kodiVars, objVars
  <1>3. /\ call'[c] = Idle /\ ~Active(c)' /\ call'[c].op = "none"
        /\ \A d \in Clients \ {c} : call'[d] = call[d]
    BY <1>2, IdleIs DEF TInv, CallType, Active
  <1>4. OthersSame(c)
    BY <1>2, <1>3 DEF OthersSame
  <1>5. Mine(c)'
    BY <1>1, <1>2, <1>3 DEF Mine, Own, Acts, Counted
  <1>6. Position(c) = vfs[c].offset /\ vfs[c] \in VfsFields /\ vfs' = [vfs EXCEPT ![c] = vfs[c]]
    BY <1>1, <1>2 DEF Position, Waits, TInv, VfsType
  <1> QED BY <1>1, <1>2, <1>4, <1>5, <1>6, IdleIs, EndsCalm

\* The object of a client that has no id is closed.
LEMMA CloseReturnsCalm ==
  ASSUME TInv, TInv', Calm, NEW c \in Clients, CloseReturns(c)
  PROVE  (\A d \in Clients : Mine(d)') /\ Held' /\ Kept' /\ Placed' /\ Sought'
  <1>1. /\ call[c].op = "close" /\ call[c].at = "wait" /\ call[c].obj = c /\ handle[c] = 0 /\ Steady
        /\ Free
    BY UnderWay DEF CloseReturns, Answered, Mine, Acts
  <1>2. /\ call' = [call EXCEPT ![c] = Idle] /\ vfs' = [vfs EXCEPT ![c] = Closed]
        /\ UNCHANGED <<link, pending, rebuild, recs, len, now, handle, mVfs, files, want, drift>>
    BY <1>1 DEF CloseReturns, Returns, linkVars, srvVars, recVars, kodiVars
  <1>3. /\ call'[c] = Idle /\ ~Active(c)' /\ call'[c].op = "none" /\ call'[c].at = "idle"
        /\ \A d \in Clients \ {c} : call'[d] = call[d] /\ vfs'[d] = vfs[d]
    BY <1>2, IdleIs DEF TInv, CallType, VfsType, Active
  <1>4. OthersSame(c)
    BY <1>2, <1>3 DEF OthersSame
  <1>5. Mine(c)'
    BY <1>1, <1>2, <1>3 DEF Mine, Own, Acts, Counted
  <1>6. (\A i : ~Holds(c, i) /\ ~Holds(c, i)') /\ ~Opened(c)' /\ ~Waits(c, "open")'
    BY <1>1, <1>2, <1>3 DEF Holds, Opened, Waits
  <1>7. Follows(c)
    BY <1>1, <1>2, <1>6, NothingMoves DEF Calm
  <1> QED BY <1>1, <1>4, <1>5, <1>7, ClientActs

-----------------------------------------------------------------------------
(***************************************************************************)
(* The rebuild.                                                            *)
(***************************************************************************)
\* The object is that of the client whose turn it is.
LEMMA WhoseTurn ==
  ASSUME TInv, Calm, rebuild.at # "rest"
  PROVE  /\ Object \in Clients /\ handle[Object] # 0 /\ Turn(Object) /\ Steady
         /\ \A d \in Clients : handle[d] # 0 /\ Turn(d) => d = Object
         /\ \A d \in Clients : Active(d) => call[d].op = "open" /\ handle[d] = 0
         /\ ~Active(Object) /\ call[Object].op = "none"
  <1>1. /\ Min(rebuild.todo) \in rebuild.todo /\ Min(rebuild.todo) \in DOMAIN mVfs
        /\ Object \in Clients
    BY ObjectIsAClient DEF TInv
  <1>2. handle[Object] = Min(rebuild.todo) /\ handle[Object] # 0 /\ Turn(Object)
    BY <1>1 DEF TInv, Named, Object, Turn
  <1>3. \A d \in Clients : handle[d] # 0 /\ Turn(d) => d = Object
    BY DEF Calm, Mine, Own, Turn, Object
  <1>4. \A d \in Clients : Active(d) => call[d].op = "open" /\ handle[d] = 0
    BY DEF Calm, Connection, Free, TInv, CallType, Sound
  <1>5. ~Active(Object) /\ call[Object].op = "none"
    BY <1>1, <1>2, <1>4 DEF TInv, CallType, Sound
  <1> QED BY <1>1, <1>2, <1>3, <1>4, <1>5 DEF Calm, Connection, Free

\* A step of the rebuild with the object of o.
RebuildSame(o) ==
  /\ UNCHANGED <<link, pending, recs, len, now, handle, call, want, drift, mVfs, misread>>
  /\ \A d \in Clients \ {o} : vfs'[d] = vfs[d]

NextTurn == rebuild' = NextObject
SameTurn == rebuild'.todo = rebuild.todo
  /\ rebuild' \in [at : {"opened", "seeked"}, todo : SUBSET Nat, res : Results]

\* The rebuild goes on with the next object, or is over.
LEMMA NextIs ==
  ASSUME TInv, rebuild.at # "rest", NextTurn
  PROVE  rebuild'.todo = rebuild.todo \ {Min(rebuild.todo)} /\ rebuild'.at \in {"rest", "open"}
  <1> DEFINE others == rebuild.todo \ {Min(rebuild.todo)}
  <1>1. CASE others = {}
    BY <1>1 DEF NextTurn, NextObject, Rest
  <1>2. CASE others # {}
    BY <1>2 DEF NextTurn, NextObject, Rest
  <1> QED BY <1>1, <1>2

\* A step of the rebuild leaves the other objects alone.
LEMMA OthersWait ==
  ASSUME TInv, Calm, rebuild.at # "rest", NEW o \in Clients, o = Object, RebuildSame(o),
         NextTurn \/ SameTurn
  PROVE  OthersHold(o) /\ \A d \in Clients \ {o} : Mine(d)'
  <1>0. Turn(o) /\ \A d \in Clients : handle[d] # 0 /\ Turn(d) => d = o
    BY WhoseTurn
  <1> SUFFICES ASSUME NEW d \in Clients \ {o}
               PROVE  /\ \A i : Holds(d, i)' <=> Holds(d, i)
                      /\ Opened(d)' <=> Opened(d)
                      /\ Position(d)' = Position(d) /\ vfs'[d].id = vfs[d].id
                      /\ Waits(d, "open")' <=> Waits(d, "open")
                      /\ call'[d].res = call[d].res
                      /\ Mine(d)'
    BY DEF OthersHold
  <1>1. /\ vfs'[d] = vfs[d] /\ handle' = handle /\ call' = call /\ want' = want /\ mVfs' = mVfs
        /\ len' = len /\ recs' = recs /\ now' = now /\ drift' = drift
    BY DEF RebuildSame
  <1>2. handle[d] = 0 \/ ~Turn(d)
    BY <1>0
  <1>3. handle[d] # 0 => (handle[d] \in rebuild'.todo <=> handle[d] \in rebuild.todo)
    BY <1>2, NextIs DEF Turn, SameTurn
  <1>4. handle[d] # 0 /\ Turn(d)' => rebuild'.at \notin {"opened", "seeked"}
    <2>1. CASE NextTurn
      BY <2>1, NextIs
    <2>2. CASE SameTurn
      BY <1>1, <1>2, <2>2 DEF SameTurn, Turn
    <2> QED BY <2>1, <2>2
  <1>5. Opened(d)' <=> Opened(d)
    BY <1>1, <1>2, <1>3, <1>4 DEF Opened
  <1>6. \A op : Waits(d, op)' <=> Waits(d, op)
    BY <1>1 DEF Waits
  <1>7. \A i : Holds(d, i)' <=> Holds(d, i)
    BY <1>1, <1>2, <1>4, <1>5, <1>6 DEF Holds
  <1>8. Position(d)' = Position(d)
    BY <1>1, <1>6 DEF Position
  <1>9. Mine(d)'
    BY <1>1 DEF Calm, Mine, Own, Acts, Active, Counted
  <1> QED BY <1>1, <1>5, <1>6, <1>7, <1>8, <1>9

\* A rebuild starts with no file open: every object is still to be opened.
LEMMA StartsCalm ==
  ASSUME TInv, TInv', Calm, SyncInitCompleted
  PROVE  (\A d \in Clients : Mine(d)') /\ Held' /\ Kept' /\ Placed' /\ Sought'
  <1>1. /\ ~Steady /\ DOMAIN files = {} /\ files' = files
        /\ UNCHANGED <<recs, len, now, handle, call, want, drift, mVfs, vfs>>
    BY DEF SyncInitCompleted, Steady, Calm, Connection, srvVars, recVars, objVars, kodiVars
  <1>2. \A d \in Clients : Mine(d)'
    BY <1>1 DEF Calm, Mine, Own, Acts, Active, Counted
  <1>3. \A d \in Clients : call[d].op = "none" /\ call[d].at = "idle"
    BY DEF SyncInitCompleted, Calm, Connection, TInv, CallType, Sound, Active
  <1>4. rebuild'.at \in {"rest", "open"} /\ \A d \in Clients : handle[d] # 0 => handle[d] \in rebuild'.todo
    <2>1. \A d \in Clients : handle[d] # 0 => handle[d] \in DOMAIN mVfs
      BY DEF Calm, Mine, Own
    <2>2. CASE DOMAIN mVfs = {}
      BY <2>1, <2>2 DEF SyncInitCompleted, Rest
    <2>3. CASE DOMAIN mVfs # {}
      BY <2>1, <2>3 DEF SyncInitCompleted, Rest
    <2> QED BY <2>2, <2>3
  <1>5. \A d \in Clients : ~Opened(d)' /\ ~Waits(d, "open")' /\ \A i : ~Holds(d, i)'
    BY <1>1, <1>3, <1>4 DEF Opened, Holds, Waits
  <1>6. Held' /\ Kept' /\ Placed'
    BY <1>1, <1>5 DEF Held, Kept, Placed
  <1>7. Sought'
    BY <1>4 DEF Sought
  <1> QED BY <1>2, <1>6, <1>7

\* What is left to look at: the object whose turn it is.
LEMMA ObjectRebuilt ==
  ASSUME TInv, TInv', Calm, rebuild.at # "rest", NEW o \in Clients, o = Object, RebuildSame(o),
         NextTurn \/ SameTurn,
         Mine(o)', Follows(o)
  PROVE  (\A d \in Clients : Mine(d)') /\ Held' /\ Kept' /\ Placed'
  <1>1. Steady
    BY WhoseTurn
  <1>2. OthersHold(o) /\ \A d \in Clients : Mine(d)'
    BY OthersWait
  <1> QED BY <1>1, <1>2, FilesFollow DEF Calm

\* An object without a file is left alone.
LEMMA SkipsCalm ==
  ASSUME TInv, TInv', Calm, RebuildState, vfs[Object].id = 0
  PROVE  (\A d \in Clients : Mine(d)') /\ Held' /\ Kept' /\ Placed' /\ Sought'
  <1>0. PICK o \in Clients : o = Object
    BY ObjectIsAClient DEF RebuildState, TInv
  <1>1. /\ rebuild.at = "open" /\ NextTurn /\ files' = files /\ vfs' = vfs /\ mVfs' = mVfs /\ call' = call
        /\ handle' = handle
        /\ RebuildSame(o)
    BY DEF RebuildState, NextTurn, RebuildSame, linkVars, srvVars, recVars, objVars, kodiVars
  <1>2. handle[o] # 0 /\ Turn(o) /\ call[o].op = "none" /\ call[o].at = "idle" /\ Steady
    BY <1>0, <1>1, WhoseTurn DEF Active
  <1>3. rebuild'.at \in {"rest", "open"}
    BY <1>1, NextIs
  <1>4. Mine(o)'
    BY <1>1, <1>2 DEF Calm, Mine, Own, Acts, Active, Counted, RebuildSame
  <1>5. vfs[o].id = 0
    BY <1>0
  <1>6. \A i : ~Holds(o, i) /\ ~Holds(o, i)'
    BY <1>1, <1>2, <1>3, <1>5 DEF Holds, Waits
  <1>7. ~Waits(o, "open")'
    BY <1>1, <1>2 DEF Waits
  <1>8. Follows(o)
    BY <1>1, <1>5, <1>6, <1>7 DEF Follows
  <1>9. Sought'
    BY <1>3 DEF Sought
  <1> QED BY <1>0, <1>1, <1>4, <1>8, <1>9, ObjectRebuilt

\* The new file is that of the object, which learns of it next.
LEMMA ReopensCalm ==
  ASSUME TInv, TInv', Calm, ~disturbed', RebuildState, vfs[Object].id # 0
  PROVE  (\A d \in Clients : Mine(d)') /\ Held' /\ Kept' /\ Placed' /\ Sought'
  <1>0. PICK o \in Clients : o = Object
    BY ObjectIsAClient DEF RebuildState, TInv
  <1>1. /\ rebuild.at = "open" /\ RebuildAsks("open", 0, 0, "opened") /\ vfs' = vfs /\ mVfs' = mVfs
        /\ call' = call /\ handle' = handle
        /\ RebuildSame(o)
    BY DEF RebuildState, RebuildSame, linkVars, recVars, objVars, kodiVars
  <1>2. handle[o] # 0 /\ Turn(o) /\ call[o].op = "none" /\ call[o].at = "idle" /\ Steady
    BY <1>0, <1>1, WhoseTurn DEF Active
  <1>3. PICK out \in {Executes("open", 0, o, 0), Outcome(files, lastId, Null)} :
          /\ files' = out.files /\ lastId' = out.last /\ out.res # Null
          /\ rebuild' = [rebuild EXCEPT !.at = "opened", !.res = out.res]
    BY <1>0, <1>1 DEF RebuildAsks, Disturb
  <1>4. Sought'
    BY <1>1, <1>3 DEF Sought, Object, TInv, RebuildType
  <1> DEFINE f == [i \in DOMAIN files \cup {lastId + 1} |->
                     IF i = lastId + 1 THEN [rec |-> o, pos |-> 0] ELSE files[i]]
  <1>5. out = Outcome(f, lastId + 1, lastId + 1)
    BY <1>3, Opens DEF Outcome
  <1>6. files' = f /\ out.res = lastId + 1
    BY <1>3, <1>5 DEF Outcome
  <1>7. /\ DOMAIN files' = DOMAIN files \cup {lastId + 1}
        /\ lastId + 1 \notin DOMAIN files
        /\ \A i \in DOMAIN files : files'[i] = files[i]
        /\ files'[lastId + 1].rec = o /\ files'[lastId + 1].pos = 0
    BY <1>6 DEF TInv, FilesType
  <1> HIDE DEF f
  <1>8. /\ rebuild'.at = "opened" /\ rebuild'.res = lastId + 1 /\ rebuild'.todo = rebuild.todo
        /\ lastId + 1 # Null /\ SameTurn
    BY <1>3, <1>6 DEF TInv, FilesType, RebuildType, MapType, SameTurn, Null, Results
  <1>9. Mine(o)'
    BY <1>1, <1>2 DEF Calm, Mine, Own, Acts, Active, Counted, RebuildSame
  <1>10. Turn(o)' /\ ~Opened(o)' /\ ~Waits(o, "open")'
    BY <1>1, <1>2, <1>8 DEF Turn, Opened, Waits
  <1>11. \A i : ~Holds(o, i)
    BY <1>1, <1>2 DEF Holds, Opened, Turn, Waits
  <1>12. \A i : Holds(o, i)' <=> i = lastId + 1
    BY <1>1, <1>2, <1>8, <1>10 DEF Holds
  <1>13. Follows(o)
    BY <1>7, <1>10, <1>11, <1>12 DEF Follows
  <1> QED BY <1>0, <1>1, <1>4, <1>8, <1>9, <1>13, ObjectRebuilt

\* The file goes to where the object is.
LEMMA SeeksAgainCalm ==
  ASSUME TInv, TInv', Calm, ~disturbed', RebuildSeeks
  PROVE  (\A d \in Clients : Mine(d)') /\ Held' /\ Kept' /\ Placed' /\ Sought'
  <1> DEFINE f == rebuild.res
  <1>0. PICK o \in Clients : o = Object
    BY ObjectIsAClient DEF RebuildSeeks, TInv
  <1>1. /\ rebuild.at = "opened" /\ rebuild.res # Null
        /\ RebuildAsks("seek", f, vfs[o].offset, "seeked")
        /\ vfs' = [vfs EXCEPT ![o].id = f] /\ mVfs' = mVfs /\ call' = call /\ handle' = handle
        /\ UNCHANGED <<link, pending, recs, len, now, want, drift, misread>>
    BY <1>0 DEF RebuildSeeks, linkVars, recVars, kodiVars
  <1>2. /\ handle[o] # 0 /\ Turn(o) /\ call[o].op = "none" /\ call[o].at = "idle" /\ Steady
        /\ Mine(o)
    BY <1>0, <1>1, WhoseTurn DEF Active, Calm
  <1>3. \A i : Holds(o, i) <=> i = f
    <2>1. ~Opened(o)
      BY <1>1, <1>2 DEF Opened, Turn
    <2>2. rebuild.at = "opened" /\ handle[o] # 0 /\ Turn(o) /\ f # Null /\ call[o].op = "none"
      BY <1>1, <1>2
    <2> QED BY <2>1, <2>2 DEF Holds, Waits
  <1>4. f \in Nat /\ vfs[o] \in VfsFields /\ vfs[o].offset \in Nat
    BY <1>1 DEF TInv, RebuildType, Results, VfsType, VfsFields
  <1>5. f \in DOMAIN files /\ files[f].rec = o /\ f # 0
    <2>1. f \in DOMAIN files /\ files[f].rec = o
      BY <1>2, <1>3, <1>4 DEF Calm, Kept
    <2> QED BY <2>1 DEF TInv, FilesType
  <1>6. PICK out \in {Executes("seek", f, o, vfs[o].offset), Outcome(files, lastId, Null)} :
          /\ files' = out.files /\ lastId' = out.last /\ out.res # Null
          /\ rebuild' = [rebuild EXCEPT !.at = "seeked", !.res = out.res]
    BY <1>0, <1>1 DEF RebuildAsks, Disturb
  <1>7. vfs[o].offset <= len[o]
    BY <1>2 DEF Mine, Own
  <1>8. out = Outcome(Moved(f, vfs[o].offset), lastId, vfs[o].offset)
    <2>1. out = Executes("seek", f, o, vfs[o].offset)
      BY <1>6 DEF Outcome
    <2>2. PICK n \in Nat : /\ Executes("seek", f, o, vfs[o].offset) = Outcome(Moved(f, n), lastId, n)
                           /\ n <= len[files[f].rec]
                           /\ (vfs[o].offset <= len[files[f].rec] => n = vfs[o].offset)
      BY <1>4, <1>5, Seeks DEF TInv
    <2>3. n = vfs[o].offset
      BY <1>5, <1>7, <2>2
    <2> QED BY <2>1, <2>2, <2>3
  <1>9. files' = Moved(f, vfs[o].offset) /\ out.res = vfs[o].offset
    BY <1>6, <1>8 DEF Outcome
  <1>10. /\ DOMAIN files' = DOMAIN files /\ files'[f].rec = o /\ files'[f].pos = vfs[o].offset
         /\ \A i \in DOMAIN files \ {f} : files'[i] = files[i]
    BY <1>5, <1>9 DEF Moved
  <1>11. /\ rebuild'.at = "seeked" /\ rebuild'.res = vfs[o].offset /\ rebuild'.todo = rebuild.todo
         /\ SameTurn
    BY <1>4, <1>6, <1>9 DEF TInv, RebuildType, MapType, SameTurn, Results
  <1> DEFINE v == [vfs[o] EXCEPT !.id = f]
  <1>12. /\ v.id = f /\ v.offset = vfs[o].offset /\ v.eof = vfs[o].eof /\ v.paused = vfs[o].paused
         /\ v.pausedAt = vfs[o].pausedAt
    BY <1>4 DEF VfsFields
  <1>13. vfs' = [vfs EXCEPT ![o] = v]
    BY <1>1
  <1> HIDE DEF v
  <1>14. vfs'[o] = v /\ \A d \in Clients \ {o} : vfs'[d] = vfs[d]
    BY <1>13 DEF TInv, VfsType
  <1>15. RebuildSame(o)
    BY <1>1, <1>14 DEF RebuildSame
  <1>16. Mine(o)'
    BY <1>1, <1>2, <1>5, <1>12, <1>14 DEF Mine, Own, Acts, Active, Counted
  <1>17. Turn(o)' /\ Opened(o)' /\ ~Waits(o, "open")'
    BY <1>1, <1>2, <1>11 DEF Turn, Opened, Waits
  <1>18. \A i : Holds(o, i)' <=> i = f
    BY <1>1, <1>2, <1>5, <1>11, <1>12, <1>14, <1>17 DEF Holds, Waits
  <1>19. Position(o)' = vfs[o].offset
    BY <1>1, <1>2, <1>12, <1>14 DEF Position, Waits
  <1>20. Follows(o)
    BY <1>3, <1>5, <1>10, <1>12, <1>14, <1>17, <1>18, <1>19 DEF Follows
  <1>21. Sought'
    <2>1. Object' = o
      BY <1>0, <1>1, <1>11 DEF Object
    <2> QED BY <1>5, <1>6, <1>9, <1>11, <1>12, <1>14, <2>1 DEF Sought
  <1> QED BY <1>0, <1>1, <1>11, <1>15, <1>16, <1>20, <1>21, ObjectRebuilt

\* The position is what it was.
LEMMA SoughtCalm ==
  ASSUME TInv, TInv', Calm, RebuildSought
  PROVE  (\A d \in Clients : Mine(d)') /\ Held' /\ Kept' /\ Placed' /\ Sought'
  <1>0. PICK o \in Clients : o = Object
    BY ObjectIsAClient DEF RebuildSought, TInv
  <1>1. /\ rebuild.at = "seeked" /\ NextTurn /\ files' = files /\ mVfs' = mVfs /\ call' = call
        /\ handle' = handle
        /\ vfs' = IF rebuild.res = Null THEN vfs ELSE [vfs EXCEPT ![o].offset = rebuild.res]
        /\ UNCHANGED <<link, pending, recs, len, now, want, drift, misread>>
    BY <1>0 DEF RebuildSought, NextTurn, linkVars, srvVars, recVars, kodiVars
  <1>2. /\ handle[o] # 0 /\ Turn(o) /\ call[o].op = "none" /\ call[o].at = "idle" /\ Steady
        /\ Mine(o)
    BY <1>0, <1>1, WhoseTurn DEF Active, Calm
  <1>3. rebuild.res = vfs[o].offset
    BY <1>0, <1>1 DEF Calm, Sought
  <1>4. vfs' = vfs
    <2>1. [vfs[o] EXCEPT !.offset = vfs[o].offset] = vfs[o]
      BY DEF TInv, VfsType, VfsFields
    <2>2. [vfs EXCEPT ![o].offset = vfs[o].offset] = vfs
      BY <2>1 DEF TInv, VfsType
    <2> QED BY <1>1, <1>3, <2>2
  <1>5. rebuild'.at \in {"rest", "open"} /\ rebuild'.todo = rebuild.todo \ {Min(rebuild.todo)}
    BY <1>1, NextIs
  <1>6. RebuildSame(o)
    BY <1>1, <1>4 DEF RebuildSame
  <1>7. Mine(o)'
    BY <1>1, <1>2, <1>4 DEF Mine, Own, Acts, Active, Counted
  <1>8. Opened(o) /\ Opened(o)' /\ ~Waits(o, "open")'
    BY <1>1, <1>2, <1>5 DEF Turn, Opened, Waits
  <1>9. \A i : Holds(o, i)' <=> Holds(o, i)
    BY <1>1, <1>2, <1>4, <1>5, <1>8 DEF Holds, Waits
  <1>10. Position(o)' = Position(o)
    BY <1>1, <1>4 DEF Position, Waits
  <1>11. Follows(o)
    BY <1>1, <1>2, <1>4, <1>8, <1>9, <1>10, NothingMoves DEF Calm
  <1>12. Sought'
    BY <1>5 DEF Sought
  <1> QED BY <1>0, <1>1, <1>6, <1>7, <1>11, <1>12, ObjectRebuilt

\* A stream at its start is closed; the client can still close or open it.
LEMMA ClosesAgainCalm ==
  ASSUME TInv, TInv', Calm, ~disturbed', RebuildCloses
  PROVE  (\A d \in Clients : Mine(d)') /\ Held' /\ Kept' /\ Placed' /\ Sought'
  <1>0. PICK o \in Clients : o = Object
    BY ObjectIsAClient DEF RebuildCloses, TInv
  <1>1. /\ rebuild.at = "seeked" /\ rebuild.res = 0 /\ vfs[o].offset = 0 /\ vfs[o].id # 0
    BY <1>0 DEF RebuildCloses, SoughtWell, Calm, Sought
  <1>2. /\ files' = Executes("close", vfs[o].id, o, 0).files
        /\ NextTurn /\ mVfs' = mVfs /\ call' = call /\ handle' = handle
        /\ vfs' = [vfs EXCEPT ![o] = Closed]
        /\ UNCHANGED <<link, pending, recs, len, now, want, drift, misread>>
    BY <1>0 DEF RebuildCloses, NextTurn, Disturb, linkVars, recVars, kodiVars
  <1>3. /\ handle[o] # 0 /\ Turn(o) /\ call[o].op = "none" /\ call[o].at = "idle" /\ Steady
        /\ Mine(o)
    BY <1>0, <1>1, WhoseTurn DEF Active, Calm
  <1>4. Opened(o) /\ \A i : Holds(o, i) <=> i = vfs[o].id
    BY <1>1, <1>3 DEF Opened, Holds, Waits
  <1>5. vfs[o].id \in DOMAIN files
    BY <1>1, <1>3, <1>4 DEF Calm, Kept, TInv, VfsType, VfsFields
  <1>6. files' = [i \in DOMAIN files \ {vfs[o].id} |-> files[i]]
    <2>1. Executes("close", vfs[o].id, o, 0)
            = Outcome([i \in DOMAIN files \ {vfs[o].id} |-> files[i]], lastId, 0)
      BY <1>5, Closes DEF TInv
    <2> QED BY <1>2, <2>1 DEF Outcome
  <1>7. rebuild'.at \in {"rest", "open"}
    BY <1>1, <1>2, NextIs
  <1>8. vfs'[o] = Closed /\ \A d \in Clients \ {o} : vfs'[d] = vfs[d]
    BY <1>2 DEF TInv, VfsType
  <1>9. RebuildSame(o)
    BY <1>2, <1>8 DEF RebuildSame
  <1>10. Mine(o)'
    BY <1>1, <1>2, <1>3, <1>8, ClosedIs DEF Mine, Own, Acts, Active, Counted
  <1>11. ~Waits(o, "open")' /\ \A i : ~Holds(o, i)'
    BY <1>2, <1>3, <1>7, <1>8, ClosedIs DEF Holds, Waits
  <1>12. Follows(o)
    BY <1>4, <1>6, <1>8, <1>11, ClosedIs DEF Follows
  <1>13. Sought'
    BY <1>7 DEF Sought
  <1> QED BY <1>0, <1>1, <1>2, <1>9, <1>10, <1>12, <1>13, ObjectRebuilt

-----------------------------------------------------------------------------
(***************************************************************************)
(* The connection, the recordings and the clock.                           *)
(***************************************************************************)
\* Nothing that the files depend on has changed.
LEMMA FilesRest ==
  ASSUME Calm, UNCHANGED <<files, handle, vfs, call, rebuild, mVfs>>, Steady' => Steady
  PROVE  Held' /\ Kept' /\ Placed' /\ Sought'
  <1>1. \A d \in Clients : \A i : Holds(d, i)' <=> Holds(d, i)
    BY DEF Holds, Opened, Turn, Waits
  <1>2. \A d \in Clients : /\ Opened(d)' <=> Opened(d)
                           /\ Waits(d, "open")' <=> Waits(d, "open")
                           /\ Position(d)' = Position(d)
    BY DEF Opened, Turn, Waits, Position
  <1>3. Object' = Object
    BY DEF Object
  <1>4. Sought'
    BY <1>3 DEF Calm, Sought
  <1> QED BY <1>1, <1>2, <1>4 DEF Calm, Held, Kept, Placed

\* A connection that is not rebuilt has no files that matter.
LEMMA LinkCalm ==
  ASSUME TInv, Calm, ~disturbed', Loses \/ Reconnects \/ Registers
  PROVE  (\A d \in Clients : Mine(d)') /\ Held' /\ Kept' /\ Placed' /\ Sought'
  <1>1. UNCHANGED <<recs, len, now, handle, call, rebuild, want, drift, mVfs, vfs>>
    BY DEF Loses, Reconnects, Registers, recVars, objVars, kodiVars
  <1>2. \A d \in Clients : Mine(d)'
    BY <1>1 DEF Calm, Mine, Own, Acts, Active, Counted
  <1>3. CASE Loses \/ Reconnects
    <2>1. ~Steady'
      BY <1>3 DEF Loses, Reconnects, Steady
    <2>2. Object' = Object
      BY <1>1 DEF Object
    <2>3. Sought'
      BY <1>1, <2>2 DEF Calm, Sought
    <2> QED BY <1>2, <2>1, <2>3 DEF Held, Kept, Placed
  <1>4. CASE Registers
    <2>1. files' = files /\ (Steady' => Steady)
      BY <1>4 DEF Registers, Steady, srvVars
    <2> QED BY <1>1, <1>2, <2>1, FilesRest
  <1> QED BY <1>3, <1>4

\* A recording that is over is not recording again.
LEMMA ChangesCalm ==
  ASSUME TInv, Calm, Changes
  PROVE  (\A d \in Clients : Mine(d)') /\ Held' /\ Kept' /\ Placed' /\ Sought'
  <1>1. UNCHANGED <<link, pending, len, now, files, handle, call, rebuild, want, drift, mVfs, vfs>>
    BY DEF Changes, linkVars, srvVars, objVars, kodiVars
  <1>2. \A d \in Clients : recs'[d] = "recording" => recs[d] = "recording"
    BY DEF Changes, TInv, RecsType
  <1>3. \A d \in Clients : Mine(d)'
    BY <1>1, <1>2 DEF Calm, Mine, Own, Acts, Active, Counted
  <1>4. Steady' => Steady
    BY <1>1 DEF Steady
  <1> QED BY <1>1, <1>3, <1>4, FilesRest

\* A second that is not a pause is drift.
LEMMA TickCalm ==
  ASSUME TInv, Calm, Tick
  PROVE  (\A d \in Clients : Mine(d)') /\ Held' /\ Kept' /\ Placed' /\ Sought'
  <1>1. UNCHANGED <<link, pending, recs, files, handle, call, rebuild, want, mVfs, vfs>>
    BY DEF Tick, linkVars, srvVars, kodiVars
  <1>2. ASSUME NEW d \in Clients PROVE Mine(d)'
    <2>1. /\ now \in Nat /\ now' = now + 1 /\ len[d] \in Nat /\ drift[d] \in Int /\ want[d] \in Nat
          /\ len'[d] = IF recs[d] = "recording" THEN len[d] + 1 ELSE len[d]
          /\ drift'[d] = IF recs[d] = "recording" /\ ~vfs[d].paused THEN drift[d] + 1 ELSE drift[d]
          /\ vfs[d].offset \in Nat /\ vfs[d].eof \in Int /\ vfs[d].pausedAt \in Nat
      BY DEF Tick, TInv, Counters, RecsType, KodiType, VfsType, VfsFields
    <2>2. Mine(d)
      BY DEF Calm
    <2>3. Own(d)'
      BY <1>1, <2>1, <2>2 DEF Mine, Own
    <2>4. Acts(d)'
      BY <1>1, <2>2 DEF Mine, Acts, Active
    <2>5. Counted(d)'
      <3> SUFFICES ASSUME handle[d] # 0, vfs[d].eof >= 0, recs[d] = "recording", call[d].op # "size"
                   PROVE  len'[d] - vfs[d].offset
                            = vfs[d].eof + drift'[d]
                                + (IF vfs[d].paused THEN now' - vfs[d].pausedAt ELSE 0)
        BY <1>1 DEF Counted
      <3>1. len[d] - vfs[d].offset
              = vfs[d].eof + drift[d] + (IF vfs[d].paused THEN now - vfs[d].pausedAt ELSE 0)
        BY <2>2 DEF Mine, Counted
      <3>2. CASE vfs[d].paused
        BY <2>1, <3>1, <3>2
      <3>3. CASE ~vfs[d].paused
        BY <2>1, <3>1, <3>3
      <3> QED BY <3>2, <3>3
    <2> QED BY <2>3, <2>4, <2>5 DEF Mine
  <1>3. Steady' => Steady
    BY <1>1 DEF Steady
  <1> QED BY <1>1, <1>2, <1>3, FilesRest

-----------------------------------------------------------------------------
(***************************************************************************)
(* The connection.                                                         *)
(***************************************************************************)
\* What is disturbed stays disturbed.
LEMMA DisturbedStays ==
  ASSUME TInv, [Next]_vars, ~disturbed'
  PROVE  ~disturbed
  <1>1. disturbed \in BOOLEAN
    BY DEF TInv, KodiType
  <1>2. Kodi => (disturbed => disturbed')
    BY <1>1 DEF Kodi, OpenRecordedStream, ReadRecordedStream, SeekRecordedStream, LengthRecordedStream,
       Pauses, Resumes, CloseRecordedStream, Calling, Disturb
  <1>3. Continues => (disturbed => disturbed')
    BY <1>1 DEF Continues, Sends, GateTimesOut, OpenReturns, ReadRetries, ReadReturns, SeekReturns,
       SizeReturns, LengthReturns, CloseReturns, Disturb
  <1>4. Rebuilds => (disturbed => disturbed')
    BY <1>1 DEF Rebuilds, SyncInitCompleted, RebuildState, RebuildSeeks, RebuildSought, RebuildCloses,
       RebuildAsks, Disturb
  <1>5. Loses \/ Reconnects \/ Registers \/ Changes \/ Tick \/ UNCHANGED vars => (disturbed => disturbed')
    BY <1>1 DEF Loses, Reconnects, Registers, Changes, Tick, vars, Disturb
  <1> QED BY <1>2, <1>3, <1>4, <1>5 DEF Next

\* A call starts while the connection stands.
LEMMA KodiKeepsConnection ==
  ASSUME TInv, TInv', Calm, ~disturbed', Kodi
  PROVE  Connection'
  <1>1. PICK c \in Clients : OpenRecordedStream(c) \/ ReadRecordedStream(c) \/ SeekRecordedStream(c)
          \/ LengthRecordedStream(c) \/ Pauses(c) \/ Resumes(c) \/ CloseRecordedStream(c)
    BY DEF Kodi
  <1>2. Calling(c)
    BY <1>1 DEF OpenRecordedStream, ReadRecordedStream, SeekRecordedStream, LengthRecordedStream,
       Pauses, Resumes, CloseRecordedStream
  <1>3. link = "up" /\ ~pending /\ Steady
    BY <1>2, CallsInPeace
  <1>4. UNCHANGED <<link, pending, rebuild, files>>
    BY <1>1 DEF OpenRecordedStream, ReadRecordedStream, SeekRecordedStream, LengthRecordedStream,
       Pauses, Resumes, CloseRecordedStream, linkVars, srvVars
  <1>5. ASSUME NEW d \in Clients, Active(d)'
        PROVE  call'[d].op = "open" \/ Free
    <2>1. CASE OpenRecordedStream(c)
      <3>1. call'[c].op = "open" /\ (d # c => call'[d] = call[d])
        BY <2>1 DEF OpenRecordedStream, Asks, Idle, TInv, CallType
      <3> QED BY <1>5, <3>1 DEF Active, Calm, Connection
    <2>2. CASE ~OpenRecordedStream(c)
      BY <1>1, <2>2 DEF ReadRecordedStream, SeekRecordedStream, LengthRecordedStream, Pauses, Resumes,
         CloseRecordedStream, Finds
    <2> QED BY <2>1, <2>2
  <1>6. Free' <=> Free
    BY <1>4 DEF Free
  <1> QED BY <1>3, <1>4, <1>5, <1>6 DEF Connection, Steady, Calm

\* A call goes on while the connection stands.
LEMMA ContinuesKeepsConnection ==
  ASSUME TInv, TInv', Calm, ~disturbed', Continues
  PROVE  Connection'
  <1>1. PICK c \in Clients : Sends(c) \/ GateTimesOut(c) \/ OpenReturns(c) \/ ReadRetries(c)
          \/ ReadReturns(c) \/ SeekReturns(c) \/ SizeReturns(c) \/ LengthReturns(c) \/ CloseReturns(c)
    BY DEF Continues
  <1>2. ~GateTimesOut(c)
    BY DEF GateTimesOut, Disturb
  <1>3. call[c].at # "idle"
    BY <1>1, <1>2 DEF Sends, OpenReturns, ReadRetries, ReadReturns, SeekReturns, SizeReturns,
       LengthReturns, CloseReturns, Answered
  <1>4. link = "up" /\ ~pending /\ Steady /\ (call[c].op = "open" \/ Free)
    BY <1>3, UnderWay DEF Steady
  <1>5. UNCHANGED <<link, pending, rebuild>>
    BY <1>1, <1>2 DEF Sends, OpenReturns, ReadRetries, ReadReturns, SeekReturns, SizeReturns,
       LengthReturns, CloseReturns, linkVars
  <1>6. ASSUME NEW d \in Clients, Active(d)'
        PROVE  call'[d].op = "open" \/ Free
    <2>1. CASE d # c
      <3>1. call'[d] = call[d]
        BY <1>1, <1>2, <2>1 DEF Sends, OpenReturns, ReadRetries, ReadReturns, SeekReturns, SizeReturns,
           LengthReturns, CloseReturns, Returns, TInv, CallType
      <3> QED BY <1>6, <3>1 DEF Active, Calm, Connection
    <2>2. CASE d = c /\ Sends(c)
      <3>1. call'[c].op = call[c].op
        BY <2>2 DEF Sends, TInv, CallType, CallFields
      <3> QED BY <1>4, <2>2, <3>1
    <2>3. CASE d = c /\ OpenReturns(c)
      <3>1. call'[c] = Idle
        BY <2>3 DEF OpenReturns, Returns, TInv, CallType
      <3> QED BY <1>6, <2>3, <3>1 DEF Active, Idle
    <2>4. CASE ~Sends(c) /\ ~OpenReturns(c)
      <3>1. call[c].op # "open"
        BY <1>1, <1>2, <2>4 DEF ReadRetries, ReadReturns, SeekReturns, SizeReturns, LengthReturns,
           CloseReturns, Answered
      <3> QED BY <1>4, <3>1
    <2> QED BY <2>1, <2>2, <2>3, <2>4
  <1>7. Free' <=> Free
    BY <1>5 DEF Free
  <1> QED BY <1>4, <1>5, <1>6, <1>7 DEF Connection, Steady

\* The rebuild runs while the connection stands.
LEMMA RebuildKeepsConnection ==
  ASSUME TInv, TInv', Calm, ~disturbed', Rebuilds
  PROVE  Connection'
  <1>1. CASE SyncInitCompleted
    <2>1. pending /\ link \in {"up", "reg"} /\ link' = link /\ ~pending' /\ call' = call
      BY <1>1 DEF SyncInitCompleted, Connected
    <2>2. \A d \in Clients : ~Active(d)
      BY <2>1 DEF Calm, Connection
    <2>3. Steady' /\ \A d \in Clients : ~Active(d)'
      BY <2>1, <2>2 DEF Steady, Active
    <2> QED BY <2>3 DEF Connection
  <1>2. CASE ~SyncInitCompleted
    <2>1. /\ rebuild.at # "rest" /\ UNCHANGED <<link, pending, call>>
      BY <1>2 DEF Rebuilds, RebuildState, RebuildSeeks, RebuildSought, RebuildCloses, linkVars
    <2>2. Steady' /\ \A d \in Clients : Active(d) => link = "up" /\ ~pending /\ call[d].op = "open"
      BY <2>1, WhoseTurn DEF Steady, Calm, Connection
    <2> QED BY <2>1, <2>2 DEF Connection, Active
  <1> QED BY <1>1, <1>2

\* A loss that hits no call and no rebuild leaves nothing to go on with.
LEMMA LinkKeepsConnection ==
  ASSUME TInv, TInv', Calm, ~disturbed', Loses \/ Reconnects \/ Registers
  PROVE  Connection'
  <1>1. call' = call /\ rebuild' = rebuild
    BY DEF Loses, Reconnects, Registers
  <1>2. CASE Loses
    <2>1. Free /\ \A c \in Clients : ~Active(c)
      BY <1>2 DEF Loses, Disturb, Active, TInv, KodiType
    <2>2. DOMAIN files' = {}
      BY <1>2 DEF Loses, Empty
    <2> QED BY <1>1, <2>1, <2>2 DEF Connection, Active, Free
  <1>3. CASE Reconnects \/ Registers
    <2>1. link # "up" /\ files' = files
      BY <1>3 DEF Reconnects, Registers, srvVars
    <2>2. \A c \in Clients : ~Active(c)
      BY <2>1 DEF Calm, Connection
    <2>3. CASE Reconnects
      <3>1. ~Steady /\ ~Steady'
        BY <2>3 DEF Reconnects, Steady
      <3> QED BY <1>1, <2>1, <2>2, <3>1 DEF Calm, Connection, Active, Free
    <2>4. CASE Registers
      <3>1. Steady' <=> Steady
        BY <2>4 DEF Registers, Steady
      <3> QED BY <1>1, <2>1, <2>2, <3>1 DEF Calm, Connection, Active, Free
    <2> QED BY <1>3, <2>3, <2>4
  <1> QED BY <1>2, <1>3

\* Every step keeps the calls to a connection that stands.
LEMMA ConnectionStep ==
  ASSUME TInv, TInv', Calm, ~disturbed', [Next]_vars
  PROVE  Connection'
  <1>1. CASE Changes \/ Tick \/ UNCHANGED vars
    <2>1. UNCHANGED <<link, pending, files, call, rebuild>>
      BY <1>1 DEF Changes, Tick, vars, linkVars, srvVars
    <2> QED BY <2>1 DEF Calm, Connection, Active, Free, Steady
  <1> QED BY <1>1, KodiKeepsConnection, ContinuesKeepsConnection, RebuildKeepsConnection,
             LinkKeepsConnection DEF Next

\* No step reads what was not asked for.
LEMMA MisreadStep ==
  ASSUME TInv, TInv', Calm, [Next]_vars
  PROVE  ~misread'
  <1>1. CASE \E c \in Clients : ReadReturns(c)
    BY <1>1, ReadReturnsCalm
  <1>2. CASE ~\E c \in Clients : ReadReturns(c)
    <2>1. Kodi => misread' = misread
      BY DEF Kodi, OpenRecordedStream, ReadRecordedStream, SeekRecordedStream, LengthRecordedStream,
         Pauses, Resumes, CloseRecordedStream, kodiVars
    <2>2. Continues => misread' = misread
      BY <1>2 DEF Continues, Sends, GateTimesOut, OpenReturns, ReadRetries, SeekReturns, SizeReturns,
         LengthReturns, CloseReturns, kodiVars
    <2>3. Rebuilds => misread' = misread
      BY DEF Rebuilds, SyncInitCompleted, RebuildState, RebuildSeeks, RebuildSought, RebuildCloses,
         kodiVars
    <2>4. Loses \/ Reconnects \/ Registers \/ Changes \/ Tick \/ UNCHANGED vars => misread' = misread
      BY DEF Loses, Reconnects, Registers, Changes, Tick, vars, kodiVars
    <2> QED BY <2>1, <2>2, <2>3, <2>4 DEF Next, Calm
  <1> QED BY <1>1, <1>2

-----------------------------------------------------------------------------
(***************************************************************************)
(* The invariant, and what it promises.                                    *)
(***************************************************************************)
LEMMA CalmInit == Init => CInv
  <1> SUFFICES ASSUME Init PROVE Calm
    BY DEF CInv
  <1>1. /\ link = "up" /\ ~pending /\ DOMAIN files = {} /\ Free /\ rebuild.at = "rest" /\ ~misread
        /\ \A c \in Clients : /\ handle[c] = 0 /\ ~Active(c) /\ call[c].op = "none"
                              /\ call[c].at = "idle"
    BY DEF Init, Empty, Free, Active, Idle, Rest
  <1>2. Connection
    BY <1>1 DEF Connection, Steady
  <1>3. \A c \in Clients : Mine(c)
    BY <1>1 DEF Mine, Own, Acts, Counted
  <1>4. Held /\ Kept /\ Placed
    BY <1>1 DEF Held, Kept, Placed, Holds, Opened, Waits
  <1> QED BY <1>1, <1>2, <1>3, <1>4 DEF Calm, Sought

\* One action at a time.
LEMMA CalmStep ==
  ASSUME TInv, TInv', Calm, ~disturbed', [Next]_vars
  PROVE  (\A d \in Clients : Mine(d)') /\ Held' /\ Kept' /\ Placed' /\ Sought'
  <1>1. CASE Kodi
    BY <1>1, OpensCalm, ReadsCalm, SeeksCalm, LengthCalm, PausesCalm, ResumesCalm, ClosesCalm DEF Kodi
  <1>2. CASE Continues
    <2>1. \A c \in Clients : ~GateTimesOut(c)
      BY DEF GateTimesOut, Disturb
    <2> QED BY <1>2, <2>1, SendsCalm, OpenReturnsCalm, ReadRetriesCalm, ReadReturnsCalm,
               SeekReturnsCalm, SizeReturnsCalm, LengthReturnsCalm, CloseReturnsCalm DEF Continues
  <1>3. CASE Rebuilds
    BY <1>3, StartsCalm, SkipsCalm, ReopensCalm, SeeksAgainCalm, SoughtCalm, ClosesAgainCalm DEF Rebuilds
  <1>4. CASE Loses \/ Reconnects \/ Registers
    BY <1>4, LinkCalm
  <1>5. CASE Changes
    BY <1>5, ChangesCalm
  <1>6. CASE Tick
    BY <1>6, TickCalm
  <1>7. CASE UNCHANGED vars
    <2>1. /\ UNCHANGED <<files, handle, vfs, call, rebuild, mVfs>>
          /\ UNCHANGED <<link, pending, recs, len, now, want, drift>>
      BY <1>7 DEF vars, linkVars, srvVars, recVars, kodiVars, objVars
    <2>2. \A d \in Clients : Mine(d)'
      BY <2>1 DEF Calm, Mine, Own, Acts, Active, Counted
    <2>3. Steady' => Steady
      BY <2>1 DEF Steady
    <2> QED BY <2>1, <2>2, <2>3, FilesRest
  <1> QED BY <1>1, <1>2, <1>3, <1>4, <1>5, <1>6, <1>7 DEF Next

\* The invariant of both parts always holds.
LEMMA CalmInductive == Spec => [](TInv /\ CInv)
  <1>1. TInv /\ TInv' /\ CInv /\ [Next]_vars => CInv'
    <2> SUFFICES ASSUME TInv, TInv', CInv, [Next]_vars, ~disturbed' PROVE Calm'
      BY DEF CInv
    <2>1. Calm
      BY DisturbedStays DEF CInv
    <2> QED BY <2>1, CalmStep, ConnectionStep, MisreadStep DEF Calm
  <1> QED BY <1>1, CalmInit, TypesInductive, PTL DEF Spec

\* What Read gives to Kodi comes from the recording and the position Kodi is at:
\* whatever clients do at the same time, and on the connection after a loss that
\* hit no call.
THEOREM ReadsAreRight == Spec => []ReadsRightBytes
  <1>1. CInv => ReadsRightBytes
    BY DEF CInv, Calm, ReadsRightBytes
  <1> QED BY <1>1, CalmInductive, PTL

\* In a settled state an object that leads to nothing else but an id leads to the
\* client that has the id.
LEMMA SettledIs ==
  ASSUME TInv, CInv, Settled, ~disturbed
  PROVE  /\ Calm /\ Steady
         /\ \A c \in Clients : /\ call[c].at = "idle" /\ call[c].op = "none"
                               /\ Opened(c) <=> handle[c] # 0
                               /\ Position(c) = vfs[c].offset
         /\ \A o \in Range(mVfs) : o \in Clients /\ handle[o] # 0
  <1>1. Calm /\ Steady
    BY DEF CInv, Settled, Steady
  <1>2. rebuild.todo = {}
    BY DEF Settled, TInv, RebuildType
  <1>3. ASSUME NEW c \in Clients
        PROVE  /\ call[c].at = "idle" /\ call[c].op = "none"
               /\ Opened(c) <=> handle[c] # 0
               /\ Position(c) = vfs[c].offset
    <2>1. call[c].at = "idle" /\ call[c].op = "none"
      BY DEF Settled, TInv, CallType, Sound, Active
    <2> QED BY <1>2, <2>1 DEF Opened, Position, Waits
  <1>4. ASSUME NEW o \in Range(mVfs) PROVE o \in Clients /\ handle[o] # 0
    BY DEF Range, TInv, MapType, Named
  <1> QED BY <1>1, <1>3, <1>4

\* When nothing is under way, the offset of every open stream is the position of
\* its file, which the server has open: the rebuild finds what it is to restore.
THEOREM OffsetsAreRight == Spec => []PositionsAgree
  <1>1. TInv /\ CInv => PositionsAgree
    <2> SUFFICES ASSUME TInv, CInv, Settled, ~disturbed, NEW o \in Range(mVfs), vfs[o].id # 0
                 PROVE  /\ vfs[o].id \in DOMAIN files
                        /\ files[vfs[o].id] = [rec |-> o, pos |-> vfs[o].offset]
      BY DEF PositionsAgree
    <2>1. o \in Clients /\ Opened(o) /\ Position(o) = vfs[o].offset /\ Steady /\ Calm
      BY SettledIs
    <2>2. vfs[o].id \in Nat
      BY <2>1 DEF TInv, VfsType, VfsFields
    <2>3. vfs[o].id \in DOMAIN files /\ files[vfs[o].id].rec = o
      BY <2>1, <2>2 DEF Calm, Kept, Holds
    <2>4. files[vfs[o].id].pos = vfs[o].offset
      BY <2>1 DEF Calm, Placed
    <2>5. files[vfs[o].id] \in File
      BY <2>3 DEF TInv, FilesType
    <2> QED BY <2>3, <2>4, <2>5 DEF File
  <1> QED BY <1>1, CalmInductive, PTL

\* When nothing is under way, every file that the server has open is that of an
\* object that a client can close.
THEOREM FilesAreClosed == Spec => []NoOpenFiles
  <1>1. TInv /\ CInv => NoOpenFiles
    <2> SUFFICES ASSUME TInv, CInv, Settled, ~disturbed, NEW i \in DOMAIN files
                 PROVE  \E c \in Clients : handle[c] \in DOMAIN mVfs /\ vfs[mVfs[handle[c]]].id = i
      BY DEF NoOpenFiles
    <2>1. Calm /\ Steady /\ rebuild.at = "rest"
      BY SettledIs DEF Settled, Free
    <2>2. PICK c \in Clients : Holds(c, i)
      BY <2>1 DEF Calm, Held
    <2>3. handle[c] # 0 /\ vfs[c].id = i
      BY <2>1, <2>2, SettledIs DEF Holds, Waits
    <2>4. handle[c] \in DOMAIN mVfs /\ mVfs[handle[c]] = c
      BY <2>1, <2>3 DEF Calm, Mine, Own
    <2> QED BY <2>3, <2>4
  <1> QED BY <1>1, CalmInductive, PTL

\* When nothing is under way, a stream that has been played beyond its start is
\* open, so it goes on after a reconnect.
THEOREM StreamsGoOn == Spec => []GoesOn
  <1>1. TInv /\ CInv => GoesOn
    <2> SUFFICES ASSUME TInv, CInv, Settled, ~disturbed, NEW c \in Clients, handle[c] # 0, want[c] > 0
                 PROVE  vfs[mVfs[handle[c]]].id # 0
      BY DEF GoesOn
    <2>1. Own(c)
      BY SettledIs DEF Calm, Mine
    <2> QED BY <2>1 DEF Own
  <1> QED BY <1>1, CalmInductive, PTL

\* The distance to the end that decides whether a stream is real-time counts every
\* pause exactly once.
THEOREM PausesCounted == Spec => []PausesAreCounted
  <1>1. TInv /\ CInv => PausesAreCounted
    <2> SUFFICES ASSUME TInv, CInv, ~disturbed, NEW o \in Range(mVfs), vfs[o].eof >= 0,
                        recs[o] = "recording", ~Busy(o)
                 PROVE  len[o] - vfs[o].offset
                          = vfs[o].eof + drift[o]
                              + (IF vfs[o].paused THEN now - vfs[o].pausedAt ELSE 0)
      BY DEF PausesAreCounted
    <2>1. o \in Clients /\ handle[o] # 0
      BY DEF Range, TInv, MapType, Named
    <2>2. Mine(o)
      BY <2>1 DEF CInv, Calm
    <2>3. call[o].op # "size"
      <3> SUFFICES ASSUME call[o].op = "size" PROVE FALSE
        OBVIOUS
      <3>1. Active(o)
        BY <2>1 DEF TInv, CallType, Sound
      <3> QED BY <2>1, <2>2, <3>1 DEF Mine, Acts, Busy
    <2> QED BY <2>1, <2>2, <2>3 DEF Mine, Counted
  <1> QED BY <1>1, CalmInductive, PTL
=============================================================================
