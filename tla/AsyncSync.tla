----------------------------- MODULE AsyncSync ------------------------------
(***************************************************************************)
(* How pvr.hts mirrors the server's channels, tags, recordings and guide   *)
(* (Tvheadend.cpp: Connected, ProcessMessage, Process, Sync*Completed,     *)
(* Parse*; AsyncState.cpp).                                                *)
(*                                                                         *)
(* After enableAsyncMetadata the server lists everything it has, kind by   *)
(* kind, says initialSyncCompleted, and from then on sends every change.   *)
(* The connection thread queues these messages (m_queue); the Process      *)
(* thread applies them one after the other. The arrival of the first       *)
(* message of a kind means that the kinds before it are complete: the      *)
(* state m_asyncState moves on, and what is still dirty, because it was    *)
(* not listed again, is erased.                                            *)
(*                                                                         *)
(* Process holds m_mutex while it handles a message, but the registration  *)
(* thread sets m_asyncState, and GetEPGForChannel, called by Kodi, runs    *)
(* ParseEvent, without it. Every test of the state and the update behind   *)
(* it are therefore two steps here.                                        *)
(*                                                                         *)
(* Entities are members of four sets. Providers come and go with their     *)
(* channels and are not told apart from them; recurring timers, whose      *)
(* messages test no state, are left out, as are the contents of an entity: *)
(* a message adds or deletes one.                                          *)
(***************************************************************************)
EXTENDS Naturals, Sequences, FiniteSets, SequencesExt

CONSTANTS
  Tags, Channels, Recordings, Programmes,   (* what the server may have    *)
  Initially,  (* what it has when the addon starts, a set of such entities *)
  AsyncEpg,   (* the setting: is the guide part of what is mirrored        *)
  MaxConns,   (* bound: how many connections are made                      *)
  MaxChanges, (* bound: how many entities the server adds or deletes       *)
  GuideFrom,  (* the state the sync has reached when Kodi first calls      *)
              (* GetEPGForChannel (which itself waits for none)            *)
  Events      (* what else happens, a subset of EventKinds                 *)

EventKinds == {"loss",     \* a connection breaks
               "timeout",  \* enableAsyncMetadata is not answered in time
               "days",     \* Kodi changes how many days of guide it wants
               "guide"}    \* Kodi calls GetEPGForChannel

Kinds == {"tag", "chn", "dvr", "epg"}
Of == [tag |-> Tags, chn |-> Channels, dvr |-> Recordings, epg |-> Programmes]
Entities == Tags \cup Channels \cup Recordings \cup Programmes

ASSUME EntitiesAssumption ==
  /\ \A k, l \in Kinds : k # l => Of[k] \cap Of[l] = {}
  /\ Initially \subseteq Entities /\ IsFiniteSet(Entities)
ASSUME BoundsAssumption ==
  /\ AsyncEpg \in BOOLEAN /\ GuideFrom \in 0..5
  /\ MaxConns \in Nat /\ MaxChanges \in Nat
  /\ Events \subseteq EventKinds

\* The states of eAsyncState.
NONE == 0
INIT == 1
CHN == 2
DVR == 3
EPG == 4
DONE == 5

\* Who runs the Parse and Sync functions: Process, and Kodi in GetEPGForChannel.
Actors == {"process", "guide"}

VARIABLES
  srv,      (* what the server has                                         *)
  changes,  (* how many changes it has made                                *)
  conns,    (* how many connections have been made                         *)
  up,       (* there is a connection                                       *)
  asked,    (* the server has executed enableAsyncMetadata on it           *)
  net,      (* messages on their way to the connection thread              *)
  queue,    (* m_queue                                                     *)
  reg,      (* where the registration thread is                            *)
  async,    (* m_asyncState                                                *)
  rebuilt,  (* m_stateRebuilt                                              *)
  subs,     (* the connection the subscriptions and files are set up on    *)
  known,    (* the entities in m_tags, m_channels, ...                     *)
  dirty,    (* the ones flagged dirty                                      *)
  at,       (* where each actor is in handling its message                 *)
  level,    (* which of the Sync functions it is in: the state it tests    *)
  cur,      (* the message                                                 *)
  events,   (* m_events: the kinds to be announced to Kodi                 *)
  trig,     (* the kinds Kodi has been told to fetch again                 *)
  seen      (* what Kodi has fetched or been sent                          *)

serverVars == <<srv, changes>>
linkVars == <<conns, up, asked, net>>
syncVars == <<async, rebuilt, subs>>
dataVars == <<known, dirty>>
actorVars == <<at, level, cur>>
kodiVars == <<events, trig, seen>>
vars == <<serverVars, linkVars, queue, reg, syncVars, dataVars, actorVars, kodiVars>>

Completed == [op |-> "completed"]
Messages == [op : {"add", "upd", "missing", "del"}, e : Entities] \cup {Completed}

TypeOK ==
  /\ srv \subseteq Entities
  /\ changes \in 0..MaxChanges /\ conns \in 0..MaxConns
  /\ up \in BOOLEAN /\ asked \in BOOLEAN
  /\ net \in Seq(Messages) /\ queue \in Seq(Messages)
  /\ reg \in {"off", "check", "init", "ask", "wait", "fail"}
  /\ async \in NONE..DONE
  /\ rebuilt \in BOOLEAN /\ subs \in 0..MaxConns
  /\ known \subseteq Entities /\ dirty \subseteq known
  /\ at \in [Actors -> {"idle", "rebuild", "check", "act", "apply"}]
  /\ level \in [Actors -> INIT..EPG]
  /\ cur \in [Actors -> Messages]
  /\ events \subseteq Kinds /\ trig \subseteq Kinds
  /\ seen \subseteq Entities

Init ==
  /\ srv = Initially /\ changes = 0
  /\ conns = 0 /\ up = FALSE /\ asked = FALSE /\ net = <<>>
  /\ queue = <<>> /\ reg = "off" /\ async = NONE /\ rebuilt = FALSE /\ subs = 0
  /\ known = {} /\ dirty = {}
  /\ at = [a \in Actors |-> "idle"] /\ level = [a \in Actors |-> INIT]
  /\ cur = [a \in Actors |-> Completed]
  /\ events = {} /\ trig = {} /\ seen = {}

-----------------------------------------------------------------------------
(***************************************************************************)
(* The server and the connection.                                          *)
(***************************************************************************)

\* What the server sends of its entities: the guide only if asked for.
Mirrored == IF AsyncEpg THEN Entities ELSE Entities \ Programmes

\* The answer to enableAsyncMetadata: tags, channels, the tags once more, now
\* with their members, recordings, the guide.
Listing(op, k) == LET s == SetToSeq(srv \cap Of[k] \cap Mirrored)
                  IN [i \in 1..Len(s) |-> [op |-> op, e |-> s[i]]]
Dump == Listing("add", "tag") \o Listing("add", "chn") \o Listing("upd", "tag")
        \o Listing("add", "dvr") \o Listing("add", "epg") \o <<Completed>>

\* It adds or deletes an entity, or a recording loses its file.
ServerChanges(op, e) ==
  /\ changes < MaxChanges
  /\ op = "missing" => e \in Recordings
  /\ IF op = "add" THEN e \notin srv /\ srv' = srv \cup {e}
                   ELSE e \in srv /\ srv' = srv \ {e}
  /\ changes' = changes + 1
  /\ net' = IF asked /\ e \in Mirrored THEN Append(net, [op |-> op, e |-> e]) ELSE net
  /\ UNCHANGED <<conns, up, asked, queue, reg, syncVars, dataVars, actorVars, kodiVars>>

\* The connection thread opens a connection and starts the registration thread;
\* the one of the connection before has been joined.
Opens ==
  /\ ~up /\ reg = "off" /\ conns < MaxConns
  /\ up' = TRUE /\ reg' = "check" /\ conns' = conns + 1
  /\ UNCHANGED <<serverVars, asked, net, queue, syncVars, dataVars, actorVars, kodiVars>>

Drop == up' = FALSE /\ asked' = FALSE /\ net' = <<>>

\* The connection breaks. Messages under way are lost, queued ones are not.
\* (The bound lets the last connection live.)
Loses ==
  /\ "loss" \in Events /\ up /\ conns < MaxConns
  /\ Drop
  /\ UNCHANGED <<serverVars, conns, queue, reg, syncVars, dataVars, actorVars, kodiVars>>

\* SetEPGMaxFutureDays: the guide is mirrored again on a new connection.
SetEPGMaxFutureDays ==
  /\ "days" \in Events /\ AsyncEpg /\ up /\ conns < MaxConns
  /\ Drop
  /\ UNCHANGED <<serverVars, conns, queue, reg, syncVars, dataVars, actorVars, kodiVars>>

\* Connected: the two steps of "if NONE then INIT".
RegChecks ==
  /\ reg = "check"
  /\ reg' = IF async = NONE THEN "init" ELSE "ask"
  /\ UNCHANGED <<serverVars, linkVars, queue, syncVars, dataVars, actorVars, kodiVars>>

RegInits ==
  /\ reg = "init"
  /\ async' = INIT /\ reg' = "ask"
  /\ UNCHANGED <<serverVars, linkVars, queue, rebuilt, subs, dataVars, actorVars, kodiVars>>

\* (Mutant of RegAsks: m_stateRebuilt is not reset.)
RegAsksOnly ==
  /\ reg = "ask"
  /\ reg' = "wait"
  /\ asked' = up
  /\ net' = IF up THEN net \o Dump ELSE net
  /\ UNCHANGED <<serverVars, conns, up, queue, syncVars, dataVars, actorVars, kodiVars>>

\* enableAsyncMetadata is sent. The server answers and then sends the dump,
\* which may overtake the registration thread.
RegAsks ==
  /\ reg = "ask"
  /\ rebuilt' = FALSE /\ reg' = "wait"
  /\ asked' = up
  /\ net' = IF up THEN net \o Dump ELSE net
  /\ UNCHANGED <<serverVars, conns, up, queue, async, subs, dataVars, actorVars, kodiVars>>

RegAnswered ==
  /\ reg = "wait" /\ asked
  /\ reg' = "off"
  /\ UNCHANGED <<serverVars, linkVars, queue, syncVars, dataVars, actorVars, kodiVars>>

\* No answer: the state is reset, and after a pause the connection is closed.
RegFails ==
  /\ reg = "wait"
  /\ \/ ~asked
     \/ "timeout" \in Events /\ conns < MaxConns
  /\ async' = NONE /\ reg' = "fail"
  /\ UNCHANGED <<serverVars, linkVars, queue, rebuilt, subs, dataVars, actorVars, kodiVars>>

RegDisconnects ==
  /\ reg = "fail"
  /\ Drop /\ reg' = "off"
  /\ UNCHANGED <<serverVars, conns, queue, syncVars, dataVars, actorVars, kodiVars>>

\* ReadMessage and ProcessMessage: a message is queued.
Delivers ==
  /\ up /\ net # <<>>
  /\ queue' = Append(queue, Head(net)) /\ net' = Tail(net)
  /\ UNCHANGED <<serverVars, conns, up, asked, reg, syncVars, dataVars, actorVars,
                 kodiVars>>

-----------------------------------------------------------------------------
(***************************************************************************)
(* Handling a message: the Sync functions it calls, in order, each a test  *)
(* of the state and what it does then, and last the message's own work.    *)
(***************************************************************************)
LinkUnchanged == UNCHANGED <<serverVars, linkVars, reg>>

\* (Mutant of Target: a channel is taken for the sign that channels are complete.)
TargetTooFar(m) ==
  IF m = Completed THEN EPG
  ELSE IF m.op = "del" THEN NONE
  ELSE CASE m.e \in Tags -> INIT
         [] m.e \in Channels \cup Recordings -> CHN
         [] m.e \in Programmes -> DVR

\* The last of SyncInitCompleted, SyncChannelsCompleted, SyncDvrCompleted and
\* SyncEpgCompleted that handling m calls, named by the state it tests.
Target(m) ==
  IF m = Completed THEN EPG
  ELSE IF m.op = "del" THEN NONE
  ELSE CASE m.e \in Tags \cup Channels -> INIT
         [] m.e \in Recordings -> CHN
         [] m.e \in Programmes -> DVR

Enters(a, m) ==
  /\ at[a] = "idle"
  /\ cur' = [cur EXCEPT ![a] = m]
  /\ at' = [at EXCEPT ![a] = IF Target(m) = NONE THEN "apply" ELSE "rebuild"]
  /\ level' = [level EXCEPT ![a] = INIT]

Pops ==
  /\ queue # <<>>
  /\ Enters("process", Head(queue)) /\ queue' = Tail(queue)
  /\ LinkUnchanged /\ UNCHANGED <<syncVars, dataVars, kodiVars>>

\* GetEPGForChannel: the server's answer to getEvents lists a programme, and
\* ParseEvent is called for it.
GuideCalls ==
  /\ "guide" \in Events /\ up /\ async >= GuideFrom
  /\ \E e \in srv \cap Programmes : Enters("guide", [op |-> "add", e |-> e])
  /\ LinkUnchanged /\ UNCHANGED <<queue, syncVars, dataVars, kodiVars>>

\* (Mutant of NextLevel: one Sync function too many.)
NextLevelPastTarget(a) ==
  /\ at' = [at EXCEPT ![a] = IF level[a] > Target(cur[a]) THEN "apply" ELSE "check"]
  /\ level' = IF level[a] > Target(cur[a]) THEN level
              ELSE [level EXCEPT ![a] = level[a] + 1]

\* On to the next Sync function or, after the last, to the message.
NextLevel(a) ==
  /\ at' = [at EXCEPT ![a] = IF level[a] = Target(cur[a]) THEN "apply" ELSE "check"]
  /\ level' = IF level[a] = Target(cur[a]) THEN level
              ELSE [level EXCEPT ![a] = level[a] + 1]

\* SyncInitCompleted first rebuilds the subscriptions and the open files if that
\* has not been done since the last Connected; it can if there is a connection.
Rebuilds(a) ==
  /\ at[a] = "rebuild"
  /\ rebuilt' = TRUE
  /\ subs' = IF ~rebuilt /\ up THEN conns ELSE subs
  /\ at' = [at EXCEPT ![a] = "check"]
  /\ LinkUnchanged /\ UNCHANGED <<queue, async, dataVars, level, cur, kodiVars>>

\* The test of the state.
Tests(a) ==
  /\ at[a] = "check"
  /\ IF async = level[a] THEN at' = [at EXCEPT ![a] = "act"] /\ UNCHANGED level
                         ELSE NextLevel(a)
  /\ LinkUnchanged /\ UNCHANGED <<queue, syncVars, dataVars, cur, kodiVars>>

\* Kinds whose dirty entities go when the state passes level l.
Settled(l) == CASE l = CHN -> {"tag", "chn"} [] l = DVR -> {"dvr"}
                [] l = EPG /\ AsyncEpg -> {"epg"} [] OTHER -> {}
\* The kinds that the Trigger functions put into m_events.
Triggered(l) == Settled(l) \ {"epg"}
Gone(l) == dirty \cap UNION {Of[k] : k \in Settled(l)}

\* (Mutant of Acts: nothing is announced when a kind is complete.)
ActsQuietly(a) ==
  LET l == level[a] IN
  /\ at[a] = "act"
  /\ async' = l + 1
  /\ known' = known \ Gone(l)
  /\ dirty' = IF l = INIT THEN known ELSE dirty \ Gone(l)
  /\ seen' = IF l = EPG THEN seen \ Gone(l) ELSE seen
  /\ NextLevel(a)
  /\ LinkUnchanged /\ UNCHANGED <<queue, rebuilt, subs, cur, events, trig>>

\* What the Sync function does. Deletions in the guide are sent to Kodi one by
\* one, the other kinds are announced.
Acts(a) ==
  LET l == level[a] IN
  /\ at[a] = "act"
  /\ async' = l + 1
  /\ known' = known \ Gone(l)
  /\ dirty' = IF l = INIT THEN known ELSE dirty \ Gone(l)
  /\ events' = events \cup Triggered(l)
  /\ seen' = IF l = EPG THEN seen \ Gone(l) ELSE seen
  /\ NextLevel(a)
  /\ LinkUnchanged /\ UNCHANGED <<queue, rebuilt, subs, cur, trig>>

\* (Mutant of Stores: an entity that was known stays dirty.)
StoresStillDirty(e) == known' = known \cup {e} /\ UNCHANGED dirty

\* The entity is stored, or found, and is not dirty.
Stores(e) == known' = known \cup {e} /\ dirty' = dirty \ {e}

\* (Mutant of Erases: only a dirty entity is erased.)
ErasesIfDirty(e) == known' = known \ (dirty \cap {e}) /\ dirty' = dirty \ {e}

Erases(e) == known' = known \ {e} /\ dirty' = dirty \ {e}

\* Process handles a message on entity e of a set by its Parse function ...
Handles(ops, set, e) == /\ at["process"] = "apply"
                        /\ cur["process"].op \in ops
                        /\ e = cur["process"].e /\ e \in set

\* ... which announces kinds, and then, m_mutex released, m_events is worked off.
Finishes(kinds) == /\ trig' = trig \cup events \cup kinds /\ events' = {}
                   /\ at' = [at EXCEPT !["process"] = "idle"]
                   /\ LinkUnchanged /\ UNCHANGED <<queue, syncVars, level, cur>>

\* A tagAdd for a known tag is ignored: the tag stays dirty, if it is. Changes
\* are announced one by one only after they have been as a whole.
AppliesTag(e) ==
  /\ Handles({"add", "upd"}, Tags, e)
  /\ \/ cur["process"].op = "add" /\ e \in known /\ UNCHANGED dataVars
     \/ (cur["process"].op = "upd" \/ e \notin known) /\ Stores(e)
  /\ Finishes(IF e \notin known /\ async > CHN THEN {"tag"} ELSE {}) /\ UNCHANGED seen

AppliesChannel(e) ==
  /\ Handles({"add"}, Channels, e) /\ Stores(e)
  /\ Finishes(IF e \notin known /\ async > CHN THEN {"chn"} ELSE {}) /\ UNCHANGED seen

\* A recording whose file is missing is one that does not exist.
AppliesRecording(e) ==
  /\ \/ Handles({"add"}, Recordings, e) /\ Stores(e)
     \/ Handles({"missing"}, Recordings, e) /\ Erases(e)
  /\ Finishes(IF known' # known /\ async > DVR THEN {"dvr"} ELSE {}) /\ UNCHANGED seen

\* Programmes are sent to Kodi as they come and go.
AppliesProgramme(e) ==
  /\ Handles({"add"}, Programmes, e) /\ Stores(e)
  /\ seen' = seen \cup {e}
  /\ Finishes({})

DeletesProgramme(e) ==
  /\ Handles({"del"}, Programmes, e) /\ Erases(e)
  /\ seen' = IF e \in known THEN seen \ {e} ELSE seen
  /\ Finishes({})

\* The other deletions are always announced.
Deletes(k, e) ==
  /\ k # "epg" /\ Handles({"del"}, Of[k], e) /\ Erases(e)
  /\ Finishes({k}) /\ UNCHANGED seen

\* SyncCompleted, whatever the state is.
AppliesCompleted ==
  /\ at["process"] = "apply" /\ cur["process"] = Completed
  /\ async' = DONE
  /\ trig' = trig \cup events /\ events' = {}
  /\ at' = [at EXCEPT !["process"] = "idle"]
  /\ LinkUnchanged /\ UNCHANGED <<queue, rebuilt, subs, dataVars, level, cur, seen>>

\* The end of ParseEvent in GetEPGForChannel: the programme goes to the caller.
GuideReturns ==
  /\ at["guide"] = "apply"
  /\ at' = [at EXCEPT !["guide"] = "idle"]
  /\ LinkUnchanged /\ UNCHANGED <<queue, syncVars, dataVars, level, cur, kodiVars>>

-----------------------------------------------------------------------------
(***************************************************************************)
(* Kodi fetches what it has been told to: GetChannels, GetChannelGroups,   *)
(* GetRecordings and their like, which wait for the state.                 *)
(***************************************************************************)
Needed(k) == IF k = "dvr" THEN EPG ELSE DVR

\* What a Get function hands over of a kind.
Fetched(k) == known \cap Of[k]

KodiFetches(k) ==
  /\ k \in trig /\ async >= Needed(k)
  /\ trig' = trig \ {k}
  /\ seen' = (seen \ Of[k]) \cup Fetched(k)
  /\ LinkUnchanged /\ UNCHANGED <<queue, syncVars, dataVars, actorVars, events>>

\* WaitForState times out: Kodi keeps what it had.
KodiGivesUp(k) ==
  /\ k \in trig /\ async < Needed(k)
  /\ trig' = trig \ {k}
  /\ LinkUnchanged /\ UNCHANGED <<queue, syncVars, dataVars, actorVars, events, seen>>

-----------------------------------------------------------------------------
ServerStep == \E op \in {"add", "missing", "del"}, e \in Entities : ServerChanges(op, e)
RegStep == RegChecks \/ RegInits \/ RegAsks \/ RegAnswered \/ RegFails \/ RegDisconnects
SyncStep(a) == Rebuilds(a) \/ Tests(a) \/ Acts(a)
Applies == \E e \in Entities :
             \/ AppliesTag(e) \/ AppliesChannel(e) \/ AppliesRecording(e)
             \/ AppliesProgramme(e) \/ DeletesProgramme(e)
             \/ \E k \in Kinds : Deletes(k, e)
ProcessStep == Pops \/ SyncStep("process") \/ Applies \/ AppliesCompleted
GuideStep == SyncStep("guide") \/ GuideReturns
KodiStep(k) == KodiFetches(k) \/ KodiGivesUp(k)

Next == \/ ServerStep \/ Opens \/ Loses \/ SetEPGMaxFutureDays \/ RegStep \/ Delivers \/ ProcessStep
        \/ GuideCalls \/ GuideStep \/ \E k \in Kinds : KodiStep(k)

Spec == Init /\ [][Next]_vars

\* Every thread of the addon is scheduled, the connection thread reconnects and
\* Kodi fetches what it is told to. The server need not change anything.
Fairness == /\ WF_vars(Opens) /\ WF_vars(RegStep) /\ WF_vars(Delivers)
            /\ WF_vars(ProcessStep) /\ WF_vars(GuideStep)
            /\ \A k \in Kinds : WF_vars(KodiStep(k))
FairSpec == Spec /\ Fairness

-----------------------------------------------------------------------------
(***************************************************************************)
(* Properties.                                                             *)
(***************************************************************************)
Pending == ToSet(queue) \cup ToSet(net)
           \cup (IF at["process"] = "idle" THEN {} ELSE {cur["process"]})

\* Whatever the sync erases as dirty, nothing the server has is ever missed: on
\* a connection that mirrors, every entity is stored or about to be, although
\* an interrupted sync may continue, or start again, behind old messages.
NothingMissed ==
  asked => \A e \in srv \cap Mirrored :
             e \in known \/ \E m \in Pending : m.op \in {"add", "upd"} /\ m.e = e

\* The queue has been worked off and nothing is under way.
Quiescent == asked /\ reg = "off" /\ Pending = {} /\ async = DONE

\* The comment in SyncInitCompleted, "Flag all async fields in case they've been
\* deleted": in the end nothing is kept that the server does not have any more.
NoGhosts == Quiescent => known \subseteq srv

\* Kodi is told of everything: once it has done what it was told, it has seen
\* the channels, tags, recordings and programmes that the addon knows.
KodiInformed == Quiescent /\ trig = {} /\ events = {} => seen = known

\* The comments in ParseRecordingAddOrUpdate, "Channels complete", and in
\* ParseEvent, "Recordings complete": while the first sync is in DVR or later,
\* and so GetChannels no longer waits, the server's channels are all known.
ChannelsComplete ==
  conns = 1 /\ changes = 0 /\ async >= DVR => srv \cap (Tags \cup Channels) \subseteq known

\* However often the sync is interrupted, on a connection that lasts it comes
\* to its end, with the subscriptions rebuilt and nothing missing.
Synced == <>[](async = DONE /\ subs = conns /\ srv \cap Mirrored \subseteq known)
=============================================================================
