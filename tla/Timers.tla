------------------------------- MODULE Timers -------------------------------
(***************************************************************************)
(* Recordings, timers and timer rules of pvr.hts: the recording and timer  *)
(* calls of Tvheadend.cpp with TimeRecordings.cpp, AutoRecordings.cpp,     *)
(* CustomTimerProperties.cpp and the entity classes they keep.             *)
(*                                                                         *)
(* A rule (timerec or autorec) has a string id at the server and, at the   *)
(* addon and Kodi, an int id drawn from a counter; a one-shot timer or a   *)
(* recording has one number everywhere. Three threads share the entities   *)
(* under m_mutex: the Process thread, which handles the server's messages  *)
(* one by one; Kodi's thread that gets the lists after it has been told of *)
(* a change; and the thread of a user, who picks an entry of Kodi's list,  *)
(* however old, and deletes or changes it. Some of these calls hold        *)
(* m_mutex until the server has answered.                                  *)
(*                                                                         *)
(* The fields kept are those that a user sets and finds again (enabled,    *)
(* lifetime, times), those that tie entities together and the mark of a    *)
(* duplicate, which a server gives a scheduled timer that would record the *)
(* same once more; the rest of the fields are copied the same way. Removal *)
(* is a 32-bit number, of which Wide is the scaled-down range.             *)
(***************************************************************************)
EXTENDS StartWindows, Sequences, SequencesExt, FiniteSets, Functions

CONSTANTS
  Wide,         (* 2^32, scaled down                                       *)
  Lifetimes,    (* the lifetimes a user chooses                            *)
  Slots,        (* the <<start, stop>> a user chooses for a rule           *)
  FirstId,      (* the server's first recording has the number FirstId + 1 *)
  MaxRecs,      (* bound: recordings and timers                            *)
  MaxRules,     (* bound: rules                                            *)
  MaxCalls,     (* bound: calls of the user                                *)
  MaxEvents,    (* bound: what the server does of its own accord           *)
  IgnoreDuplicates, (* the setting dvr_ignore_duplicates                   *)
  ChannelFirst, (* whether the server has a channel to list                *)
  Malformed     (* whether a response may come without "success"           *)

ASSUME TimersAssumption ==
  /\ Wide \in Nat /\ Wide > 8 /\ Wide % 2 = 0 /\ Lifetimes \subseteq (-3..(Wide \div 2 - 3)) \ {0}
  /\ Slots \subseteq (Minutes \cup {AnyTime}) \X (Minutes \cup {AnyTime})
  /\ FirstId \in Nat /\ MaxRecs \in Nat \ {0} /\ MaxRules \in Nat \ {0} /\ MaxCalls \in Nat
  /\ MaxEvents \in Nat /\ IgnoreDuplicates \in BOOLEAN /\ ChannelFirst \in BOOLEAN /\ Malformed \in BOOLEAN

VARIABLES
  approx,     (* the setting autorec_approxtime                            *)
  srvRecs,    (* the server's timers and recordings, by number             *)
  srvRules,   (* its rules, by string id                                   *)
  made,       (* how many it has made of both                              *)
  queue,      (* m_queue: its messages                                     *)
  level,      (* the async state: "init", "dvr", or "done"                 *)
  recs,       (* m_recordings                                              *)
  rules,      (* m_timeRecordings and m_autoRecordings                     *)
  intId,      (* the counter of GetNextIntId                               *)
  list,       (* Kodi's lists of timers and recordings                     *)
  told,       (* Kodi has been told that they have changed                 *)
  call,       (* the user's call                                           *)
  said,       (* the timer whose deletion was reported as done             *)
  wishes,     (* what the user has set, of which the server knows, by key  *)
  calls, events (* how many there have been                                *)

srvVars == <<srvRecs, srvRules, made, queue>>
addonVars == <<level, recs, rules, intId>>
kodiVars == <<list, told>>
vars == <<approx, srvVars, addonVars, kodiVars, call, said, wishes, calls, events>>

-----------------------------------------------------------------------------
(***************************************************************************)
(* Lifetimes.                                                              *)
(***************************************************************************)
Forever == Wide \div 2 - 1
Space == Forever - 1

KodiToTvh(life) == CASE life = -3 -> 0 [] life = -2 -> Space [] life = -1 -> Forever [] OTHER -> life
\* The result is an int: the upper half of the unsigned numbers is negative.
TvhToKodi(life) == CASE life = 0 -> -3 [] life = Space -> -2 [] life = Forever -> -1
                     [] life > Forever -> life - Wide [] OTHER -> life
\* What htsmsg_add_u32 makes of an int.
\* (Mutant of Unsigned: a negative number is sent.)
UnsignedSigned(life) == life
Unsigned(life) == life % Wide

\* The removal that is sent for a lifetime: the mapper is used for one-shot
\* timers and not for rules.
Removal(type, life) == IF type \in {"manual", "child"} THEN KodiToTvh(life) ELSE Unsigned(life)

-----------------------------------------------------------------------------
(***************************************************************************)
(* Entities and messages. A message carries the whole entry.               *)
(***************************************************************************)
None == <<"none", 0>>
RecIds == (FirstId + 1)..(FirstId + MaxRecs)
RuleIds == 1..MaxRules
Kinds == {"timerec", "autorec"}

RecEntry(state, enabled, kind, rule, life, dup) ==
  [state |-> state, err |-> "", enabled |-> enabled, kind |-> kind, rule |-> rule, life |-> life, dup |-> dup]
RuleEntry(kind, enabled, life, window) ==
  [kind |-> kind, enabled |-> enabled, life |-> life, from |-> window[1], to |-> window[2]]

Message(method, id, entry) == <<method, id, entry>>
Added(id, e) == Message("dvrEntry", id, e)
Deleted(id) == Message("dvrEntryDelete", id, None)
RuleAdded(sid, e) == Message("ruleEntry", sid, e)
RuleDeleted(sid) == Message("ruleEntryDelete", sid, None)

Without(f, S) == [x \in DOMAIN f \ S |-> f[x]]
With(f, x, v) == [y \in DOMAIN f \cup {x} |-> IF y = x THEN v ELSE f[y]]
Empty == [x \in {} |-> None]

\* The server's listing: channels, rules, recordings.
TheRule == RuleEntry("autorec", TRUE, 1, <<AnyTime, AnyTime>>)
TheTimer == RecEntry("scheduled", TRUE, "autorec", 1, 1, FALSE)
Listing == (IF ChannelFirst THEN <<Message("channelAdd", 0, None)>> ELSE <<>>)
           \o <<RuleAdded(1, TheRule), Added(FirstId + 1, TheTimer), Message("initialSyncCompleted", 0, None)>>

Idle == [at |-> "idle", op |-> "none", item |-> None, req |-> <<>>, locks |-> FALSE, answer |-> "none"]

Init ==
  /\ approx \in BOOLEAN
  /\ srvRecs = With(Empty, FirstId + 1, TheTimer) /\ srvRules = With(Empty, 1, TheRule)
  /\ made = [recs |-> 1, rules |-> 1] /\ queue = Listing
  /\ level = "init" /\ recs = Empty /\ rules = Empty /\ intId = 0
  /\ list = {} /\ told = FALSE /\ call = Idle /\ said = None /\ wishes = Empty /\ calls = 0 /\ events = 0

-----------------------------------------------------------------------------
(***************************************************************************)
(* The Process thread.                                                     *)
(***************************************************************************)
Locked == call.at # "idle" /\ call.locks

\* The state a recording entry is given ("missed" stands for "invalid" too).
StateOf(e) ==
  IF e.err = "300" THEN "aborted"
  ELSE IF e.state = "missed" THEN "error"
  ELSE IF e.state = "recording" /\ e.err = "noFreeAdapter" THEN "conflict" ELSE e.state
IsRecording(r) == r.state \in {"completed", "aborted", "recording", "conflict"}
IsTimer(r) == r.state \in {"scheduled", "recording"}

Pops(method) == queue # <<>> /\ ~Locked /\ Head(queue)[1] = method /\ queue' = Tail(queue)
MsgId == Head(queue)[2]
Entry == Head(queue)[3]
Triggers(cond) == told' = (told \/ cond)

\* SyncInitCompleted, and what the Sync functions above it add.
Flagged(f) == IF level = "init" THEN [x \in DOMAIN f |-> [f[x] EXCEPT !.dirty = TRUE]] ELSE f
SyncChannelsCompleted == level' = IF level = "init" THEN "dvr" ELSE level

ParseChannelAdd ==
  /\ Pops("channelAdd") /\ SyncChannelsCompleted
  /\ recs' = Flagged(recs) /\ rules' = Flagged(rules)
  /\ UNCHANGED <<approx, srvRecs, srvRules, made, intId, kodiVars, call, said, wishes, calls, events>>

\* What is said of a duplicate is not looked at.
Ignored(e) == IgnoreDuplicates /\ e.dup

ParseRecordingAddOrUpdate ==
  /\ Pops("dvrEntry") /\ SyncChannelsCompleted
  /\ LET e == Entry
         rec == [state |-> StateOf(e), enabled |-> e.enabled, kind |-> e.kind, rule |-> e.rule,
                 life |-> e.life, dirty |-> FALSE]
         known == MsgId \in DOMAIN recs
         changed == ~known \/ [recs[MsgId] EXCEPT !.dirty = FALSE] # rec
     IN IF Ignored(e) THEN recs' = Flagged(recs) /\ Triggers(FALSE)
        ELSE IF e.err = "missing"
        THEN recs' = Without(Flagged(recs), {MsgId}) /\ Triggers(known /\ level = "done")
        ELSE recs' = With(Flagged(recs), MsgId, rec) /\ Triggers(changed /\ level = "done")
  /\ rules' = Flagged(rules)
  /\ UNCHANGED <<approx, srvRecs, srvRules, made, intId, list, call, said, wishes, calls, events>>

\* (Mutant of ParseRecordingDelete: nobody is told.)
ParseRecordingDeleteQuietly ==
  /\ Pops("dvrEntryDelete") /\ recs' = Without(recs, {MsgId})
  /\ UNCHANGED <<approx, srvRecs, srvRules, made, level, rules, intId, list, told, call, said, wishes, calls, events>>
ParseRecordingDelete ==
  /\ Pops("dvrEntryDelete") /\ recs' = Without(recs, {MsgId}) /\ Triggers(TRUE)
  /\ UNCHANGED <<approx, srvRecs, srvRules, made, level, rules, intId, list, call, said, wishes, calls, events>>

\* GetNextIntId, called when operator[] makes a new object.
\* (Mutant of NextIntId: the number of rules, plus one.)
NextIntIdByCount == Cardinality(DOMAIN rules) + 1
NextIntId == intId + 1

\* ParseTimerecAddOrUpdate and ParseAutorecAddOrUpdate, which call no Sync function.
ParseRuleAddOrUpdate ==
  /\ Pops("ruleEntry")
  /\ LET new == MsgId \notin DOMAIN rules
         int == IF new THEN NextIntId ELSE rules[MsgId].int
     IN /\ rules' = With(rules, MsgId, [int |-> int, kind |-> Entry.kind, enabled |-> Entry.enabled,
                           life |-> Entry.life, from |-> Entry.from, to |-> Entry.to, dirty |-> FALSE])
        /\ intId' = IF new THEN intId + 1 ELSE intId
  /\ Triggers(TRUE)
  /\ UNCHANGED <<approx, srvRecs, srvRules, made, level, recs, list, call, said, wishes, calls, events>>

ParseRuleDelete ==
  /\ Pops("ruleEntryDelete") /\ rules' = Without(rules, {MsgId}) /\ Triggers(TRUE)
  /\ UNCHANGED <<approx, srvRecs, srvRules, made, level, recs, intId, list, call, said, wishes, calls, events>>

\* SyncDvrCompleted of Tvheadend.cpp and of both maps of rules.
Clean(f) == Without(f, {x \in DOMAIN f : f[x].dirty})
SyncCompleted ==
  /\ Pops("initialSyncCompleted") /\ level' = "done" /\ Triggers(TRUE)
  /\ recs' = Clean(Flagged(recs)) /\ rules' = Clean(Flagged(rules))
  /\ UNCHANGED <<approx, srvRecs, srvRules, made, intId, list, call, said, wishes, calls, events>>

Process == \/ ParseChannelAdd \/ ParseRecordingAddOrUpdate \/ ParseRecordingDelete
           \/ ParseRuleAddOrUpdate \/ ParseRuleDelete \/ SyncCompleted

-----------------------------------------------------------------------------
(***************************************************************************)
(* Kodi's lists.                                                           *)
(***************************************************************************)
\* GetTimerIntIdFromStringId: 0 for a rule that is not there.
IntIdOf(kind, sid) == IF sid \in DOMAIN rules /\ rules[sid].kind = kind THEN rules[sid].int ELSE 0

Item(key, what, idx, type, state, parent, life, start, stop) ==
  [key |-> key, what |-> what, idx |-> idx, type |-> type, state |-> state, parent |-> parent,
   life |-> life, start |-> start, stop |-> stop]
Shown(enabled, state) == IF enabled THEN state ELSE "disabled"

\* CreateTimer.
CreateTimer(id) == LET r == recs[id] IN
  Item(<<"rec", id>>, "timer", id, IF r.rule # 0 THEN "child" ELSE "manual", Shown(r.enabled, r.state),
       IF r.rule # 0 THEN IntIdOf(r.kind, r.rule) ELSE 0, TvhToKodi(r.life), 0, 0)
\* GetTimerecTimers and GetAutorecTimers.
RuleTimer(sid) == LET r == rules[sid]  win == approx /\ r.kind = "autorec" IN
  Item(<<"rule", sid>>, "timer", r.int, r.kind, Shown(r.enabled, "scheduled"), 0, TvhToKodi(r.life),
       ShownStart(win, r.from, r.to), ShownStop(win, r.to))
\* GetRecordings.
Recording(id) ==
  Item(<<"rec", id>>, "recording", id, "none", recs[id].state, 0, TvhToKodi(recs[id].life), 0, 0)

GetTimers ==
  /\ told /\ level = "done" /\ ~Locked
  /\ told' = FALSE
  /\ list' = {CreateTimer(id) : id \in {i \in DOMAIN recs : IsTimer(recs[i])}}
             \cup {RuleTimer(sid) : sid \in DOMAIN rules}
             \cup {Recording(id) : id \in {i \in DOMAIN recs : IsRecording(recs[i])}}
  /\ UNCHANGED <<approx, srvVars, addonVars, call, said, wishes, calls, events>>

-----------------------------------------------------------------------------
(***************************************************************************)
(* The user's calls: a request is built and waits for the server, or the   *)
(* call fails at once.                                                     *)
(***************************************************************************)
Calling == call.at = "idle" /\ calls < MaxCalls /\ calls' = calls + 1
Asks(op, item, req, locks) ==
  call' = [at |-> "asked", op |-> op, item |-> item, req |-> req, locks |-> locks, answer |-> "none"]

\* The window that is sent for a rule: localtime gives times of the day.
TimeOfDay(t) == IF t = AnyTime THEN AnyTime ELSE t % Day
Window(kind, slot) ==
  LET start == TimeOfDay(slot[1])  stop == TimeOfDay(slot[2])
  IN IF kind # "autorec" THEN <<start, stop>>
     ELSE IF approx THEN Approximate(start) ELSE Exact(start, stop)

Calls == UNCHANGED <<approx, srvVars, addonVars, kodiVars, said, wishes, events>>

\* AddTimer. A timer rule of the kind timerec has a start and a stop time.
AddTimer ==
  /\ Calling
  /\ \E type \in Kinds \cup {"manual"}, life \in Lifetimes, slot \in Slots :
       /\ type = "timerec" => AnyTime \notin Range(slot)
       /\ type = "manual" => slot = <<AnyTime, AnyTime>>
       /\ Asks("add", None,
               [op |-> IF type = "manual" THEN "addDvrEntry" ELSE "addRule", id |-> 0, enabled |-> TRUE,
                life |-> Removal(type, life), asked |-> life, slot |-> slot, kind |-> type,
                window |-> Window(type, slot)], FALSE)
  /\ Calls

\* GetTimerStringIdFromIntId.
StringIdsOf(kind, int) == {sid \in DOMAIN rules : rules[sid].kind = kind /\ rules[sid].int = int}

Plain(op, id) == [op |-> op, id |-> id]

\* DeleteTimer. The recordings are searched for the index of any timer.
\* (Mutant of DeleteTimer: a running recording is cancelled.)
DeleteTimerCancels ==
  /\ Calling
  /\ \E i \in list :
       /\ i.what = "timer"
       /\ \/ i.type \notin Kinds /\ Asks("delete", i, Plain("cancelDvrEntry", i.idx), FALSE)
          \/ /\ i.type \in Kinds
             /\ \E sid \in StringIdsOf(i.type, i.idx) : Asks("delete", i, Plain("deleteRule", sid), FALSE)
  /\ Calls
DeleteTimer ==
  /\ Calling
  /\ \E i \in list :
       /\ i.what = "timer"
       /\ LET runs == i.idx \in DOMAIN recs /\ IsRecording(recs[i.idx]) IN
          \/ runs /\ Asks("delete", i, Plain("stopDvrEntry", i.idx), TRUE)
          \/ ~runs /\ i.type \notin Kinds /\ Asks("delete", i, Plain("cancelDvrEntry", i.idx), FALSE)
          \/ /\ ~runs /\ i.type \in Kinds
             /\ \E sid \in StringIdsOf(i.type, i.idx) : Asks("delete", i, Plain("deleteRule", sid), FALSE)
  /\ Calls

\* UpdateTimer: the entry with another lifetime or other times, or enabled or
\* disabled. Of a timer made by a rule only the latter is sent if it differs.
UpdateAsked(i, life, toggle, slot) ==
  /\ toggle => life = i.life /\ slot = <<i.start, i.stop>>
  /\ i.type = "timerec" => AnyTime \notin Range(slot)
  /\ i.type \notin Kinds => slot = <<i.start, i.stop>>
  /\ LET enabled == (i.state = "disabled") = toggle
         differs == i.idx \in DOMAIN recs /\ recs[i.idx].enabled # enabled
         full == [op |-> "updateDvrEntry", id |-> i.idx, enabled |-> enabled,
                  life |-> Removal(i.type, life), asked |-> life]
         rule(sid) == [op |-> "updateRule", id |-> sid, enabled |-> enabled, slot |-> slot,
                       life |-> Removal(i.type, life), asked |-> life, window |-> Window(i.type, slot)]
     IN \/ /\ i.type = "child" /\ differs
           /\ Asks("update", i, [op |-> "enableDvrEntry", id |-> i.idx, enabled |-> enabled], TRUE)
        \/ i.type \in {"manual", "child"} /\ ~(i.type = "child" /\ differs) /\ Asks("update", i, full, FALSE)
        \/ i.type \in Kinds /\ \E sid \in StringIdsOf(i.type, i.idx) : Asks("update", i, rule(sid), FALSE)
UpdateTimer ==
  /\ Calling
  /\ \E i \in list : i.what = "timer" /\
       \E life \in Lifetimes \cup {i.life}, toggle \in BOOLEAN, slot \in Slots \cup {<<i.start, i.stop>>} :
         UpdateAsked(i, life, toggle, slot)
  /\ Calls

-----------------------------------------------------------------------------
(***************************************************************************)
(* The server executes the request and sends its messages before the       *)
(* response; or it refuses; or the response is lost.                       *)
(***************************************************************************)
Req == call.req
Lost(cond) == cond /\ events < MaxEvents /\ events' = events + 1
Answers == \/ call' = [call EXCEPT !.at = "answered", !.answer = "success"] /\ UNCHANGED events
           \/ call' = [call EXCEPT !.at = "answered", !.answer = "lost"] /\ Lost(TRUE)
           \/ call' = [call EXCEPT !.at = "answered", !.answer = "malformed"] /\ Lost(Malformed)
Sends(msgs) == queue' = queue \o msgs
Wished(key, life, slot) == wishes' = With(wishes, key, [life |-> life, slot |-> slot])

\* A time out of the day is any time to the server.
Normal(t) == IF t \in 0..Day THEN t ELSE AnyTime

AddsTimer ==
  /\ Req.op = "addDvrEntry" /\ made.recs < MaxRecs
  /\ LET id == FirstId + made.recs + 1
         e == RecEntry("scheduled", TRUE, "none", 0, Req.life, FALSE)
     IN srvRecs' = With(srvRecs, id, e) /\ Sends(<<Added(id, e)>>) /\ Wished(<<"rec", id>>, Req.asked, Req.slot)
  /\ made' = [made EXCEPT !.recs = @ + 1] /\ UNCHANGED srvRules

AddsRule ==
  /\ Req.op = "addRule" /\ made.rules < MaxRules
  /\ LET sid == made.rules + 1
         e == RuleEntry(Req.kind, TRUE, Req.life, <<Normal(Req.window[1]), Normal(Req.window[2])>>)
     IN srvRules' = With(srvRules, sid, e) /\ Sends(<<RuleAdded(sid, e)>>) /\ Wished(<<"rule", sid>>, Req.asked, Req.slot)
  /\ made' = [made EXCEPT !.rules = @ + 1] /\ UNCHANGED srvRecs

\* A scheduled timer is deleted, a running recording ends: cancelled as aborted.
Removes ==
  /\ Req.op \in {"cancelDvrEntry", "stopDvrEntry"} /\ Req.id \in DOMAIN srvRecs
  /\ LET e == srvRecs[Req.id]
         over == [e EXCEPT !.state = "completed", !.err = IF Req.op = "cancelDvrEntry" THEN "300" ELSE ""]
     IN CASE e.state = "scheduled" /\ Req.op = "cancelDvrEntry" ->
               srvRecs' = Without(srvRecs, {Req.id}) /\ Sends(<<Deleted(Req.id)>>)
          [] e.state = "recording" ->
               srvRecs' = [srvRecs EXCEPT ![Req.id] = over] /\ Sends(<<Added(Req.id, over)>>)
          [] OTHER -> UNCHANGED <<srvRecs, queue>>
  /\ UNCHANGED <<srvRules, made, wishes>>

DeletesRecording ==
  /\ Req.op = "deleteDvrEntry" /\ Req.id \in DOMAIN srvRecs
  /\ srvRecs' = Without(srvRecs, {Req.id}) /\ Sends(<<Deleted(Req.id)>>)
  /\ UNCHANGED <<srvRules, made, wishes>>

\* The timers it has scheduled go with a rule, in whatever order.
Children(sid) == {id \in DOMAIN srvRecs : srvRecs[id].rule = sid /\ srvRecs[id].state = "scheduled"}
RuleGoes(sid) ==
  /\ srvRecs' = Without(srvRecs, Children(sid)) /\ srvRules' = Without(srvRules, {sid})
  /\ \E order \in Bijection(1..Cardinality(Children(sid)), Children(sid)) :
       Sends([i \in DOMAIN order |-> Deleted(order[i])] \o <<RuleDeleted(sid)>>)

DeletesRule ==
  /\ Req.op = "deleteRule" /\ Req.id \in DOMAIN srvRules
  /\ RuleGoes(Req.id) /\ UNCHANGED <<made, wishes>>

UpdatesTimer ==
  /\ Req.op \in {"updateDvrEntry", "enableDvrEntry"} /\ Req.id \in DOMAIN srvRecs
  /\ LET e == srvRecs[Req.id]
         on == IF "enabled" \in DOMAIN Req /\ e.state = "scheduled" THEN [e EXCEPT !.enabled = Req.enabled] ELSE e
         new == IF Req.op = "updateDvrEntry" THEN [on EXCEPT !.life = Req.life] ELSE on
     IN srvRecs' = [srvRecs EXCEPT ![Req.id] = new] /\ Sends(<<Added(Req.id, new)>>)
  /\ IF Req.op = "updateDvrEntry" THEN Wished(<<"rec", Req.id>>, Req.asked, <<AnyTime, AnyTime>>) ELSE UNCHANGED wishes
  /\ UNCHANGED <<srvRules, made>>

UpdatesRule ==
  /\ Req.op = "updateRule" /\ Req.id \in DOMAIN srvRules
  /\ LET e == RuleEntry(srvRules[Req.id].kind, Req.enabled, Req.life,
                        <<Normal(Req.window[1]), Normal(Req.window[2])>>)
     IN srvRules' = [srvRules EXCEPT ![Req.id] = e] /\ Sends(<<RuleAdded(Req.id, e)>>)
  /\ Wished(<<"rule", Req.id>>, Req.asked, Req.slot) /\ UNCHANGED <<srvRecs, made>>

ServerUnchanged == UNCHANGED <<approx, addonVars, kodiVars, said, calls>>
ServerExecutes ==
  /\ call.at = "asked" /\ Answers
  /\ AddsTimer \/ AddsRule \/ Removes \/ DeletesRecording \/ DeletesRule \/ UpdatesTimer \/ UpdatesRule
  /\ ServerUnchanged

Unknown == \/ Req.op \in {"addDvrEntry", "addRule"}
           \/ Req.op \in {"deleteRule", "updateRule"} /\ Req.id \notin DOMAIN srvRules
           \/ Req.op \notin {"addDvrEntry", "addRule", "deleteRule", "updateRule"} /\ Req.id \notin DOMAIN srvRecs
ServerRefuses ==
  /\ call.at = "asked"
  /\ \/ call' = [call EXCEPT !.at = "answered", !.answer = "refused"]
        /\ IF Unknown THEN UNCHANGED events ELSE Lost(TRUE)
     \/ call' = [call EXCEPT !.at = "answered", !.answer = "lost"] /\ Lost(TRUE)
  /\ UNCHANGED <<srvVars, wishes>> /\ ServerUnchanged

\* The result: "success" that is missing counts as one for a one-shot timer.
\* (Mutant of Succeeds: any answer is taken for a success.)
SucceedsAnyway(answer, op) == answer # "lost"
Succeeds(answer, op) ==
  answer = "success" \/ (answer = "malformed" /\ op \notin {"addRule", "updateRule", "deleteRule"})

Returns ==
  /\ call.at = "answered" /\ call' = Idle
  /\ said' = IF call.op = "delete" /\ Succeeds(call.answer, Req.op) THEN call.item.key ELSE said
  /\ UNCHANGED <<approx, srvVars, addonVars, kodiVars, wishes, calls, events>>

\* DeleteRecording.
DeleteRecording ==
  /\ Calling
  /\ \E i \in list : i.what = "recording" /\ Asks("deleteRecording", i, Plain("deleteDvrEntry", i.idx), FALSE)
  /\ Calls

\* SetRecordingLifetime: an update of the lifetime alone.
SetRecordingLifetime ==
  /\ Calling
  /\ \E i \in list, life \in Lifetimes :
       /\ i.what = "recording"
       /\ Asks("lifetime", i, [op |-> "updateDvrEntry", id |-> i.idx, life |-> KodiToTvh(life), asked |-> life], FALSE)
  /\ Calls

User == AddTimer \/ DeleteTimer \/ UpdateTimer \/ DeleteRecording \/ SetRecordingLifetime

-----------------------------------------------------------------------------
(***************************************************************************)
(* What the server does of its own accord, or for another client.          *)
(***************************************************************************)
Changes(id, e) == srvRecs' = [srvRecs EXCEPT ![id] = e] /\ Sends(<<Added(id, e)>>) /\ UNCHANGED <<srvRules, made>>

Starts == \E id \in DOMAIN srvRecs, err \in {"", "noFreeAdapter"} : LET e == srvRecs[id] IN
  e.state = "scheduled" /\ e.enabled /\ Changes(id, [e EXCEPT !.state = "recording", !.err = err, !.dup = FALSE])
Misses == \E id \in DOMAIN srvRecs : LET e == srvRecs[id] IN
  e.state = "scheduled" /\ Changes(id, [e EXCEPT !.state = "missed", !.dup = FALSE])
Ends == \E id \in DOMAIN srvRecs : LET e == srvRecs[id] IN
  e.state = "recording" /\ Changes(id, [e EXCEPT !.state = "completed", !.err = ""])
FileGoes == \E id \in DOMAIN srvRecs : LET e == srvRecs[id] IN
  /\ e.state = "completed" /\ srvRecs' = Without(srvRecs, {id})
  /\ Sends(<<Added(id, [e EXCEPT !.err = "missing"])>>) /\ UNCHANGED <<srvRules, made>>
\* Another timer for the same comes or goes.
Duplicates == \E id \in DOMAIN srvRecs : LET e == srvRecs[id] IN
  e.state = "scheduled" /\ Changes(id, [e EXCEPT !.dup = ~@])
Schedules == \E sid \in DOMAIN srvRules, dup \in BOOLEAN :
  /\ made.recs < MaxRecs
  /\ LET id == FirstId + made.recs + 1
         e == RecEntry("scheduled", TRUE, srvRules[sid].kind, sid, 1, dup)
     IN srvRecs' = With(srvRecs, id, e) /\ Sends(<<Added(id, e)>>)
  /\ made' = [made EXCEPT !.recs = @ + 1] /\ UNCHANGED srvRules
OthersDelete == \E sid \in DOMAIN srvRules : RuleGoes(sid) /\ UNCHANGED made
OthersAdd ==
  /\ made.rules < MaxRules
  /\ srvRules' = With(srvRules, made.rules + 1, TheRule) /\ Sends(<<RuleAdded(made.rules + 1, TheRule)>>)
  /\ made' = [made EXCEPT !.rules = @ + 1] /\ UNCHANGED srvRecs
OthersDisable == \E id \in DOMAIN srvRecs : LET e == srvRecs[id] IN
  e.state = "scheduled" /\ e.enabled /\ Changes(id, [e EXCEPT !.enabled = FALSE])

ServerActs ==
  /\ Lost(TRUE)
  /\ Starts \/ Misses \/ Ends \/ FileGoes \/ Duplicates \/ Schedules \/ OthersDelete \/ OthersAdd \/ OthersDisable
  /\ UNCHANGED <<approx, addonVars, kodiVars, call, said, wishes, calls>>

Next == Process \/ GetTimers \/ User \/ ServerExecutes \/ ServerRefuses \/ Returns \/ ServerActs

Spec == Init /\ [][Next]_vars

-----------------------------------------------------------------------------
(***************************************************************************)
(* Properties.                                                             *)
(***************************************************************************)
\* The types of the variables, and what holds of single entities: no rule has
\* the index 0 or one that has not been drawn.
TypeOK ==
  /\ approx \in BOOLEAN /\ told \in BOOLEAN /\ level \in {"init", "dvr", "done"}
  /\ made \in [recs : 0..MaxRecs, rules : 0..MaxRules] /\ DOMAIN srvRecs \subseteq RecIds
  /\ DOMAIN srvRules \subseteq RuleIds /\ intId \in Nat
  /\ \A sid \in DOMAIN srvRules : LET r == srvRules[sid] IN
       /\ r.life \in 0..(Wide - 1) /\ r.from \in 0..Day \cup {AnyTime} /\ r.to \in 0..Day \cup {AnyTime}
  /\ \A id \in DOMAIN srvRecs : srvRecs[id].life \in 0..(Wide - 1)
  /\ DOMAIN recs \subseteq RecIds /\ DOMAIN rules \subseteq RuleIds
  /\ \A sid \in DOMAIN rules : rules[sid].int \in 1..intId
  /\ call.at \in {"idle", "asked", "answered"} /\ calls \in 0..MaxCalls /\ events \in 0..MaxEvents

Quiet == queue = <<>> /\ ~told /\ call.at = "idle" /\ level = "done"

\* The timers whose latest state the addon has been told of and did not look at:
\* Kodi may have them as they were before they became duplicates, or not at all.
Hidden == {<<"rec", id>> : id \in {i \in DOMAIN srvRecs : IgnoreDuplicates /\ srvRecs[i].dup}}

\* Once everything is handled Kodi's lists are what the server has: every timer,
\* rule and recording but the duplicates that are ignored, with its state, every
\* timer under the rule that made it, and nothing that the server does not have.
ParentKey(i) == {j.key : j \in {k \in list : k.what = "timer" /\ i.parent # 0 /\ k.idx = i.parent}}
InList == {[key |-> i.key, what |-> i.what, state |-> i.state, parent |-> ParentKey(i)] : i \in list}
AtServer ==
  {[key |-> <<"rule", sid>>, what |-> "timer",
    state |-> IF srvRules[sid].enabled THEN "scheduled" ELSE "disabled", parent |-> {}] : sid \in DOMAIN srvRules}
  \cup {[key |-> <<"rec", id>>, what |-> "timer",
         state |-> IF srvRecs[id].enabled THEN srvRecs[id].state ELSE "disabled",
         parent |-> {<<"rule", srvRecs[id].rule>>} \cap {<<"rule", sid>> : sid \in DOMAIN srvRules}] :
        id \in {i \in DOMAIN srvRecs : srvRecs[i].state \notin {"completed", "missed"} /\ srvRecs[i].err = ""}}
  \cup {[key |-> <<"rec", id>>, what |-> "recording", state |-> StateOf(srvRecs[id]), parent |-> {}] :
        id \in {i \in DOMAIN srvRecs : srvRecs[i].state \notin {"scheduled", "missed"}}}
Seen(items) == {i \in items : i.key \notin Hidden}
KodiAgrees == Quiet => Seen(InList) = Seen(AtServer)

\* A request to change or delete something names what the user picked, even
\* from a list that is out of date: no index is used twice.
RightTimer ==
  call.at = "asked" /\ call.op # "add" =>
    call.item.key = <<IF Req.op \in {"deleteRule", "updateRule"} THEN "rule" ELSE "rec", Req.id>>

\* What Kodi shows as being recorded is stopped gracefully and never aborted.
StopsGracefully ==
  call.at = "asked" /\ call.op = "delete" /\ call.item.state = "recording" /\ Req.op = "cancelDvrEntry" =>
    Req.id \notin DOMAIN srvRecs

\* A timer whose deletion was reported as done is gone from Kodi's timers in the end.
DeletedIsGone == Quiet => \A i \in list : i.what = "timer" => i.key # said

\* The user finds the lifetime and the times that he has set, in all but a timer
\* that is now a duplicate.
SameTime(t, u) == t = u \/ (t # AnyTime /\ u # AnyTime /\ t % Day = u % Day)
ShownAsSet == Quiet =>
  \A i \in list : i.key \in DOMAIN wishes \ Hidden =>
    /\ i.life = wishes[i.key].life
    /\ i.type \in Kinds => SameTime(i.start, wishes[i.key].slot[1])
    /\ i.type \in Kinds /\ ~(approx /\ i.type = "autorec") => SameTime(i.stop, wishes[i.key].slot[2])

\* The server keeps the lifetime that the user means (HTSPTypes.h, dvr_retention_t).
LifetimeKept ==
  /\ \A sid \in DOMAIN srvRules : <<"rule", sid>> \in DOMAIN wishes =>
       srvRules[sid].life = KodiToTvh(wishes[<<"rule", sid>>].life)
  /\ \A id \in DOMAIN srvRecs : <<"rec", id>> \in DOMAIN wishes =>
       srvRecs[id].life = KodiToTvh(wishes[<<"rec", id>>].life)
=============================================================================
