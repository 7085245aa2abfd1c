---------------------------- MODULE TimersProofs ----------------------------
(***************************************************************************)
(* What recordings, timers and rules promise, for every setting, any       *)
(* lifetimes and times and any number of entities, calls and events.       *)
(***************************************************************************)
EXTENDS Timers, FiniteSetTheorems, SequenceTheorems, TLAPS

(***************************************************************************)
(* Start windows.                                                          *)
(***************************************************************************)
\* Half of an even distance.
LEMMA Halves == ASSUME NEW n \in Nat PROVE (2 * n) \div 2 = n
  BY SMT

\* The middle of a window that does not go beyond midnight, ...
LEMMA Middle ==
  ASSUME NEW b \in Nat, NEW e \in Nat, NEW n \in Nat, ~(e < b), e - b = 2 * n
  PROVE  ShownStart(TRUE, b, e) = b + n
  <1>1. b # AnyTime /\ e # AnyTime
    BY DEF AnyTime
  <1>2. ShownStart(TRUE, b, e) = b + (e - b) \div 2
    BY <1>1 DEF ShownStart
  <1> QED BY <1>2, Halves

\* ... and of one that does.
LEMMA MiddleBeyondMidnight ==
  ASSUME NEW b \in Nat, NEW e \in Nat, NEW n \in Nat, e < b, e + Day - b = 2 * n
  PROVE  /\ b + n > Day => ShownStart(TRUE, b, e) = b + n - Day
         /\ ~(b + n > Day) => ShownStart(TRUE, b, e) = b + n
  <1>1. b # AnyTime /\ e # AnyTime
    BY DEF AnyTime
  <1>2. ShownStart(TRUE, b, e) = WithinDay(b + (e + Day - b) \div 2)
    BY <1>1 DEF ShownStart
  <1>3. ShownStart(TRUE, b, e) = WithinDay(b + n)
    BY <1>2, Halves
  <1>4. WithinDay(b + n) = b + n - Day \/ ~(b + n > Day)
    BY WindowsAssumption DEF WithinDay
  <1>5. WithinDay(b + n) = b + n \/ b + n > Day
    BY WindowsAssumption DEF WithinDay
  <1> QED BY <1>3, <1>4, <1>5, WindowsAssumption

\* Where the window around a time of the day begins and ends.
LEMMA WindowOf ==
  ASSUME NEW t \in Minutes
  PROVE  /\ Approximate(t)[1] = IF t - MaxDiff < 0 THEN t - MaxDiff + Day ELSE t - MaxDiff
         /\ Approximate(t)[2] = IF t + MaxDiff > Day THEN t + MaxDiff - Day ELSE t + MaxDiff
  <1>1. t # AnyTime
    BY WindowsAssumption DEF Minutes, AnyTime
  <1>2. Approximate(t) =
          <<IF t - MaxDiff < 0 THEN t - MaxDiff + Day ELSE t - MaxDiff,
            IF t + MaxDiff > Day THEN t + MaxDiff - Day ELSE t + MaxDiff>>
    BY <1>1 DEF Approximate
  <1> QED BY <1>2

(***************************************************************************)
(* SendAutorecAddOrUpdate and AutoRecording::GetStart: the approximate     *)
(* start time that is shown for the window that was sent is the time that  *)
(* the user set, also when the window begins or ends beyond midnight; only *)
(* midnight itself may be shown as the end of the day.                     *)
(***************************************************************************)
THEOREM ApproximateTimesReturn ==
  ASSUME NEW t \in Minutes
  PROVE  \/ ShownStart(TRUE, Approximate(t)[1], Approximate(t)[2]) = t
         \/ t = 0 /\ ShownStart(TRUE, Approximate(t)[1], Approximate(t)[2]) = Day
  <1> DEFINE b == Approximate(t)[1]
             e == Approximate(t)[2]
             shown == ShownStart(TRUE, b, e)
  <1> SUFFICES shown = t \/ (t = 0 /\ shown = Day)
    OBVIOUS
  <1>0. MaxDiff \in Nat
    BY WindowsAssumption
  <1>1. /\ t \in Nat /\ t < Day /\ MaxDiff \in Nat /\ Day \in Nat /\ 2 * MaxDiff < Day
        /\ b = IF t - MaxDiff < 0 THEN t - MaxDiff + Day ELSE t - MaxDiff
        /\ e = IF t + MaxDiff > Day THEN t + MaxDiff - Day ELSE t + MaxDiff
    BY WindowsAssumption, WindowOf DEF Minutes
  <1> HIDE DEF b, e, shown
  <1>2. CASE t < MaxDiff
    <2>1. b \in Nat /\ e \in Nat /\ b = t - MaxDiff + Day /\ e = t + MaxDiff
      BY <1>1, <1>2
    <2>2. e < b /\ e + Day - b = 2 * MaxDiff
      BY <1>1, <2>1
    <2>3. /\ b + MaxDiff > Day => shown = b + MaxDiff - Day
          /\ ~(b + MaxDiff > Day) => shown = b + MaxDiff
      BY <1>0, <2>1, <2>2, MiddleBeyondMidnight, ZenonT(60) DEF shown
    <2> QED BY <1>1, <2>1, <2>3
  <1>3. CASE t >= MaxDiff /\ t + MaxDiff > Day
    <2>1. b \in Nat /\ e \in Nat /\ b = t - MaxDiff /\ e = t + MaxDiff - Day
      BY <1>1, <1>3
    <2>2. e < b /\ e + Day - b = 2 * MaxDiff
      BY <1>1, <2>1
    <2>3. /\ b + MaxDiff > Day => shown = b + MaxDiff - Day
          /\ ~(b + MaxDiff > Day) => shown = b + MaxDiff
      BY <1>0, <2>1, <2>2, MiddleBeyondMidnight, ZenonT(60) DEF shown
    <2> QED BY <1>1, <2>1, <2>3
  <1>4. CASE t >= MaxDiff /\ ~(t + MaxDiff > Day)
    <2>1. b \in Nat /\ e \in Nat /\ b = t - MaxDiff /\ e = t + MaxDiff
      BY <1>1, <1>4
    <2>2. ~(e < b) /\ e - b = 2 * MaxDiff
      BY <1>1, <2>1
    <2>3. shown = b + MaxDiff
      BY <1>1, <2>1, <2>2, Middle DEF shown
    <2> QED BY <1>1, <2>1, <2>3
  <1> QED BY <1>1, <1>2, <1>3, <1>4

-----------------------------------------------------------------------------
(***************************************************************************)
(* What is kept, and what is on its way.                                   *)
(***************************************************************************)
States == {"scheduled", "recording", "completed", "missed"}
Over == {"completed", "missed"}
Unstarted == {"scheduled", "missed", "error"}
Made == Kinds \cup {"none"}
Times == 0..Day \cup {AnyTime}
\* The lifetimes that Kodi is shown, of recordings and of rules.
RecLifes == (-3..(Space - 1)) \ {0}
RuleLifes == (-(Forever + 1)..(Space - 1)) \ {0}

\* The server's recordings, and the last words on one whose file is gone.
RecEntries ==
  {e \in [state : States, err : {"", "noFreeAdapter", "300", "missing"}, enabled : BOOLEAN,
          kind : Made, rule : 0..MaxRules, life : 0..Forever, dup : BOOLEAN] :
     /\ e.state \in {"scheduled", "missed"} => e.err = ""
     /\ e.dup => e.state = "scheduled"
     /\ e.state = "recording" => e.err \in {"", "noFreeAdapter"}
     /\ e.state = "completed" => e.err # "noFreeAdapter"}
RuleEntries == [kind : Kinds, enabled : BOOLEAN, life : 0..(Wide - 1), from : Times, to : Times]
KeptRecs == [state : States \cup {"aborted", "conflict", "error"}, enabled : BOOLEAN, kind : Made,
             rule : 0..MaxRules, life : 0..Forever, dirty : {FALSE}]
KeptRules == [int : Nat \ {0}, kind : Kinds, enabled : BOOLEAN, life : 0..(Wide - 1),
              from : Times, to : Times, dirty : BOOLEAN]

RecKinds == {"dvrEntry", "dvrEntryDelete"}
RuleKinds == {"ruleEntry", "ruleEntryDelete"}
Messages == ({"dvrEntry"} \X RecIds \X RecEntries) \cup ({"dvrEntryDelete"} \X RecIds \X {None})
            \cup ({"ruleEntry"} \X RuleIds \X RuleEntries) \cup ({"ruleEntryDelete"} \X RuleIds \X {None})
            \cup ({"channelAdd", "initialSyncCompleted"} \X {0} \X {None})

About(m, kinds, x) == m[1] \in kinds /\ m[2] = x
Gives(m) == m[1] = "ruleEntry" \/ (m[1] = "dvrEntry" /\ m[3].err # "missing")
Silent(q, kinds, x) == \A k \in 1..Len(q) : ~About(q[k], kinds, x)

\* Of the messages q about what is in srv the last ones say what is in srv, and
\* nothing follows one that says that something is gone; top is the last id.
Follows(q, kinds, srv, top) ==
  \A k \in 1..Len(q) : q[k][1] \in kinds =>
    LET x == q[k][2]  last == \A j \in 1..Len(q) : j > k => ~About(q[j], kinds, x) IN
    /\ x <= top
    /\ Gives(q[k]) /\ last => x \in DOMAIN srv /\ srv[x] = q[k][3]
    /\ ~Gives(q[k]) => last /\ x \notin DOMAIN srv

TopRec == FirstId + made.recs
Types ==
  /\ approx \in BOOLEAN /\ told \in BOOLEAN /\ level \in {"init", "dvr", "done"}
  /\ made \in [recs : 0..MaxRecs, rules : 0..MaxRules] /\ intId \in Nat
  /\ DOMAIN srvRecs \subseteq RecIds /\ srvRecs \in [DOMAIN srvRecs -> RecEntries]
  /\ DOMAIN srvRules \subseteq RuleIds /\ srvRules \in [DOMAIN srvRules -> RuleEntries]
  /\ queue \in Seq(Messages)
  /\ DOMAIN recs \subseteq RecIds /\ recs \in [DOMAIN recs -> KeptRecs]
  /\ DOMAIN rules \subseteq RuleIds /\ rules \in [DOMAIN rules -> KeptRules]
  /\ calls \in 0..MaxCalls /\ events \in 0..MaxEvents

\* What the server has made, and which timer is of which rule.
Numbered ==
  /\ \A id \in DOMAIN srvRecs : id <= TopRec /\ srvRecs[id].err # "missing"
  /\ \A sid \in DOMAIN srvRules : sid <= made.rules
  /\ \A id \in DOMAIN srvRecs :
       /\ srvRecs[id].rule <= made.rules
       /\ srvRecs[id].rule \in DOMAIN srvRules => srvRules[srvRecs[id].rule].kind = srvRecs[id].kind
Fresh == Numbered /\ \A id \in DOMAIN recs : id <= TopRec

\* The queue tells what the server has, and the addon has what it was told, but
\* of a duplicate only that it exists, if it has ever been something else.
Told == /\ Follows(queue, RecKinds, srvRecs, TopRec)
        /\ Follows(queue, RuleKinds, srvRules, made.rules)

Kept(e) == [state |-> StateOf(e), enabled |-> e.enabled, kind |-> e.kind, rule |-> e.rule,
            life |-> e.life, dirty |-> FALSE]
RecsAgree == \A id \in RecIds : Silent(queue, RecKinds, id) =>
  /\ id \in DOMAIN recs => id \in DOMAIN srvRecs
  /\ id \in DOMAIN srvRecs /\ ~Ignored(srvRecs[id]) => id \in DOMAIN recs /\ recs[id] = Kept(srvRecs[id])
Rule(int, e) == [int |-> int, kind |-> e.kind, enabled |-> e.enabled, life |-> e.life,
                 from |-> e.from, to |-> e.to, dirty |-> FALSE]
KeptRule(r, e) == /\ r.kind = e.kind /\ r.enabled = e.enabled /\ r.life = e.life
                  /\ r.from = e.from /\ r.to = e.to /\ r.dirty = FALSE
RulesAgree == ChannelFirst =>
  /\ \A sid \in RuleIds : Silent(queue, RuleKinds, sid) =>
       /\ sid \in DOMAIN rules <=> sid \in DOMAIN srvRules
       /\ sid \in DOMAIN rules => KeptRule(rules[sid], srvRules[sid])
  /\ \A sid \in DOMAIN rules : ~rules[sid].dirty
  /\ level = "init" => queue # <<>> /\ queue[1][1] = "channelAdd" /\ DOMAIN rules = {}
Levels == level = "init" => DOMAIN recs = {}

\* What has been recorded is never scheduled again, wherever it is looked at.
StartedFrom(q, k, x) == /\ x \in DOMAIN srvRecs => srvRecs[x].state \notin Unstarted
                        /\ \A j \in 1..Len(q) :
                             j > k /\ q[j][1] = "dvrEntry" /\ q[j][2] = x => q[j][3].state \notin Unstarted
Started ==
  /\ \A k \in 1..Len(queue) :
       queue[k][1] = "dvrEntry" /\ queue[k][3].state \notin Unstarted => StartedFrom(queue, k, queue[k][2])
  /\ \A id \in DOMAIN recs : recs[id].state \notin Unstarted => StartedFrom(queue, 0, id)

\* The index of a rule is its own.
Ints == /\ \A sid \in DOMAIN rules : rules[sid].int <= intId
        /\ \A s, t \in DOMAIN rules : rules[s].int = rules[t].int => s = t

\* A rule stays of its kind.
SameKind ==
  /\ \A sid \in DOMAIN rules :
       sid <= made.rules /\ (sid \in DOMAIN srvRules => rules[sid].kind = srvRules[sid].kind)
  /\ \A k \in 1..Len(queue) : queue[k][1] = "ruleEntry" /\ queue[k][2] \in DOMAIN srvRules =>
       queue[k][3].kind = srvRules[queue[k][2]].kind

\* Kodi's list, which may be old.
RecItem(i) ==
  /\ i.key = <<"rec", i.idx>> /\ i.idx \in RecIds /\ i.idx <= TopRec
  /\ i.life \in RecLifes /\ i.start = 0 /\ i.stop = 0
TimerItem(i) ==
  /\ i.what = "timer" /\ i.type \in {"manual", "child"} /\ RecItem(i)
  /\ i.idx \in DOMAIN recs \/ (i.idx \notin DOMAIN srvRecs /\ Silent(queue, RecKinds, i.idx))
  /\ i.state = "recording" =>
       StartedFrom(queue, 0, i.idx) /\ (i.idx \in DOMAIN recs => recs[i.idx].state \notin Unstarted)
RecordingItem(i) == i.what = "recording" /\ i.type = "none" /\ RecItem(i)
RuleItem(i) ==
  /\ i.what = "timer" /\ i.type \in Kinds /\ i.idx \in 1..intId /\ i.state # "recording"
  /\ i.key[1] = "rule" /\ i.key[2] \in RuleIds /\ i.key = <<"rule", i.key[2]>>
  /\ i.life \in RuleLifes /\ i.start \in Times /\ i.stop \in Times
  /\ \A sid \in DOMAIN rules : rules[sid].int = i.idx => i.key[2] = sid
Items == \A i \in list : TimerItem(i) \/ RecordingItem(i) \/ RuleItem(i)
Current == ~told /\ level = "done" =>
  list = {CreateTimer(id) : id \in {i \in DOMAIN recs : IsTimer(recs[i])}}
         \cup {RuleTimer(sid) : sid \in DOMAIN rules}
         \cup {Recording(id) : id \in {i \in DOMAIN recs : IsRecording(recs[i])}}

\* What the user has set is what the server has.
RuleMeets(e, life, slot) ==
  /\ TvhToKodi(e.life) = life
  /\ SameTime(ShownStart(approx /\ e.kind = "autorec", e.from, e.to), slot[1])
  /\ ~(approx /\ e.kind = "autorec") => SameTime(e.to, slot[2])
WishMet(key) ==
  \/ /\ key = <<"rec", key[2]>> /\ key[2] \in RecIds /\ key[2] <= TopRec
     /\ key[2] \in DOMAIN srvRecs => TvhToKodi(srvRecs[key[2]].life) = wishes[key].life
  \/ /\ key = <<"rule", key[2]>> /\ key[2] \in RuleIds /\ key[2] <= made.rules
     /\ key[2] \in DOMAIN srvRules => RuleMeets(srvRules[key[2]], wishes[key].life, wishes[key].slot)
WishesMet == \A key \in DOMAIN wishes : WishMet(key)

\* The user's call.
Sent(kind) == RuleEntry(kind, TRUE, Req.life, <<Normal(Req.window[1]), Normal(Req.window[2])>>)
GoneRec(id) == id \in RecIds /\ id <= TopRec /\ (id \in DOMAIN srvRecs => srvRecs[id].state \in Over)
GoneRule(sid) == sid \in RuleIds /\ sid <= made.rules /\ sid \notin DOMAIN srvRules
IsGone(key) == (key[1] = "rec" => GoneRec(key[2])) /\ (key[1] = "rule" => GoneRule(key[2]))
OnRule == {"deleteRule", "updateRule"}
OnRec == {"cancelDvrEntry", "stopDvrEntry", "deleteDvrEntry", "updateDvrEntry", "enableDvrEntry"}
KeyOf(req) == <<IF req.op \in OnRule THEN "rule" ELSE "rec", req.id>>
Form ==
  /\ Req.op \in OnRule \cup OnRec \cup {"addDvrEntry", "addRule"}
  /\ Req.op \in OnRec => Req.id \in RecIds
  /\ Req.op \in OnRule => Req.id \in RuleIds
  /\ Req.op \in {"addDvrEntry", "updateDvrEntry"} => Req.life \in 0..Forever
  /\ Req.op \in {"addRule", "updateRule"} => Req.life \in 0..(Wide - 1)
  /\ Req.op = "addRule" => Req.kind \in Kinds
  /\ Req.op = "updateRule" => Req.enabled \in BOOLEAN
  /\ "enabled" \in DOMAIN Req => Req.enabled \in BOOLEAN
  /\ call.op = "add" <=> Req.op \in {"addDvrEntry", "addRule"}
  /\ call.op = "delete" => Req.op \in {"cancelDvrEntry", "stopDvrEntry", "deleteRule"}
  /\ call.op # "add" /\ intId <= FirstId => call.item.key = KeyOf(Req)
Means ==
  /\ Req.op \in {"addDvrEntry", "updateDvrEntry"} => TvhToKodi(Req.life) = Req.asked
  /\ Req.op = "addRule" => RuleMeets(Sent(Req.kind), Req.asked, Req.slot)
  /\ Req.op = "updateRule" =>
       /\ Req.id <= made.rules
       /\ Req.id \in DOMAIN srvRules => RuleMeets(Sent(srvRules[Req.id].kind), Req.asked, Req.slot)
Aims ==
  /\ Req.op \in OnRec => (intId <= FirstId => Req.id <= TopRec)
  /\ Req.op = "stopDvrEntry" =>
       Req.id <= TopRec /\ (Req.id \in DOMAIN srvRecs => srvRecs[Req.id].state \notin Unstarted)
  /\ call.op = "delete" /\ call.item.state = "recording" /\ Req.op = "cancelDvrEntry" =>
       Req.id <= TopRec /\ Req.id \notin DOMAIN srvRecs
Done == call.at = "answered" /\ call.answer \in {"success", "malformed"} /\ call.op = "delete" => IsGone(KeyOf(Req))
Request == Form /\ Means /\ Aims /\ Done
CallForm == call = [at |-> call.at, op |-> call.op, item |-> call.item, req |-> call.req,
                    locks |-> call.locks, answer |-> call.answer]
CallOK == /\ CallForm /\ call.at \in {"idle", "asked", "answered"} /\ (call.at # "idle" => Request)
          /\ intId <= FirstId => IsGone(said)

IInv == /\ Types /\ Fresh /\ Told /\ RecsAgree /\ RulesAgree /\ Levels /\ Started
        /\ SameKind /\ Ints /\ Items /\ Current /\ WishesMet /\ CallOK

-----------------------------------------------------------------------------
(***************************************************************************)
(* Lifetimes and times.                                                    *)
(***************************************************************************)
\* The width of a number.
LEMMA Widths == Forever \in Nat /\ Forever > 3 /\ Wide = 2 * (Forever + 1) /\ Space = Forever - 1
  BY TimersAssumption DEF Forever, Space

\* Numbers modulo the width.
LEMMA Wraps ==
  ASSUME NEW n \in Int
  PROVE  /\ n % Wide \in 0..(Wide - 1)
         /\ 0 <= n /\ n < Wide => n % Wide = n
         /\ n < 0 /\ -Wide <= n => n % Wide = n + Wide
  BY TimersAssumption, Widths

\* What Kodi is shown of the server's lifetimes.
LEMMA LifesShown ==
  /\ \A life \in 0..Forever : TvhToKodi(life) \in RecLifes
  /\ \A life \in 0..(Wide - 1) : TvhToKodi(life) \in RuleLifes
  <1>1. \A life \in 0..Forever : TvhToKodi(life) \in RecLifes
    BY Widths DEF TvhToKodi, RecLifes
  <1>2. \A life \in 0..(Wide - 1) : TvhToKodi(life) \in RuleLifes
    BY Widths DEF TvhToKodi, RuleLifes
  <1> QED BY <1>1, <1>2

\* The lifetime of a recording or a one-shot timer is the same when it returns.
LEMMA RecLifeReturns ==
  ASSUME NEW life \in RecLifes
  PROVE  KodiToTvh(life) \in 0..Forever /\ TvhToKodi(KodiToTvh(life)) = life
  BY Widths DEF RecLifes, KodiToTvh, TvhToKodi

\* So is that of a rule, for which the server has another number.
LEMMA RuleLifeReturns ==
  ASSUME NEW life \in RuleLifes
  PROVE  Unsigned(life) \in 0..(Wide - 1) /\ TvhToKodi(Unsigned(life)) = life
  <1>1. CASE life < 0
    <2>1. life \in Int /\ -Wide <= life /\ life + Wide > Forever /\ life + Wide < Wide
      BY <1>1, Widths DEF RuleLifes
    <2>2. Unsigned(life) = life + Wide
      BY <1>1, <2>1, Wraps DEF Unsigned
    <2> QED BY <1>1, <2>1, <2>2, Widths DEF TvhToKodi, RuleLifes
  <1>2. CASE life >= 0
    <2>1. Unsigned(life) = life
      BY <1>2, Wraps, Widths DEF Unsigned, RuleLifes
    <2> QED BY <1>2, <2>1, Widths DEF TvhToKodi, RuleLifes
  <1> QED BY <1>1, <1>2 DEF RuleLifes

\* Times modulo the day.
LEMMA DayWraps ==
  /\ \A t \in Minutes : t % Day = t
  /\ Day % Day = 0
  BY WindowsAssumption DEF Minutes

\* The time of the day that is sent for a time is the same time.
LEMMA TimesOfDay ==
  ASSUME NEW t \in Times
  PROVE  /\ t = AnyTime => TimeOfDay(t) = AnyTime
         /\ t # AnyTime => TimeOfDay(t) \in Minutes /\ TimeOfDay(t) % Day = t % Day /\ TimeOfDay(t) # AnyTime
  <1>1. t = AnyTime \/ t \in Minutes \/ t = Day
    BY WindowsAssumption DEF Times, Minutes
  <1>2. 0 \in Minutes /\ AnyTime \notin Minutes /\ AnyTime # Day
    BY WindowsAssumption DEF Minutes, AnyTime
  <1> QED BY <1>1, <1>2, DayWraps DEF TimeOfDay

\* What the server makes of a time that is out of the day.
LEMMA Normals ==
  /\ \A t \in 0..Day : Normal(t) = t
  /\ Normal(AnyTime) = AnyTime /\ Normal(NoTime) = AnyTime
  /\ \A t : Normal(t) \in Times
  <1>1. AnyTime \notin 0..Day /\ NoTime \notin 0..Day
    BY WindowsAssumption DEF AnyTime, NoTime
  <1> QED BY <1>1 DEF Normal, Times

\* What the server keeps of the times of a rule, Kodi shows as what was set.
LEMMA WindowMeets ==
  ASSUME NEW kind \in Kinds, NEW life \in RuleLifes, NEW slot, NEW on,
         slot[1] \in Times, slot[2] \in Times, kind = "timerec" => slot[1] # AnyTime /\ slot[2] # AnyTime
  PROVE  LET w == Window(kind, slot)
         IN RuleMeets(RuleEntry(kind, on, Unsigned(life), <<Normal(w[1]), Normal(w[2])>>), life, slot)
  <1> DEFINE w == Window(kind, slot)
             e == RuleEntry(kind, on, Unsigned(life), <<Normal(w[1]), Normal(w[2])>>)
             start == TimeOfDay(slot[1])
             stop == TimeOfDay(slot[2])
  <1>1. /\ e.kind = kind /\ e.life = Unsigned(life) /\ e.from = Normal(w[1]) /\ e.to = Normal(w[2])
    BY DEF RuleEntry
  <1>2. /\ slot[1] = AnyTime => start = AnyTime
        /\ slot[1] # AnyTime => start \in Minutes /\ start % Day = slot[1] % Day /\ start # AnyTime
        /\ slot[2] = AnyTime => stop = AnyTime
        /\ slot[2] # AnyTime => stop \in Minutes /\ stop % Day = slot[2] % Day /\ stop # AnyTime
    BY TimesOfDay
  <1>3. Minutes \subseteq 0..Day
    BY WindowsAssumption DEF Minutes
  <1>4. /\ kind # "autorec" => w[1] = start /\ w[2] = stop
        /\ kind = "autorec" /\ approx => w = Approximate(start)
        /\ kind = "autorec" /\ ~approx => w[1] = (IF start = AnyTime THEN NoTime ELSE start)
                                          /\ w[2] = (IF stop = AnyTime THEN NoTime ELSE stop)
    BY DEF Window, Exact
  <1> HIDE DEF w, start, stop
  <1>5. TvhToKodi(e.life) = life
    BY <1>1, RuleLifeReturns
  <1> HIDE DEF e
  <1>6. CASE ~(approx /\ kind = "autorec")
    <2>1. ~(approx /\ e.kind = "autorec")
      BY <1>1, <1>6
    <2>2. ShownStart(approx /\ e.kind = "autorec", e.from, e.to) = e.from
      BY <2>1 DEF ShownStart
    <2>3. e.from = start /\ e.to = stop
      <3>1. CASE kind = "autorec"
        BY <1>1, <1>2, <1>3, <1>4, <1>6, <3>1, Normals
      <3>2. CASE kind = "timerec"
        BY <1>1, <1>2, <1>3, <1>4, <3>2, Normals
      <3> QED BY <3>1, <3>2 DEF Kinds
    <2>4. SameTime(start, slot[1]) /\ SameTime(stop, slot[2])
      BY <1>2 DEF SameTime
    <2> QED BY <1>5, <2>2, <2>3, <2>4 DEF RuleMeets, e, w
  <1>7. CASE approx /\ kind = "autorec"
    <2>1. (approx /\ e.kind = "autorec") = TRUE /\ w = Approximate(start)
      BY <1>1, <1>4, <1>7
    <2>2. CASE slot[1] = AnyTime
      <3>1. w[1] = AnyTime /\ w[2] = AnyTime
        BY <1>2, <2>1, <2>2 DEF Approximate
      <3>2. ShownStart(TRUE, e.from, e.to) = slot[1]
        BY <1>1, <2>2, <3>1, Normals DEF ShownStart
      <3> QED BY <1>5, <2>1, <3>2 DEF RuleMeets, SameTime, e, w
    <2>3. CASE slot[1] # AnyTime
      <3>1. start \in Minutes /\ start % Day = slot[1] % Day
        BY <1>2, <2>3
      <3>2. w[1] \in 0..Day /\ w[2] \in 0..Day
        BY <2>1, <3>1, WindowOf, WindowsAssumption DEF Minutes
      <3>3. e.from = Approximate(start)[1] /\ e.to = Approximate(start)[2]
        BY <1>1, <2>1, <3>2, Normals
      <3>4. \/ ShownStart(TRUE, e.from, e.to) = start
            \/ start = 0 /\ ShownStart(TRUE, e.from, e.to) = Day
        BY <3>1, <3>3, ApproximateTimesReturn
      <3>5. SameTime(ShownStart(TRUE, e.from, e.to), slot[1])
        <4>1. start # AnyTime /\ Day # AnyTime
          BY <3>1, WindowsAssumption DEF Minutes, AnyTime
        <4>2. start = 0 => Day % Day = start % Day
          BY <3>1, DayWraps
        <4> QED BY <2>3, <3>1, <3>4, <4>1, <4>2 DEF SameTime
      <3> QED BY <1>5, <2>1, <3>5 DEF RuleMeets, e, w
    <2> QED BY <2>2, <2>3
  <1> QED BY <1>6, <1>7 DEF e, w

-----------------------------------------------------------------------------
(***************************************************************************)
(* Messages and queues of them.                                            *)
(***************************************************************************)
LEMMA MessageFields ==
  ASSUME NEW m \in Messages
  PROVE  /\ m[1] \in RecKinds => m[2] \in RecIds
         /\ m[1] \in RuleKinds => m[2] \in RuleIds
         /\ m[1] = "dvrEntry" => m[3] \in RecEntries
         /\ m[1] = "ruleEntry" => m[3] \in RuleEntries
         /\ m[1] \in RecKinds \cup RuleKinds \cup {"channelAdd", "initialSyncCompleted"}
  BY DEF Messages, RecKinds, RuleKinds

\* The messages the server sends.
LEMMA MessagesOf ==
  /\ \A id \in RecIds, e \in RecEntries : Added(id, e) \in Messages
  /\ \A id \in RecIds : Deleted(id) \in Messages
  /\ \A sid \in RuleIds, e \in RuleEntries : RuleAdded(sid, e) \in Messages
  /\ \A sid \in RuleIds : RuleDeleted(sid) \in Messages
  BY DEF Messages, Message, Added, Deleted, RuleAdded, RuleDeleted

\* A queue behind another.
LEMMA Appended ==
  ASSUME NEW q \in Seq(Messages), NEW ms \in Seq(Messages)
  PROVE  /\ q \o ms \in Seq(Messages) /\ Len(q) \in Nat /\ Len(ms) \in Nat
         /\ Len(q \o ms) = Len(q) + Len(ms)
         /\ \A i \in 1..Len(q) : (q \o ms)[i] = q[i] /\ i \in 1..Len(q \o ms)
         /\ \A i \in 1..Len(ms) : (q \o ms)[Len(q) + i] = ms[i] /\ Len(q) + i \in 1..Len(q \o ms)
         /\ \A i \in 1..Len(q \o ms) : \/ i \in 1..Len(q)
                                       \/ i - Len(q) \in 1..Len(ms) /\ (q \o ms)[i] = ms[i - Len(q)]
  <1> DEFINE s == q \o ms
             n == Len(q)
             k == Len(ms)
  <1>1. n \in Nat /\ k \in Nat
    OBVIOUS
  <1>2. /\ s \in Seq(Messages) /\ Len(s) = n + k
        /\ \A i \in 1..(n + k) : s[i] = IF i <= n THEN q[i] ELSE ms[i - n]
    BY ConcatProperties
  <1> HIDE DEF s, n, k
  <1>3. \A i \in 1..n : s[i] = q[i] /\ i \in 1..(n + k)
    BY <1>1, <1>2
  <1>4. \A i \in 1..k : s[n + i] = ms[i] /\ n + i \in 1..(n + k)
    <2>1. \A i \in 1..k : n + i \in 1..(n + k) /\ ~(n + i <= n) /\ (n + i) - n = i
      BY <1>1
    <2> QED BY <1>2, <2>1
  <1>5. \A i \in 1..(n + k) : i \in 1..n \/ (i - n \in 1..k /\ s[i] = ms[i - n])
    <2>1. \A i \in 1..(n + k) : i \in 1..n \/ (~(i <= n) /\ i - n \in 1..k)
      BY <1>1
    <2> QED BY <1>2, <2>1
  <1> QED BY <1>1, <1>2, <1>3, <1>4, <1>5 DEF s, n, k

\* A queue without its first message.
LEMMA InTail ==
  ASSUME NEW q \in Seq(Messages), q # <<>>
  PROVE  /\ Tail(q) \in Seq(Messages) /\ Len(q) \in Nat /\ Len(Tail(q)) = Len(q) - 1
         /\ Head(q) = q[1] /\ q[1] \in Messages /\ 1 \in 1..Len(q)
         /\ \A i \in 1..Len(Tail(q)) : Tail(q)[i] = q[i + 1] /\ i + 1 \in 1..Len(q) /\ i + 1 > 1
         /\ \A i \in 1..Len(q) : i = 1 \/ (i - 1 \in 1..Len(Tail(q)) /\ q[i] = Tail(q)[i - 1])
  <1> DEFINE t == Tail(q)
             n == Len(q)
  <1>1. /\ t \in Seq(Messages) /\ n \in Nat /\ n > 0 /\ Len(t) = n - 1 /\ Head(q) = q[1]
        /\ \A i \in 1..(n - 1) : t[i] = q[i + 1]
    OBVIOUS
  <1>2. q[1] \in Messages
    BY <1>1
  <1> HIDE DEF t, n
  <1>3. \A i \in 1..(n - 1) : t[i] = q[i + 1] /\ i + 1 \in 1..n /\ i + 1 > 1
    BY <1>1
  <1>4. \A i \in 1..n : i = 1 \/ (i - 1 \in 1..(n - 1) /\ q[i] = t[i - 1])
    <2>1. \A i \in 1..n : i = 1 \/ (i - 1 \in 1..(n - 1) /\ (i - 1) + 1 = i)
      BY <1>1
    <2> QED BY <1>1, <2>1
  <1> QED BY <1>1, <1>2, <1>3, <1>4 DEF t, n

\* Nothing is said in two queues of what is said in neither.
LEMMA SilentAppended ==
  ASSUME NEW q \in Seq(Messages), NEW ms \in Seq(Messages), NEW kinds, NEW x
  PROVE  Silent(q \o ms, kinds, x) <=> Silent(q, kinds, x) /\ Silent(ms, kinds, x)
  <1>1. ASSUME Silent(q \o ms, kinds, x), NEW i \in 1..Len(q)
        PROVE  ~About(q[i], kinds, x)
    <2>1. (q \o ms)[i] = q[i] /\ i \in 1..Len(q \o ms)
      BY Appended
    <2> QED BY <1>1, <2>1 DEF Silent
  <1>2. ASSUME Silent(q \o ms, kinds, x), NEW i \in 1..Len(ms)
        PROVE  ~About(ms[i], kinds, x)
    <2>1. (q \o ms)[Len(q) + i] = ms[i] /\ Len(q) + i \in 1..Len(q \o ms)
      BY Appended
    <2> QED BY <1>2, <2>1 DEF Silent
  <1>3. Silent(q, kinds, x) /\ Silent(ms, kinds, x) => Silent(q \o ms, kinds, x)
    BY Appended DEF Silent, About
  <1> QED BY <1>1, <1>2, <1>3 DEF Silent

\* What the first message adds.
LEMMA SilentTail ==
  ASSUME NEW q \in Seq(Messages), q # <<>>, NEW kinds, NEW x
  PROVE  Silent(q, kinds, x) <=> Silent(Tail(q), kinds, x) /\ ~About(q[1], kinds, x)
  <1>1. Silent(q, kinds, x) => Silent(Tail(q), kinds, x) /\ ~About(q[1], kinds, x)
    BY InTail DEF Silent, About
  <1>2. Silent(Tail(q), kinds, x) /\ ~About(q[1], kinds, x) => Silent(q, kinds, x)
    BY InTail DEF Silent, About
  <1> QED BY <1>1, <1>2

\* What remains to be read still tells what there is ...
LEMMA FollowsTail ==
  ASSUME NEW q \in Seq(Messages), q # <<>>, NEW kinds, NEW srv, NEW top, Follows(q, kinds, srv, top)
  PROVE  Follows(Tail(q), kinds, srv, top)
  <1> DEFINE t == Tail(q)
  <1>1. /\ \A i \in 1..Len(t) : t[i] = q[i + 1] /\ i + 1 \in 1..Len(q) /\ i + 1 > 1
        /\ \A i \in 1..Len(q) : i = 1 \/ (i - 1 \in 1..Len(t) /\ q[i] = t[i - 1])
        /\ Len(q) \in Nat /\ Len(t) = Len(q) - 1
    BY InTail
  <1> HIDE DEF t
  <1>2. SUFFICES ASSUME NEW k \in 1..Len(t), t[k][1] \in kinds
                 PROVE  LET x == t[k][2]  last == \A j \in 1..Len(t) : j > k => ~About(t[j], kinds, x) IN
                        /\ x <= top
                        /\ Gives(t[k]) /\ last => x \in DOMAIN srv /\ srv[x] = t[k][3]
                        /\ ~Gives(t[k]) => last /\ x \notin DOMAIN srv
    BY DEF Follows, t
  <1> DEFINE x == t[k][2]
             lastT == \A j \in 1..Len(t) : j > k => ~About(t[j], kinds, x)
             lastQ == \A j \in 1..Len(q) : j > k + 1 => ~About(q[j], kinds, x)
  <1>3. t[k] = q[k + 1] /\ k + 1 \in 1..Len(q)
    BY <1>1
  <1>4. lastT <=> lastQ
    <2>1. ASSUME lastT, NEW j \in 1..Len(q), j > k + 1
          PROVE  ~About(q[j], kinds, x)
      <3>1. j # 1 /\ j - 1 > k
        BY <2>1
      <3> QED BY <1>1, <2>1, <3>1
    <2>2. ASSUME lastQ, NEW j \in 1..Len(t), j > k
          PROVE  ~About(t[j], kinds, x)
      <3>1. j + 1 > k + 1
        BY <2>2
      <3> QED BY <1>1, <2>2, <3>1
    <2> QED BY <2>1, <2>2
  <1>5. /\ x <= top
        /\ Gives(q[k + 1]) /\ lastQ => x \in DOMAIN srv /\ srv[x] = q[k + 1][3]
        /\ ~Gives(q[k + 1]) => lastQ /\ x \notin DOMAIN srv
    BY <1>2, <1>3 DEF Follows
  <1> QED BY <1>3, <1>4, <1>5

\* ... and the first message too, unless others about the same follow.
LEMMA HeadFollows ==
  ASSUME NEW q \in Seq(Messages), q # <<>>, NEW kinds, NEW srv, NEW top, Follows(q, kinds, srv, top),
         q[1][1] \in kinds
  PROVE  /\ q[1][2] <= top
         /\ Gives(q[1]) /\ Silent(Tail(q), kinds, q[1][2]) => q[1][2] \in DOMAIN srv /\ srv[q[1][2]] = q[1][3]
         /\ ~Gives(q[1]) => Silent(Tail(q), kinds, q[1][2]) /\ q[1][2] \notin DOMAIN srv
  <1> DEFINE x == q[1][2]
             last == \A j \in 1..Len(q) : j > 1 => ~About(q[j], kinds, x)
  <1>1. /\ x <= top
        /\ Gives(q[1]) /\ last => x \in DOMAIN srv /\ srv[x] = q[1][3]
        /\ ~Gives(q[1]) => last /\ x \notin DOMAIN srv
    BY InTail DEF Follows
  <1>2. ASSUME Silent(Tail(q), kinds, x), NEW j \in 1..Len(q), j > 1
        PROVE  ~About(q[j], kinds, x)
    <2>1. j - 1 \in 1..Len(Tail(q)) /\ q[j] = Tail(q)[j - 1]
      BY <1>2, InTail
    <2> QED BY <1>2, <2>1 DEF Silent
  <1>3. last => Silent(Tail(q), kinds, x)
    BY InTail DEF Silent
  <1> QED BY <1>1, <1>2, <1>3

\* New messages tell what has changed, and are about nothing that is gone.
LEMMA FollowsAppended ==
  ASSUME NEW q \in Seq(Messages), NEW ms \in Seq(Messages), NEW kinds, NEW srv, NEW new,
         NEW top \in Int, NEW high \in Int, top <= high,
         \A i \in 1..Len(q) : q[i][1] \in kinds => q[i][2] \in Int,
         Follows(q, kinds, srv, top), Follows(ms, kinds, new, high),
         \A i \in 1..Len(q) : q[i][1] \in kinds /\ Silent(ms, kinds, q[i][2]) =>
           /\ q[i][2] \in DOMAIN srv <=> q[i][2] \in DOMAIN new
           /\ q[i][2] \in DOMAIN srv => new[q[i][2]] = srv[q[i][2]],
         \A i \in 1..Len(ms) : ms[i][1] \in kinds => ms[i][2] \in DOMAIN srv \/ ms[i][2] > top
  PROVE  Follows(q \o ms, kinds, new, high)
  <1> DEFINE s == q \o ms
             n == Len(q)
             Tells(p, k, at, up) ==
               LET x == p[k][2]  last == \A j \in 1..Len(p) : j > k => ~About(p[j], kinds, x) IN
               /\ x <= up
               /\ Gives(p[k]) /\ last => x \in DOMAIN at /\ at[x] = p[k][3]
               /\ ~Gives(p[k]) => last /\ x \notin DOMAIN at
  <1>1. /\ n \in Nat /\ Len(ms) \in Nat /\ Len(s) = n + Len(ms)
        /\ \A i \in 1..n : s[i] = q[i] /\ i \in 1..Len(s)
        /\ \A i \in 1..Len(ms) : s[n + i] = ms[i] /\ n + i \in 1..Len(s)
        /\ \A i \in 1..Len(s) : \/ i \in 1..n
                                \/ i - n \in 1..Len(ms) /\ s[i] = ms[i - n]
    BY Appended
  <1>2. /\ \A k \in 1..n : q[k][1] \in kinds => Tells(q, k, srv, top)
        /\ \A k \in 1..Len(ms) : ms[k][1] \in kinds => Tells(ms, k, new, high)
    BY DEF Follows
  <1> HIDE DEF s, n
  <1>3. SUFFICES ASSUME NEW k \in 1..Len(s), s[k][1] \in kinds
                 PROVE  Tells(s, k, new, high)
    BY DEF Follows, s
  <1> DEFINE x == s[k][2]
             last == \A j \in 1..Len(s) : j > k => ~About(s[j], kinds, x)
  <1>4. CASE k \in 1..n
    <2> DEFINE lastQ == \A j \in 1..n : j > k => ~About(q[j], kinds, x)
    <2>1. s[k] = q[k] /\ x = q[k][2]
      BY <1>1, <1>4
    <2>2. /\ x <= top
          /\ Gives(q[k]) /\ lastQ => x \in DOMAIN srv /\ srv[x] = q[k][3]
          /\ ~Gives(q[k]) => lastQ /\ x \notin DOMAIN srv
      BY <1>2, <1>3, <1>4, <2>1 DEF n
    <2>3. last <=> lastQ /\ Silent(ms, kinds, x)
      <3>1. last => lastQ
        BY <1>1
      <3>2. ASSUME last, NEW j \in 1..Len(ms)
            PROVE  ~About(ms[j], kinds, x)
        <4>1. n + j \in 1..Len(s) /\ s[n + j] = ms[j] /\ n + j > k
          BY <1>1, <1>4
        <4> QED BY <3>2, <4>1
      <3>3. ASSUME lastQ, Silent(ms, kinds, x), NEW j \in 1..Len(s), j > k
            PROVE  ~About(s[j], kinds, x)
        BY <1>1, <3>3 DEF Silent
      <3> QED BY <3>1, <3>2, <3>3 DEF Silent
    <2>4. x <= high /\ x \in Int
      BY <1>3, <1>4, <2>1, <2>2 DEF n
    <2>5. Gives(q[k]) /\ last => x \in DOMAIN new /\ new[x] = q[k][3]
      BY <1>3, <1>4, <2>1, <2>2, <2>3 DEF n
    <2>6. ~Gives(q[k]) => Silent(ms, kinds, x)
      <3>1. SUFFICES ASSUME ~Gives(q[k]), NEW i \in 1..Len(ms), About(ms[i], kinds, x)
                     PROVE  FALSE
        BY DEF Silent
      <3>2. x \in DOMAIN srv \/ x > top
        BY <3>1 DEF About
      <3> QED BY <2>2, <2>4, <3>1, <3>2
    <2>7. ~Gives(q[k]) => last /\ x \notin DOMAIN new
      BY <1>3, <1>4, <2>1, <2>2, <2>3, <2>6 DEF n
    <2> QED BY <2>1, <2>4, <2>5, <2>7
  <1>5. CASE ~(k \in 1..n)
    <2> DEFINE i == k - n
               lastM == \A j \in 1..Len(ms) : j > i => ~About(ms[j], kinds, x)
    <2>1. i \in 1..Len(ms) /\ s[k] = ms[i] /\ x = ms[i][2]
      BY <1>1, <1>5
    <2>2. /\ x <= high
          /\ Gives(ms[i]) /\ lastM => x \in DOMAIN new /\ new[x] = ms[i][3]
          /\ ~Gives(ms[i]) => lastM /\ x \notin DOMAIN new
      BY <1>2, <1>3, <2>1
    <2>3. last <=> lastM
      <3>1. ASSUME last, NEW j \in 1..Len(ms), j > i
            PROVE  ~About(ms[j], kinds, x)
        <4>1. n + j \in 1..Len(s) /\ s[n + j] = ms[j] /\ n + j > k
          BY <1>1, <2>1, <3>1
        <4> QED BY <3>1, <4>1
      <3>2. ASSUME lastM, NEW j \in 1..Len(s), j > k
            PROVE  ~About(s[j], kinds, x)
        <4>1. j \notin 1..n /\ j - n > i
          BY <1>1, <1>5, <3>2
        <4> QED BY <1>1, <3>2, <4>1
      <3> QED BY <3>1, <3>2
    <2> QED BY <2>1, <2>2, <2>3
  <1> QED BY <1>4, <1>5

-----------------------------------------------------------------------------
(***************************************************************************)
(* What the server does.                                                   *)
(***************************************************************************)
\* The messages ms tell the whole change, and no recording goes back.
Sound(ms) ==
  /\ ms \in Seq(Messages) /\ queue' = queue \o ms
  /\ made' \in [recs : 0..MaxRecs, rules : 0..MaxRules]
  /\ made'.recs >= made.recs /\ made'.rules >= made.rules
  /\ DOMAIN srvRecs' \subseteq RecIds /\ srvRecs' \in [DOMAIN srvRecs' -> RecEntries]
  /\ DOMAIN srvRules' \subseteq RuleIds /\ srvRules' \in [DOMAIN srvRules' -> RuleEntries]
  /\ Numbered'
  /\ Follows(ms, RecKinds, srvRecs', TopRec') /\ Follows(ms, RuleKinds, srvRules', made'.rules)
  /\ \A id \in RecIds : Silent(ms, RecKinds, id) =>
       /\ id \in DOMAIN srvRecs <=> id \in DOMAIN srvRecs'
       /\ id \in DOMAIN srvRecs => srvRecs'[id] = srvRecs[id]
  /\ \A sid \in RuleIds : Silent(ms, RuleKinds, sid) =>
       /\ sid \in DOMAIN srvRules <=> sid \in DOMAIN srvRules'
       /\ sid \in DOMAIN srvRules => srvRules'[sid] = srvRules[sid]
  /\ \A i \in 1..Len(ms) : /\ ms[i][1] \in RecKinds => ms[i][2] \in DOMAIN srvRecs \/ ms[i][2] > TopRec
                           /\ ms[i][1] \in RuleKinds => ms[i][2] \in DOMAIN srvRules \/ ms[i][2] > made.rules
  /\ \A id \in DOMAIN srvRecs' : id <= TopRec =>
       /\ id \in DOMAIN srvRecs
       /\ srvRecs[id].state \notin Unstarted => srvRecs'[id].state \notin Unstarted
       /\ srvRecs[id].state \in Over => srvRecs'[id].state \in Over
  /\ \A sid \in DOMAIN srvRules' : sid <= made.rules =>
       sid \in DOMAIN srvRules /\ srvRules'[sid].kind = srvRules[sid].kind
  /\ \A i \in 1..Len(ms) : ms[i][1] = "dvrEntry" =>
       /\ Len(ms) = 1
       /\ ms[i][2] \in DOMAIN srvRecs /\ srvRecs[ms[i][2]].state \notin Unstarted => ms[i][3].state \notin Unstarted
       /\ ms[i][2] \in DOMAIN srvRecs' /\ ms[i][3].state \notin Unstarted => srvRecs'[ms[i][2]].state \notin Unstarted
  /\ \A i \in 1..Len(ms) : ms[i][1] = "ruleEntry" /\ ms[i][2] \in DOMAIN srvRules' =>
       ms[i][3].kind = srvRules'[ms[i][2]].kind

Addon == UNCHANGED <<approx, level, recs, rules, intId, list, told>>

\* The numbers of what there is.
LEMMA Tops ==
  ASSUME Types
  PROVE  /\ made.recs \in Nat /\ made.rules \in Nat /\ TopRec \in Int /\ FirstId \in Nat
         /\ RecIds \subseteq Int /\ RuleIds \subseteq Int
         /\ MaxRecs \in Nat /\ MaxRules \in Nat /\ MaxCalls \in Nat /\ MaxEvents \in Nat
  BY TimersAssumption, SMTT(30) DEF Types, TopRec, RecIds, RuleIds

\* No number is given twice.
LEMMA SoundTops ==
  ASSUME Types, NEW ms, Sound(ms)
  PROVE  TopRec' \in Int /\ TopRec <= TopRec' /\ made'.rules \in Int /\ made.rules <= made'.rules
  BY Tops, SMTT(30) DEF Sound, TopRec

\* A sound answer of the server keeps the types and the numbers, ...
LEMMA SoundTypes ==
  ASSUME Types, Fresh, NEW ms, Sound(ms), Addon, calls' \in 0..MaxCalls, events' \in 0..MaxEvents
  PROVE  Types' /\ Fresh'
  <1>1. queue' \in Seq(Messages)
    BY Appended DEF Sound, Types
  <1>2. Types'
    BY <1>1 DEF Sound, Types, Addon
  <1>3. \A id \in DOMAIN recs : id <= TopRec'
    <2>1. \A id \in DOMAIN recs : id \in Int /\ id <= TopRec
      BY Tops DEF Fresh, Types
    <2>2. TopRec \in Int /\ TopRec' \in Int /\ TopRec <= TopRec'
      BY SoundTops, Tops
    <2> QED BY <2>1, <2>2
  <1> QED BY <1>2, <1>3 DEF Sound, Fresh, Addon

\* ... what the queue tells, ...
LEMMA SoundTold ==
  ASSUME Types, Told, NEW ms, Sound(ms)
  PROVE  Told'
  <1>1. /\ queue \in Seq(Messages) /\ ms \in Seq(Messages) /\ queue' = queue \o ms
        /\ \A i \in 1..Len(queue) : /\ queue[i][1] \in RecKinds => queue[i][2] \in RecIds
                                    /\ queue[i][1] \in RuleKinds => queue[i][2] \in RuleIds
    BY MessageFields DEF Types, Sound
  <1>2. Follows(queue \o ms, RecKinds, srvRecs', TopRec')
    BY <1>1, Tops, SoundTops, FollowsAppended DEF Told, Sound
  <1>3. Follows(queue \o ms, RuleKinds, srvRules', made'.rules)
    <2>1. /\ made.rules \in Int /\ made'.rules \in Int /\ made.rules <= made'.rules
          /\ \A i \in 1..Len(queue) : queue[i][1] \in RuleKinds => queue[i][2] \in Int
      BY <1>1, Tops, SoundTops, SMTT(30)
    <2>2. /\ Follows(queue, RuleKinds, srvRules, made.rules) /\ Follows(ms, RuleKinds, srvRules', made'.rules)
          /\ \A i \in 1..Len(ms) : ms[i][1] \in RuleKinds => ms[i][2] \in DOMAIN srvRules \/ ms[i][2] > made.rules
      BY DEF Told, Sound
    <2>3. \A i \in 1..Len(queue) : queue[i][1] \in RuleKinds /\ Silent(ms, RuleKinds, queue[i][2]) =>
            /\ queue[i][2] \in DOMAIN srvRules <=> queue[i][2] \in DOMAIN srvRules'
            /\ queue[i][2] \in DOMAIN srvRules => srvRules'[queue[i][2]] = srvRules[queue[i][2]]
      BY <1>1 DEF Sound
    <2> QED BY <1>1, <2>1, <2>2, <2>3, FollowsAppended
  <1> QED BY <1>1, <1>2, <1>3 DEF Told

\* ... what the addon has of what nothing is said about, ...
LEMMA SoundAgree ==
  ASSUME Types, RecsAgree, RulesAgree, Levels, NEW ms, Sound(ms), Addon
  PROVE  RecsAgree' /\ RulesAgree' /\ Levels'
  <1>1. queue \in Seq(Messages) /\ ms \in Seq(Messages) /\ queue' = queue \o ms
    BY DEF Types, Sound
  <1>2. RecsAgree'
    <2>1. SUFFICES ASSUME NEW id \in RecIds, Silent(queue', RecKinds, id)
                   PROVE  /\ id \in DOMAIN recs' => id \in DOMAIN srvRecs'
                          /\ id \in DOMAIN srvRecs' /\ ~Ignored(srvRecs'[id]) =>
                               id \in DOMAIN recs' /\ recs'[id] = Kept(srvRecs'[id])
      BY DEF RecsAgree, Kept, StateOf, Ignored
    <2>2. Silent(queue, RecKinds, id) /\ Silent(ms, RecKinds, id)
      BY <1>1, <2>1, SilentAppended
    <2>3. /\ id \in DOMAIN recs => id \in DOMAIN srvRecs
          /\ id \in DOMAIN srvRecs /\ ~Ignored(srvRecs[id]) => id \in DOMAIN recs /\ recs[id] = Kept(srvRecs[id])
      BY <2>2 DEF RecsAgree
    <2>4. /\ id \in DOMAIN srvRecs <=> id \in DOMAIN srvRecs'
          /\ id \in DOMAIN srvRecs => srvRecs'[id] = srvRecs[id]
      BY <2>2 DEF Sound
    <2> QED BY <2>3, <2>4 DEF Addon
  <1>3. RulesAgree'
    <2>1. SUFFICES ASSUME ChannelFirst PROVE RulesAgree'
      BY DEF RulesAgree
    <2>2. ASSUME NEW sid \in RuleIds, Silent(queue', RuleKinds, sid)
          PROVE  /\ sid \in DOMAIN rules' <=> sid \in DOMAIN srvRules'
                 /\ sid \in DOMAIN rules' => KeptRule(rules'[sid], srvRules'[sid])
      <3>1. Silent(queue, RuleKinds, sid) /\ Silent(ms, RuleKinds, sid)
        BY <1>1, <2>2, SilentAppended
      <3>2. /\ sid \in DOMAIN rules <=> sid \in DOMAIN srvRules
            /\ sid \in DOMAIN rules => KeptRule(rules[sid], srvRules[sid])
        BY <2>1, <3>1 DEF RulesAgree
      <3>3. /\ sid \in DOMAIN srvRules <=> sid \in DOMAIN srvRules'
            /\ sid \in DOMAIN srvRules => srvRules'[sid] = srvRules[sid]
        BY <3>1 DEF Sound
      <3> QED BY <3>2, <3>3 DEF Addon
    <2>3. level' = "init" => queue' # <<>> /\ queue'[1][1] = "channelAdd" /\ DOMAIN rules' = {}
      <3>1. SUFFICES ASSUME level = "init"
                     PROVE  queue' # <<>> /\ queue'[1][1] = "channelAdd" /\ DOMAIN rules = {}
        BY DEF Addon
      <3>2. queue # <<>> /\ queue[1][1] = "channelAdd" /\ DOMAIN rules = {}
        BY <2>1, <3>1 DEF RulesAgree
      <3>3. 1 \in 1..Len(queue)
        BY <1>1, <3>2
      <3>4. queue'[1] = queue[1] /\ Len(queue') > 0
        BY <1>1, <3>3, Appended
      <3> QED BY <1>1, <3>2, <3>4
    <2>4. \A sid \in DOMAIN rules' : ~rules'[sid].dirty
      BY <2>1 DEF RulesAgree, Addon
    <2> QED BY <2>2, <2>3, <2>4 DEF RulesAgree, KeptRule
  <1>4. Levels'
    BY DEF Levels, Addon
  <1> QED BY <1>2, <1>3, <1>4

\* What is recorded stays so, with what the server sends of it.
LEMMA StartedOn ==
  ASSUME Types, NEW ms, Sound(ms), NEW x \in Int, x <= TopRec, NEW k \in Nat, StartedFrom(queue, k, x), k <= Len(queue)
  PROVE  StartedFrom(queue, k, x)'
  <1>1. queue \in Seq(Messages) /\ ms \in Seq(Messages) /\ queue' = queue \o ms
    BY DEF Types, Sound
  <1>2. x \in DOMAIN srvRecs' => srvRecs'[x].state \notin Unstarted
    BY DEF Sound, StartedFrom
  <1>3. ASSUME NEW j \in 1..Len(queue'), j > k, queue'[j][1] = "dvrEntry", queue'[j][2] = x
        PROVE  queue'[j][3].state \notin Unstarted
    <2>1. CASE j \in 1..Len(queue)
      BY <1>1, <1>3, <2>1, Appended DEF StartedFrom
    <2>2. CASE j \notin 1..Len(queue)
      <3>1. j - Len(queue) \in 1..Len(ms) /\ queue'[j] = ms[j - Len(queue)]
        BY <1>1, <2>2, Appended
      <3>2. x \in DOMAIN srvRecs
        <4>1. x \in DOMAIN srvRecs \/ x > TopRec
          BY <1>3, <3>1 DEF Sound, RecKinds
        <4> QED BY <4>1, Tops
      <3>3. srvRecs[x].state \notin Unstarted
        BY <3>2 DEF StartedFrom
      <3> QED BY <1>3, <3>1, <3>2, <3>3 DEF Sound
    <2> QED BY <2>1, <2>2
  <1> QED BY <1>2, <1>3 DEF StartedFrom

\* ... that nothing that has started is scheduled again, ...
LEMMA SoundStarted ==
  ASSUME Types, Fresh, Told, Started, NEW ms, Sound(ms), Addon
  PROVE  Started'
  <1>1. /\ queue \in Seq(Messages) /\ ms \in Seq(Messages) /\ queue' = queue \o ms
        /\ Len(queue) \in Nat /\ Len(ms) \in Nat
    BY DEF Types, Sound
  <1>2. ASSUME NEW k \in 1..Len(queue'), queue'[k][1] = "dvrEntry", queue'[k][3].state \notin Unstarted
        PROVE  StartedFrom(queue, k, queue[k][2])'
    <2>1. CASE k \in 1..Len(queue)
      <3>1. queue'[k] = queue[k]
        BY <1>1, <2>1, Appended
      <3>2. StartedFrom(queue, k, queue[k][2])
        BY <1>2, <2>1, <3>1 DEF Started
      <3>3. queue[k][2] <= TopRec /\ queue[k][2] \in Int
        BY <1>1, <1>2, <2>1, <3>1, MessageFields, Tops, SMTT(30) DEF Told, Follows, RecKinds
      <3>4. k \in Nat /\ k <= Len(queue)
        BY <1>1, <2>1
      <3> DEFINE x == queue[k][2]
      <3>5. StartedFrom(queue, k, x) /\ x <= TopRec /\ x \in Int /\ x = queue'[k][2]
        BY <3>1, <3>2, <3>3
      <3> HIDE DEF x
      <3>6. x \in DOMAIN srvRecs' => srvRecs'[x].state \notin Unstarted
        BY <3>4, <3>5 DEF Sound, StartedFrom
      <3>7. ASSUME NEW j \in 1..Len(queue'), j > k, queue'[j][1] = "dvrEntry", queue'[j][2] = x
            PROVE  queue'[j][3].state \notin Unstarted
        <4>1. CASE j \in 1..Len(queue)
          <5>1. queue'[j] = queue[j]
            BY <1>1, <4>1, Appended
          <5> QED BY <3>5, <3>7, <4>1, <5>1 DEF StartedFrom
        <4>2. CASE j \notin 1..Len(queue)
          <5>1. j - Len(queue) \in 1..Len(ms) /\ queue'[j] = ms[j - Len(queue)]
            BY <1>1, <4>2, Appended
          <5>2. x \in DOMAIN srvRecs
            <6>1. x \in DOMAIN srvRecs \/ x > TopRec
              BY <3>7, <5>1 DEF Sound, RecKinds
            <6> QED BY <3>5, <6>1, Tops
          <5>3. srvRecs[x].state \notin Unstarted
            BY <3>5, <5>2 DEF StartedFrom
          <5> QED BY <3>7, <5>1, <5>2, <5>3 DEF Sound
        <4> QED BY <4>1, <4>2
      <3> QED BY <3>5, <3>6, <3>7 DEF StartedFrom
    <2>2. CASE k \notin 1..Len(queue)
      <3> DEFINE i == k - Len(queue)
      <3>1. i \in 1..Len(ms) /\ queue'[k] = ms[i]
        BY <1>1, <2>2, Appended
      <3>2. Len(ms) = 1 /\ (ms[i][2] \in DOMAIN srvRecs' => srvRecs'[ms[i][2]].state \notin Unstarted)
        BY <1>2, <3>1 DEF Sound
      <3>3. k = Len(queue')
        <4>1. Len(queue') = Len(queue) + Len(ms)
          BY <1>1, Appended
        <4> QED BY <1>1, <3>1, <3>2, <4>1
      <3> QED BY <3>1, <3>2, <3>3 DEF StartedFrom
    <2> QED BY <2>1, <2>2
  <1>3. ASSUME NEW id \in DOMAIN recs, recs[id].state \notin Unstarted
        PROVE  StartedFrom(queue, 0, id)'
    <2>1. id \in Int /\ id <= TopRec /\ StartedFrom(queue, 0, id)
      BY <1>3, Tops DEF Types, Fresh, Started
    <2> QED BY <1>1, <2>1, StartedOn
  <1> QED BY <1>2, <1>3 DEF Started, Addon

\* ... the kinds and the indices of the rules, ...
LEMMA SoundKinds ==
  ASSUME Types, Told, SameKind, Ints, NEW ms, Sound(ms), Addon
  PROVE  SameKind' /\ Ints'
  <1>1. /\ queue \in Seq(Messages) /\ ms \in Seq(Messages) /\ queue' = queue \o ms
    BY DEF Types, Sound
  <1>2. \A sid \in DOMAIN rules : /\ sid <= made'.rules
                                  /\ sid \in DOMAIN srvRules' => rules[sid].kind = srvRules'[sid].kind
    <2>1. SUFFICES ASSUME NEW sid \in DOMAIN rules
                   PROVE  /\ sid <= made'.rules
                          /\ sid \in DOMAIN srvRules' => rules[sid].kind = srvRules'[sid].kind
      OBVIOUS
    <2>2. sid \in Int /\ sid <= made.rules /\ (sid \in DOMAIN srvRules => rules[sid].kind = srvRules[sid].kind)
      BY Tops DEF SameKind, Types
    <2>3. made.rules \in Int /\ made'.rules \in Int /\ made.rules <= made'.rules
      BY Tops, SoundTops
    <2> QED BY <2>2, <2>3 DEF Sound
  <1>3. ASSUME NEW k \in 1..Len(queue'), queue'[k][1] = "ruleEntry", queue'[k][2] \in DOMAIN srvRules'
        PROVE  queue'[k][3].kind = srvRules'[queue'[k][2]].kind
    <2>1. CASE k \in 1..Len(queue)
      <3>1. queue'[k] = queue[k]
        BY <1>1, <2>1, Appended
      <3>2. queue[k][2] <= made.rules
        BY <1>3, <2>1, <3>1 DEF Told, Follows, RuleKinds
      <3> QED BY <1>3, <2>1, <3>1, <3>2, SMTT(30) DEF Sound, SameKind
    <2>2. CASE k \notin 1..Len(queue)
      <3>1. k - Len(queue) \in 1..Len(ms) /\ queue'[k] = ms[k - Len(queue)]
        BY <1>1, <2>2, Appended
      <3> QED BY <1>3, <3>1 DEF Sound
    <2> QED BY <2>1, <2>2
  <1>4. Ints'
    BY DEF Ints, Addon
  <1> QED BY <1>2, <1>3, <1>4 DEF SameKind, Addon

\* ... and Kodi's lists.
LEMMA SoundItems ==
  ASSUME Types, Items, Current, NEW ms, Sound(ms), Addon
  PROVE  Items' /\ Current'
  <1>1. /\ queue \in Seq(Messages) /\ ms \in Seq(Messages) /\ queue' = queue \o ms /\ Len(queue) \in Nat
    BY DEF Types, Sound
  <1>2. ASSUME NEW i, RecItem(i)
        PROVE  RecItem(i)' /\ i.idx \in Int /\ i.idx <= TopRec
    BY <1>2, Tops, SoundTops DEF RecItem
  <1>3. ASSUME NEW i, TimerItem(i)
        PROVE  TimerItem(i)'
    <2>1. i.idx \in Int /\ i.idx <= TopRec /\ RecItem(i)'
      BY <1>2, <1>3 DEF TimerItem
    <2>2. i.state = "recording" => StartedFrom(queue, 0, i.idx)'
      BY <1>1, <1>3, <2>1, StartedOn DEF TimerItem
    <2>3. ASSUME i.idx \notin DOMAIN srvRecs, Silent(queue, RecKinds, i.idx)
          PROVE  i.idx \notin DOMAIN srvRecs' /\ Silent(queue', RecKinds, i.idx)
      <3>1. i.idx \notin DOMAIN srvRecs'
        BY <2>1, <2>3 DEF Sound
      <3>2. ASSUME NEW j \in 1..Len(ms), About(ms[j], RecKinds, i.idx)
            PROVE  FALSE
        <4>1. i.idx \in DOMAIN srvRecs \/ i.idx > TopRec
          BY <3>2 DEF Sound, About
        <4> QED BY <2>1, <2>3, <4>1, Tops
      <3>3. Silent(ms, RecKinds, i.idx)
        BY <3>2 DEF Silent
      <3> QED BY <1>1, <2>3, <3>1, <3>3, SilentAppended
    <2> QED BY <1>3, <2>1, <2>2, <2>3 DEF TimerItem, Addon
  <1>4. ASSUME NEW i, RecordingItem(i)
        PROVE  RecordingItem(i)'
    BY <1>2, <1>4 DEF RecordingItem
  <1>5. ASSUME NEW i, RuleItem(i)
        PROVE  RuleItem(i)'
    BY <1>5 DEF RuleItem, Addon
  <1>6. Items'
    BY <1>3, <1>4, <1>5 DEF Items, Addon
  <1>7. Current'
    BY SMTT(30) DEF Current, Addon, CreateTimer, RuleTimer, Recording, IntIdOf
  <1> QED BY <1>6, <1>7

\* What is gone stays away.
LEMMA GoneOn ==
  ASSUME Types, NEW ms, Sound(ms), NEW key, IsGone(key)
  PROVE  IsGone(key)'
  <1>1. ASSUME NEW id \in RecIds, GoneRec(id) PROVE GoneRec(id)'
    <2>1. id \in Int /\ id <= TopRec /\ id <= TopRec'
      BY <1>1, Tops, SoundTops DEF GoneRec
    <2> QED BY <1>1, <2>1 DEF GoneRec, Sound
  <1>2. ASSUME NEW sid \in RuleIds, GoneRule(sid) PROVE GoneRule(sid)'
    <2>1. sid \in Int /\ sid <= made.rules /\ sid <= made'.rules
      BY <1>2, Tops, SoundTops DEF GoneRule
    <2> QED BY <1>2, <2>1 DEF GoneRule, Sound
  <1>3. GoneRec(key[2]) => GoneRec(key[2])'
    BY <1>1 DEF GoneRec
  <1>4. GoneRule(key[2]) => GoneRule(key[2])'
    BY <1>2 DEF GoneRule
  <1> QED BY <1>3, <1>4 DEF IsGone

\* The call goes on, or is answered, as the server acts.
LEMMA SoundCall ==
  ASSUME Types, CallOK, NEW ms, Sound(ms), approx' = approx, intId' = intId, said' = said,
         CallForm', call'.at \in {"idle", "asked", "answered"},
         call'.at # "idle" =>
           /\ call.at # "idle" /\ call'.op = call.op /\ call'.item = call.item /\ call'.req = call.req
           /\ call'.at = "answered" /\ call'.answer \in {"success", "malformed"} /\ call.op = "delete" =>
                IsGone(KeyOf(Req))'
  PROVE  CallOK'
  <1>1. intId' <= FirstId => IsGone(said)'
    BY GoneOn DEF CallOK
  <1>2. ASSUME call'.at # "idle" PROVE Request'
    <2>1. Request /\ Req' = Req /\ call'.op = call.op /\ call'.item = call.item
      BY <1>2 DEF CallOK, Req
    <2>2. /\ Req.op \in OnRec => (intId <= FirstId => Req.id <= TopRec')
          /\ Req.op = "stopDvrEntry" =>
               /\ Req.id <= TopRec'
               /\ Req.id \in DOMAIN srvRecs' => srvRecs'[Req.id].state \notin Unstarted
          /\ call.op = "delete" /\ call.item.state = "recording" /\ Req.op = "cancelDvrEntry" =>
               Req.id <= TopRec' /\ Req.id \notin DOMAIN srvRecs'
      <3>1. ASSUME NEW id \in RecIds, id <= TopRec PROVE id <= TopRec'
        BY <3>1, Tops, SoundTops
      <3>2. Req.op \in OnRec => Req.id \in RecIds
        BY <2>1 DEF Request, Form
      <3>3. Req.op \in OnRec => (intId <= FirstId => Req.id <= TopRec')
        BY <2>1, <3>1, <3>2 DEF Request, Aims
      <3>4. Req.op = "stopDvrEntry" =>
              /\ Req.id <= TopRec'
              /\ Req.id \in DOMAIN srvRecs' => srvRecs'[Req.id].state \notin Unstarted
        <4>1. SUFFICES ASSUME Req.op = "stopDvrEntry"
                       PROVE  /\ Req.id <= TopRec'
                              /\ Req.id \in DOMAIN srvRecs' => srvRecs'[Req.id].state \notin Unstarted
          OBVIOUS
        <4>2. Req.id \in RecIds /\ Req.id <= TopRec /\ (Req.id \in DOMAIN srvRecs => srvRecs[Req.id].state \notin Unstarted)
          BY <2>1, <3>2, <4>1 DEF Request, Aims, OnRec
        <4> QED BY <3>1, <4>2 DEF Sound
      <3>5. call.op = "delete" /\ call.item.state = "recording" /\ Req.op = "cancelDvrEntry" =>
              Req.id <= TopRec' /\ Req.id \notin DOMAIN srvRecs'
        <4>1. SUFFICES ASSUME call.op = "delete", call.item.state = "recording", Req.op = "cancelDvrEntry"
                       PROVE  Req.id <= TopRec' /\ Req.id \notin DOMAIN srvRecs'
          OBVIOUS
        <4>2. Req.id \in RecIds /\ Req.id <= TopRec /\ Req.id \notin DOMAIN srvRecs
          BY <2>1, <3>2, <4>1 DEF Request, Aims, OnRec
        <4> QED BY <3>1, <4>2 DEF Sound
      <3> QED BY <3>3, <3>4, <3>5
    <2>3. Req.op = "updateRule" =>
            /\ Req.id <= made'.rules
            /\ Req.id \in DOMAIN srvRules' => RuleMeets(Sent(srvRules'[Req.id].kind), Req.asked, Req.slot)
      <3>1. SUFFICES ASSUME Req.op = "updateRule"
                     PROVE  /\ Req.id <= made'.rules
                            /\ Req.id \in DOMAIN srvRules' => RuleMeets(Sent(srvRules'[Req.id].kind), Req.asked, Req.slot)
        OBVIOUS
      <3>2. /\ Req.id \in RuleIds /\ Req.id <= made.rules
            /\ Req.id \in DOMAIN srvRules => RuleMeets(Sent(srvRules[Req.id].kind), Req.asked, Req.slot)
        BY <2>1, <3>1 DEF Request, Form, Means, OnRule
      <3>3. Req.id <= made'.rules
        BY <3>2, Tops, SoundTops
      <3>4. Req.id \in DOMAIN srvRules' => Req.id \in DOMAIN srvRules /\ srvRules'[Req.id].kind = srvRules[Req.id].kind
        BY <3>2 DEF Sound
      <3> QED BY <3>2, <3>3, <3>4
    <2>4. call'.at = "answered" /\ call'.answer \in {"success", "malformed"} /\ call.op = "delete" => IsGone(KeyOf(Req))'
      BY <1>2
    <2>5. \A e, life, slot : RuleMeets(e, life, slot)' <=> RuleMeets(e, life, slot)
      BY DEF RuleMeets
    <2>6. \A kind : Sent(kind)' = Sent(kind)
      BY <2>1 DEF Sent
    <2>7. /\ Req'.op = "updateRule" =>
            /\ Req'.id <= made'.rules
            /\ Req'.id \in DOMAIN srvRules' => RuleMeets(Sent(srvRules[Req.id].kind), Req.asked, Req.slot)'
      BY <2>1, <2>3, <2>5, <2>6 DEF RuleMeets, Sent
    <2>8. Form'
      BY <2>1 DEF Request, Form, KeyOf
    <2>9. Means'
      <3>1. Means
        BY <2>1 DEF Request, Form
      <3>2. Req'.op \in {"addDvrEntry", "updateDvrEntry"} => TvhToKodi(Req'.life) = Req'.asked
        BY <2>1, <3>1 DEF Means
      <3>3. Req'.op = "addRule" => RuleMeets(Sent(Req.kind), Req.asked, Req.slot)'
        BY <2>1, <3>1, <2>5, <2>6 DEF Means, RuleMeets, Sent
      <3> QED BY <3>2, <3>3, <2>7 DEF Means
    <2>10. Aims'
      BY <2>1, <2>2 DEF Aims
    <2>11. Done'
      BY <2>1, <2>4 DEF Done
    <2> QED BY <2>8, <2>9, <2>10, <2>11 DEF Request
  <1> QED BY <1>1, <1>2 DEF CallOK

\* One message.
LEMMA One ==
  ASSUME NEW m \in Messages
  PROVE  /\ <<m>> \in Seq(Messages) /\ Len(<<m>>) = 1 /\ <<m>>[1] = m
         /\ \A i \in 1..Len(<<m>>) : i = 1
         /\ \A kinds, x : Silent(<<m>>, kinds, x) <=> ~About(m, kinds, x)
         /\ \A kinds, srv, top :
              Follows(<<m>>, kinds, srv, top) <=>
                (m[1] \in kinds => /\ m[2] <= top
                                   /\ Gives(m) => m[2] \in DOMAIN srv /\ srv[m[2]] = m[3]
                                   /\ ~Gives(m) => m[2] \notin DOMAIN srv)
  <1> DEFINE s == <<m>>
  <1>1. s \in Seq(Messages) /\ Len(s) = 1 /\ s[1] = m
    OBVIOUS
  <1> HIDE DEF s
  <1>2. \A i \in 1..Len(s) : i = 1
    BY <1>1
  <1>3. 1 \in 1..Len(s)
    BY <1>1
  <1>4. \A kinds, x : Silent(s, kinds, x) <=> ~About(m, kinds, x)
    BY <1>1, <1>2, <1>3 DEF Silent
  <1>5. ASSUME NEW kinds, NEW srv, NEW top
        PROVE  Follows(s, kinds, srv, top) <=>
                 (m[1] \in kinds => /\ m[2] <= top
                                    /\ Gives(m) => m[2] \in DOMAIN srv /\ srv[m[2]] = m[3]
                                    /\ ~Gives(m) => m[2] \notin DOMAIN srv)
    <2>1. \A j \in 1..Len(s) : ~(j > 1)
      BY <1>2
    <2> QED BY <1>1, <1>2, <1>3, <2>1 DEF Follows
  <1> QED BY <1>1, <1>2, <1>4, <1>5 DEF s

\* A timer or a recording that is new or changed.
LEMMA RecChanges ==
  ASSUME Types, Numbered, NEW id \in RecIds, NEW e \in RecEntries, e.err # "missing",
         srvRecs' = With(srvRecs, id, e), srvRules' = srvRules, queue' = queue \o <<Added(id, e)>>,
         made' \in [recs : 0..MaxRecs, rules : 0..MaxRules], made'.recs >= made.recs, made'.rules = made.rules,
         id <= TopRec', e.rule <= made.rules, e.rule \in DOMAIN srvRules => srvRules[e.rule].kind = e.kind,
         \/ id > TopRec
         \/ /\ id \in DOMAIN srvRecs
            /\ srvRecs[id].state \notin Unstarted => e.state \notin Unstarted
            /\ srvRecs[id].state \in Over => e.state \in Over
  PROVE  Sound(<<Added(id, e)>>)
  <1> DEFINE m == Added(id, e)
             ms == <<m>>
  <1>1. /\ m \in Messages /\ m[1] = "dvrEntry" /\ m[2] = id /\ m[3] = e /\ Gives(m)
        /\ m[1] \in RecKinds /\ m[1] \notin RuleKinds
    BY MessagesOf DEF Added, Message, Gives, RecKinds, RuleKinds
  <1> HIDE DEF m
  <1>2. /\ ms \in Seq(Messages) /\ Len(ms) = 1 /\ ms[1] = m /\ \A i \in 1..Len(ms) : i = 1
        /\ \A kinds, x : Silent(ms, kinds, x) <=> ~About(m, kinds, x)
        /\ Follows(ms, RecKinds, srvRecs', TopRec') <=> id \in DOMAIN srvRecs' /\ srvRecs'[id] = e
        /\ Follows(ms, RuleKinds, srvRules', made'.rules)
    BY <1>1, One
  <1> HIDE DEF ms
  <1>3. /\ DOMAIN srvRecs' = DOMAIN srvRecs \cup {id} /\ srvRecs'[id] = e
        /\ \A x \in DOMAIN srvRecs : x # id => srvRecs'[x] = srvRecs[x]
    BY DEF With
  <1>4. DOMAIN srvRecs' \subseteq RecIds /\ srvRecs' \in [DOMAIN srvRecs' -> RecEntries]
    BY DEF Types, With
  <1>5. /\ made.recs \in Int /\ made'.recs \in Int /\ FirstId \in Int /\ TopRec <= TopRec'
        /\ TopRec \in Int /\ TopRec' \in Int
        /\ \A x \in DOMAIN srvRecs : x \in Int /\ x <= TopRec
    BY Tops, SMTT(30) DEF Types, TopRec, Numbered
  <1>6. Numbered'
    <2>1. \A x \in DOMAIN srvRecs' : x <= TopRec' /\ srvRecs'[x].err # "missing"
      BY <1>3, <1>5 DEF Numbered
    <2>2. \A x \in DOMAIN srvRecs' :
            /\ srvRecs'[x].rule <= made'.rules
            /\ srvRecs'[x].rule \in DOMAIN srvRules' => srvRules'[srvRecs'[x].rule].kind = srvRecs'[x].kind
      BY <1>3 DEF Numbered
    <2> QED BY <2>1, <2>2 DEF Numbered
  <1>7. \A x \in RecIds : Silent(ms, RecKinds, x) =>
          /\ x \in DOMAIN srvRecs <=> x \in DOMAIN srvRecs'
          /\ x \in DOMAIN srvRecs => srvRecs'[x] = srvRecs[x]
    BY <1>1, <1>2, <1>3 DEF About
  <1>8. \A x \in DOMAIN srvRecs' : x <= TopRec =>
          /\ x \in DOMAIN srvRecs
          /\ srvRecs[x].state \notin Unstarted => srvRecs'[x].state \notin Unstarted
          /\ srvRecs[x].state \in Over => srvRecs'[x].state \in Over
    <2>1. id <= TopRec => ~(id > TopRec)
      BY <1>5 DEF RecIds
    <2> QED BY <1>3, <2>1
  <1>9. \A i \in 1..Len(ms) : ms[i] = m
    BY <1>2
  <1>10. /\ made'.recs >= made.recs /\ made'.rules >= made.rules
         /\ \A sid \in DOMAIN srvRules' : sid \in DOMAIN srvRules /\ srvRules'[sid].kind = srvRules[sid].kind
    BY Tops
  <1>11. queue' = queue \o ms
    BY DEF ms, m
  <1>12. Sound(ms)
    <2>1. \A i \in 1..Len(ms) :
            /\ ms[i][1] \in RecKinds => ms[i][2] \in DOMAIN srvRecs \/ ms[i][2] > TopRec
            /\ ms[i][1] \notin RuleKinds /\ ms[i][1] # "ruleEntry"
            /\ ms[i][2] \in DOMAIN srvRecs /\ srvRecs[ms[i][2]].state \notin Unstarted => ms[i][3].state \notin Unstarted
            /\ ms[i][2] \in DOMAIN srvRecs' /\ ms[i][3].state \notin Unstarted => srvRecs'[ms[i][2]].state \notin Unstarted
      <3>1. id \in DOMAIN srvRecs /\ id > TopRec => FALSE
        BY <1>5
      <3> QED BY <1>1, <1>3, <1>9, <3>1
    <2>2. DOMAIN srvRules' \subseteq RuleIds /\ srvRules' \in [DOMAIN srvRules' -> RuleEntries]
      BY DEF Types
    <2> QED BY <1>2, <1>3, <1>4, <1>6, <1>7, <1>8, <1>10, <1>11, <2>1, <2>2 DEF Sound
  <1> QED BY <1>12 DEF ms, m

\* One that goes.
LEMMA RecGoes ==
  ASSUME Types, Numbered, NEW id \in DOMAIN srvRecs, NEW m \in Messages,
         m[1] \in RecKinds, m[2] = id, ~Gives(m), m[1] = "dvrEntry" => m[3].state \notin Unstarted,
         srvRecs' = Without(srvRecs, {id}), srvRules' = srvRules, made' = made, queue' = queue \o <<m>>
  PROVE  Sound(<<m>>)
  <1> DEFINE ms == <<m>>
  <1>1. m[1] \notin RuleKinds /\ m[1] # "ruleEntry" /\ id \in RecIds
    BY DEF RecKinds, RuleKinds, Types
  <1>2. /\ ms \in Seq(Messages) /\ Len(ms) = 1 /\ \A i \in 1..Len(ms) : ms[i] = m
        /\ \A kinds, x : Silent(ms, kinds, x) <=> ~About(m, kinds, x)
        /\ Follows(ms, RecKinds, srvRecs', TopRec') <=> id <= TopRec' /\ id \notin DOMAIN srvRecs'
        /\ Follows(ms, RuleKinds, srvRules', made'.rules)
    BY <1>1, One
  <1>3. queue' = queue \o ms
    OBVIOUS
  <1> HIDE DEF ms
  <1>4. /\ DOMAIN srvRecs' = DOMAIN srvRecs \ {id} /\ TopRec' = TopRec /\ id <= TopRec
        /\ \A x \in DOMAIN srvRecs' : srvRecs'[x] = srvRecs[x]
    BY DEF Without, TopRec, Numbered
  <1>5. DOMAIN srvRecs' \subseteq RecIds /\ srvRecs' \in [DOMAIN srvRecs' -> RecEntries]
    BY DEF Types, Without
  <1>6. Numbered'
    BY <1>4, ZenonT(60) DEF Numbered
  <1>7. \A x \in RecIds : Silent(ms, RecKinds, x) =>
          /\ x \in DOMAIN srvRecs <=> x \in DOMAIN srvRecs'
          /\ x \in DOMAIN srvRecs => srvRecs'[x] = srvRecs[x]
    BY <1>2, <1>4 DEF About
  <1>8. /\ made'.recs >= made.recs /\ made'.rules >= made.rules
        /\ made' \in [recs : 0..MaxRecs, rules : 0..MaxRules]
    BY Tops, SMTT(30) DEF Types
  <1> QED BY <1>1, <1>2, <1>3, <1>4, <1>5, <1>6, <1>7, <1>8 DEF Sound, Types, ms

\* A rule that is new or changed.
LEMMA RuleChanges ==
  ASSUME Types, Numbered, NEW sid \in RuleIds, NEW e \in RuleEntries,
         srvRules' = With(srvRules, sid, e), srvRecs' = srvRecs, queue' = queue \o <<RuleAdded(sid, e)>>,
         made' \in [recs : 0..MaxRecs, rules : 0..MaxRules], made'.recs = made.recs, made'.rules >= made.rules,
         sid <= made'.rules,
         sid > made.rules \/ (sid \in DOMAIN srvRules /\ e.kind = srvRules[sid].kind)
  PROVE  Sound(<<RuleAdded(sid, e)>>)
  <1> DEFINE m == RuleAdded(sid, e)
             ms == <<m>>
  <1>1. /\ m \in Messages /\ m[1] = "ruleEntry" /\ m[2] = sid /\ m[3] = e /\ Gives(m)
        /\ m[1] \in RuleKinds /\ m[1] \notin RecKinds
    BY MessagesOf DEF RuleAdded, Message, Gives, RecKinds, RuleKinds
  <1>2. queue' = queue \o ms
    OBVIOUS
  <1> HIDE DEF m
  <1>3. /\ ms \in Seq(Messages) /\ Len(ms) = 1 /\ \A i \in 1..Len(ms) : ms[i] = m
        /\ \A kinds, x : Silent(ms, kinds, x) <=> ~About(m, kinds, x)
        /\ Follows(ms, RuleKinds, srvRules', made'.rules) <=> sid \in DOMAIN srvRules' /\ srvRules'[sid] = e
        /\ Follows(ms, RecKinds, srvRecs', TopRec')
    BY <1>1, One
  <1> HIDE DEF ms
  <1>4. /\ DOMAIN srvRules' = DOMAIN srvRules \cup {sid} /\ srvRules'[sid] = e
        /\ \A x \in DOMAIN srvRules : x # sid => srvRules'[x] = srvRules[x]
    BY DEF With
  <1>5. DOMAIN srvRules' \subseteq RuleIds /\ srvRules' \in [DOMAIN srvRules' -> RuleEntries]
    BY DEF Types, With
  <1>6. /\ made.rules \in Int /\ made'.rules \in Int /\ TopRec' = TopRec /\ sid \in Int
        /\ \A x \in DOMAIN srvRules : x \in Int /\ x <= made.rules
        /\ \A id \in DOMAIN srvRecs : srvRecs[id].rule \in Int /\ srvRecs[id].rule <= made.rules
    <2>1. ASSUME NEW id \in DOMAIN srvRecs PROVE srvRecs[id].rule \in Int
      <3>1. srvRecs[id] \in RecEntries
        BY DEF Types
      <3>2. srvRecs[id].rule \in 0..MaxRules
        BY <3>1 DEF RecEntries
      <3> QED BY <3>2, Tops
    <2>2. /\ made.rules \in Int /\ made'.rules \in Int /\ TopRec' = TopRec /\ sid \in Int
          /\ \A x \in DOMAIN srvRules : x \in Int /\ x <= made.rules
      BY Tops, SMTT(30) DEF Types, TopRec, Numbered
    <2> QED BY <2>1, <2>2 DEF Numbered
  <1>7. Numbered'
    <2>1. /\ \A id \in DOMAIN srvRecs' : id <= TopRec' /\ srvRecs'[id].err # "missing"
          /\ \A x \in DOMAIN srvRules' : x <= made'.rules
      BY <1>4, <1>6 DEF Numbered
    <2>2. ASSUME NEW id \in DOMAIN srvRecs
          PROVE  /\ srvRecs'[id].rule <= made'.rules
                 /\ srvRecs'[id].rule \in DOMAIN srvRules' => srvRules'[srvRecs'[id].rule].kind = srvRecs'[id].kind
      <3>1. srvRecs[id].rule <= made'.rules
        BY <1>6
      <3>2. srvRecs[id].rule = sid => sid \in DOMAIN srvRules /\ e.kind = srvRules[sid].kind
        BY <1>6
      <3> QED BY <1>4, <3>1, <3>2 DEF Numbered
    <2> QED BY <2>1, <2>2 DEF Numbered
  <1>8. \A x \in RuleIds : Silent(ms, RuleKinds, x) =>
          /\ x \in DOMAIN srvRules <=> x \in DOMAIN srvRules'
          /\ x \in DOMAIN srvRules => srvRules'[x] = srvRules[x]
    BY <1>1, <1>3, <1>4 DEF About
  <1>9. \A x \in DOMAIN srvRules' : x <= made.rules =>
          x \in DOMAIN srvRules /\ srvRules'[x].kind = srvRules[x].kind
    BY <1>4, <1>6
  <1>10. /\ made'.recs >= made.recs /\ made'.rules >= made.rules
    BY Tops
  <1> QED BY <1>1, <1>2, <1>3, <1>4, <1>5, <1>7, <1>8, <1>9, <1>10, SMTT(30) DEF Sound, Types, ms, m

\* A rule goes, with its timers.
LEMMA RuleGoesSoundly ==
  ASSUME Types, Numbered, NEW sid \in DOMAIN srvRules, RuleGoes(sid), made' = made
  PROVE  /\ \E ms : Sound(ms)
         /\ sid \notin DOMAIN srvRules' /\ DOMAIN srvRules' \subseteq DOMAIN srvRules
         /\ DOMAIN srvRecs' \subseteq DOMAIN srvRecs
         /\ \A x \in DOMAIN srvRecs' : srvRecs'[x] = srvRecs[x]
         /\ \A x \in DOMAIN srvRules' : srvRules'[x] = srvRules[x]
  <1> DEFINE S == Children(sid)
             n == Cardinality(S)
             r == RuleDeleted(sid)
  <1>1. S \subseteq DOMAIN srvRecs /\ S \subseteq RecIds /\ sid \in RuleIds
    BY DEF Children, Types
  <1>2. n \in Nat
    <2>1. IsFiniteSet(RecIds)
      BY Tops, FS_Interval DEF RecIds
    <2>2. IsFiniteSet(S)
      BY <1>1, <2>1, FS_Subset
    <2> QED BY <2>2, FS_CardinalityType
  <1>3. PICK order \in Bijection(1..n, S) :
          queue' = queue \o ([i \in DOMAIN order |-> Deleted(order[i])] \o <<r>>)
    BY DEF RuleGoes, Sends
  <1> DEFINE d == [i \in DOMAIN order |-> Deleted(order[i])]
             ms == d \o <<r>>
  <1> HIDE DEF S, n
  <1>4. /\ order \in [1..n -> S]
        /\ \A a, b \in 1..n : order[a] = order[b] => a = b
        /\ \A x \in S : \E a \in 1..n : order[a] = x
    BY <1>3 DEF Bijection, Injection, Surjection, IsInjective
  <1>5. /\ r \in Messages /\ r[1] = "ruleEntryDelete" /\ r[2] = sid /\ ~Gives(r)
        /\ r[1] \in RuleKinds /\ r[1] \notin RecKinds
    BY <1>1, MessagesOf DEF RuleDeleted, Message, Gives, RecKinds, RuleKinds
  <1>6. d \in Seq(Messages) /\ Len(d) = n /\ \A i \in 1..n : d[i] = Deleted(order[i])
    <2>1. \A i \in 1..n : Deleted(order[i]) \in Messages
      BY <1>1, <1>4, MessagesOf
    <2> QED BY <1>2, <1>4, <2>1
  <1> HIDE DEF r, d
  <1>7. /\ ms \in Seq(Messages) /\ Len(ms) = n + 1 /\ ms[n + 1] = r
        /\ \A i \in 1..n : ms[i] = d[i]
    <2>1. <<r>> \in Seq(Messages) /\ Len(<<r>>) = 1 /\ <<r>>[1] = r
      BY <1>5
    <2>2. 1 \in 1..Len(<<r>>)
      BY <2>1
    <2> QED BY <1>6, <2>1, <2>2, Appended
  <1>8. queue' = queue \o ms
    BY <1>3 DEF d
  <1> HIDE DEF ms
  <1>9. ASSUME NEW i \in 1..Len(ms)
        PROVE  \/ i = n + 1 /\ ms[i] = r
               \/ /\ i \in 1..n /\ order[i] \in S /\ ms[i][1] = "dvrEntryDelete" /\ ms[i][2] = order[i]
                  /\ ~Gives(ms[i]) /\ ms[i][1] \in RecKinds /\ ms[i][1] \notin RuleKinds
    <2>1. i \in 1..(n + 1) /\ (i = n + 1 \/ i \in 1..n)
      BY <1>2, <1>7
    <2>2. ASSUME i \in 1..n
          PROVE  /\ order[i] \in S /\ ms[i][1] = "dvrEntryDelete" /\ ms[i][2] = order[i]
                 /\ ~Gives(ms[i]) /\ ms[i][1] \in RecKinds /\ ms[i][1] \notin RuleKinds
      <3>1. ms[i] = Deleted(order[i]) /\ order[i] \in S
        BY <1>4, <1>6, <1>7, <2>2
      <3> QED BY <3>1 DEF Deleted, Message, Gives, RecKinds, RuleKinds
    <2> QED BY <1>7, <2>1, <2>2
  <1>10. /\ DOMAIN srvRecs' = DOMAIN srvRecs \ S /\ \A x \in DOMAIN srvRecs' : srvRecs'[x] = srvRecs[x]
         /\ DOMAIN srvRules' = DOMAIN srvRules \ {sid} /\ \A x \in DOMAIN srvRules' : srvRules'[x] = srvRules[x]
    BY DEF RuleGoes, Without, S
  <1>11. /\ DOMAIN srvRecs' \subseteq RecIds /\ srvRecs' \in [DOMAIN srvRecs' -> RecEntries]
         /\ DOMAIN srvRules' \subseteq RuleIds /\ srvRules' \in [DOMAIN srvRules' -> RuleEntries]
    <2>1. srvRecs' = [x \in DOMAIN srvRecs' |-> srvRecs'[x]] /\ srvRules' = [x \in DOMAIN srvRules' |-> srvRules'[x]]
      BY DEF RuleGoes, Without
    <2>2. /\ \A x \in DOMAIN srvRecs' : srvRecs'[x] \in RecEntries
          /\ \A x \in DOMAIN srvRules' : srvRules'[x] \in RuleEntries
      BY <1>10 DEF Types
    <2> QED BY <1>10, <2>1, <2>2 DEF Types
  <1>12. Numbered' /\ TopRec' = TopRec /\ made'.rules = made.rules
    BY <1>10 DEF Numbered, TopRec
  <1>13. /\ n + 1 \in 1..Len(ms) /\ Len(ms) = n + 1
         /\ \A x \in S : \E i \in 1..Len(ms) : About(ms[i], RecKinds, x)
    <2>1. n + 1 \in 1..Len(ms) /\ \A i \in 1..n : i \in 1..Len(ms) /\ i # n + 1
      BY <1>2, <1>7
    <2>2. ASSUME NEW x \in S PROVE \E i \in 1..Len(ms) : About(ms[i], RecKinds, x)
      <3>1. PICK i \in 1..n : order[i] = x
        BY <1>4
      <3> QED BY <1>9, <2>1, <3>1 DEF About
    <2> QED BY <1>7, <2>1, <2>2
  <1>14. Follows(ms, RecKinds, srvRecs', TopRec')
    <2>1. SUFFICES ASSUME NEW k \in 1..Len(ms), ms[k][1] \in RecKinds
                   PROVE  LET x == ms[k][2]  last == \A j \in 1..Len(ms) : j > k => ~About(ms[j], RecKinds, x) IN
                          /\ x <= TopRec'
                          /\ Gives(ms[k]) /\ last => x \in DOMAIN srvRecs' /\ srvRecs'[x] = ms[k][3]
                          /\ ~Gives(ms[k]) => last /\ x \notin DOMAIN srvRecs'
      BY DEF Follows
    <2>2. k \in 1..n /\ ms[k][2] = order[k] /\ order[k] \in S /\ ~Gives(ms[k])
      BY <1>5, <1>9, <2>1
    <2>3. \A j \in 1..Len(ms) : j > k => ~About(ms[j], RecKinds, order[k])
      <3>1. SUFFICES ASSUME NEW j \in 1..Len(ms), j > k, About(ms[j], RecKinds, order[k]) PROVE FALSE
        OBVIOUS
      <3>2. j \in 1..n /\ ms[j][2] = order[j]
        BY <1>5, <1>9, <3>1 DEF About
      <3>3. j = k
        BY <1>4, <2>2, <3>1, <3>2 DEF About
      <3> QED BY <1>2, <2>2, <3>1, <3>3
    <2>4. order[k] <= TopRec' /\ order[k] \notin DOMAIN srvRecs'
      BY <1>1, <1>10, <1>12, <2>2 DEF Numbered
    <2> QED BY <2>2, <2>3, <2>4
  <1>15. Follows(ms, RuleKinds, srvRules', made'.rules)
    <2>1. \A k \in 1..Len(ms) : ms[k][1] \in RuleKinds => k = n + 1 /\ ms[k] = r
      BY <1>9
    <2>2. \A j \in 1..Len(ms) : ~(j > n + 1)
      BY <1>2, <1>7
    <2>3. sid <= made'.rules /\ sid \notin DOMAIN srvRules'
      BY <1>10, <1>12 DEF Numbered
    <2> QED BY <1>5, <2>1, <2>2, <2>3 DEF Follows
  <1>16. /\ \A x \in RecIds : Silent(ms, RecKinds, x) =>
              /\ x \in DOMAIN srvRecs <=> x \in DOMAIN srvRecs'
              /\ x \in DOMAIN srvRecs => srvRecs'[x] = srvRecs[x]
         /\ \A x \in RuleIds : Silent(ms, RuleKinds, x) =>
              /\ x \in DOMAIN srvRules <=> x \in DOMAIN srvRules'
              /\ x \in DOMAIN srvRules => srvRules'[x] = srvRules[x]
    <2>1. \A x : Silent(ms, RecKinds, x) => x \notin S
      BY <1>13 DEF Silent
    <2>2. \A x : Silent(ms, RuleKinds, x) => x # sid
      BY <1>5, <1>7, <1>13 DEF Silent, About
    <2> QED BY <1>10, <2>1, <2>2
  <1>17. \A i \in 1..Len(ms) : /\ ms[i][1] \in RecKinds => ms[i][2] \in DOMAIN srvRecs \/ ms[i][2] > TopRec
                               /\ ms[i][1] \in RuleKinds => ms[i][2] \in DOMAIN srvRules \/ ms[i][2] > made.rules
                               /\ ms[i][1] # "dvrEntry" /\ ms[i][1] # "ruleEntry"
    BY <1>1, <1>5, <1>9
  <1>18. /\ made'.recs >= made.recs /\ made'.rules >= made.rules /\ made' \in [recs : 0..MaxRecs, rules : 0..MaxRules]
    BY Tops DEF Types
  <1>19. Sound(ms)
    BY <1>7, <1>8, <1>10, <1>11, <1>12, <1>14, <1>15, <1>16, <1>17, <1>18 DEF Sound
  <1> QED BY <1>10, <1>19

\* Nothing happens.
LEMMA NothingSound ==
  ASSUME Types, Numbered, UNCHANGED srvVars
  PROVE  Sound(<<>>)
  <1>1. queue' = queue /\ srvRecs' = srvRecs /\ srvRules' = srvRules /\ made' = made
    BY DEF srvVars
  <1>2. queue \o <<>> = queue /\ <<>> \in Seq(Messages) /\ Len(<<>>) = 0 /\ 1..Len(<<>>) = {}
    BY DEF Types
  <1>3. /\ \A kinds, srv, top : Follows(<<>>, kinds, srv, top)
    BY <1>2 DEF Follows
  <1>4. Numbered' /\ TopRec' = TopRec
    BY <1>1 DEF Numbered, TopRec
  <1>5. made'.recs >= made.recs /\ made'.rules >= made.rules
    BY <1>1, Tops
  <1> QED BY <1>1, <1>2, <1>3, <1>4, <1>5 DEF Sound, Types

\* What the user has set stays set, but for ex.
LEMMA WishesOn ==
  ASSUME Types, WishesMet, NEW ms, Sound(ms), approx' = approx, NEW ex,
         \A key \in DOMAIN wishes' : key = ex \/ (key \in DOMAIN wishes /\ wishes'[key] = wishes[key]),
         ex \in DOMAIN wishes' => WishMet(ex)',
         \A id \in DOMAIN srvRecs : <<"rec", id>> # ex /\ id \in DOMAIN srvRecs' => srvRecs'[id].life = srvRecs[id].life,
         \A sid \in DOMAIN srvRules : <<"rule", sid>> # ex /\ sid \in DOMAIN srvRules' => srvRules'[sid] = srvRules[sid]
  PROVE  WishesMet'
  <1>1. SUFFICES ASSUME NEW key \in DOMAIN wishes', key # ex
                 PROVE  WishMet(key)'
    BY DEF WishesMet
  <1>2. key \in DOMAIN wishes /\ wishes'[key] = wishes[key] /\ WishMet(key)
    BY <1>1 DEF WishesMet
  <1>3. CASE /\ key = <<"rec", key[2]>> /\ key[2] \in RecIds /\ key[2] <= TopRec
             /\ key[2] \in DOMAIN srvRecs => TvhToKodi(srvRecs[key[2]].life) = wishes[key].life
    <2> DEFINE id == key[2]
    <2>1. key = <<"rec", id>> /\ id \in RecIds /\ id <= TopRec /\ id <= TopRec'
      BY <1>3, Tops, SoundTops
    <2>2. id \in DOMAIN srvRecs' => id \in DOMAIN srvRecs
      BY <2>1 DEF Sound
    <2>3. id \in DOMAIN srvRecs' => srvRecs'[id].life = srvRecs[id].life
      BY <1>1, <2>1, <2>2
    <2>4. id \in DOMAIN srvRecs' => TvhToKodi(srvRecs'[id].life) = wishes'[key].life
      BY <1>2, <1>3, <2>2, <2>3
    <2> QED BY <2>1, <2>4 DEF WishMet
  <1>4. CASE /\ key = <<"rule", key[2]>> /\ key[2] \in RuleIds /\ key[2] <= made.rules
             /\ key[2] \in DOMAIN srvRules => RuleMeets(srvRules[key[2]], wishes[key].life, wishes[key].slot)
    <2> DEFINE sid == key[2]
    <2>1. key = <<"rule", sid>> /\ sid \in RuleIds /\ sid <= made.rules /\ sid <= made'.rules
      BY <1>4, Tops, SoundTops
    <2>2. sid \in DOMAIN srvRules' => sid \in DOMAIN srvRules
      BY <2>1 DEF Sound
    <2>3. sid \in DOMAIN srvRules' => srvRules'[sid] = srvRules[sid]
      BY <1>1, <2>1, <2>2
    <2>4. sid \in DOMAIN srvRules' => RuleMeets(srvRules[sid], wishes[key].life, wishes[key].slot)'
      BY <1>2, <1>4, <2>2, <2>3 DEF RuleMeets
    <2> QED BY <2>1, <2>4 DEF WishMet, RuleMeets
  <1> QED BY <1>2, <1>3, <1>4 DEF WishMet

\* A step of the server: what is kept about the addon stays true.
LEMMA ServerStep ==
  ASSUME IInv, NEW ms, Sound(ms), Addon, WishesMet', said' = said, calls' = calls, events' \in 0..MaxEvents,
         CallForm', call'.at \in {"idle", "asked", "answered"},
         call'.at # "idle" =>
           /\ call.at # "idle" /\ call'.op = call.op /\ call'.item = call.item /\ call'.req = call.req
           /\ call'.at = "answered" /\ call'.answer \in {"success", "malformed"} /\ call.op = "delete" =>
                IsGone(KeyOf(Req))'
  PROVE  IInv'
  <1>1. /\ Types /\ Fresh /\ Told /\ RecsAgree /\ RulesAgree /\ Levels /\ Started
        /\ SameKind /\ Ints /\ Items /\ Current /\ WishesMet /\ CallOK
    BY DEF IInv
  <1>2. Types' /\ Fresh'
    BY <1>1, SoundTypes DEF Types
  <1>3. Told' /\ RecsAgree' /\ RulesAgree' /\ Levels'
    BY <1>1, SoundTold, SoundAgree
  <1>4. Started' /\ SameKind' /\ Ints' /\ Items' /\ Current'
    BY <1>1, SoundStarted, SoundKinds, SoundItems
  <1>5. CallOK'
    BY <1>1, SoundCall DEF Addon
  <1> QED BY <1>2, <1>3, <1>4, <1>5 DEF IInv

\* A value that is replaced.
LEMMA Replaced ==
  ASSUME NEW f, NEW x \in DOMAIN f, NEW v, f = [y \in DOMAIN f |-> f[y]]
  PROVE  [f EXCEPT ![x] = v] = With(f, x, v)
  BY DEF With

\* The fields of the server's entries.
LEMMA EntryFields ==
  ASSUME Types, Numbered, NEW id \in DOMAIN srvRecs
  PROVE  /\ srvRecs[id] \in RecEntries /\ srvRecs[id].err # "missing"
         /\ srvRecs[id].state \in States /\ srvRecs[id].enabled \in BOOLEAN /\ srvRecs[id].kind \in Made
         /\ srvRecs[id].rule \in 0..MaxRules /\ srvRecs[id].life \in 0..Forever
         /\ srvRecs[id].rule <= made.rules
         /\ srvRecs[id].rule \in DOMAIN srvRules => srvRules[srvRecs[id].rule].kind = srvRecs[id].kind
         /\ srvRecs = [x \in DOMAIN srvRecs |-> srvRecs[x]]
  BY DEF Types, Numbered, RecEntries

\* What a recording may become is an entry.
LEMMA Replacements ==
  ASSUME NEW e \in RecEntries
  PROVE  /\ \A err \in {"", "300"} : e.state = "recording" => [e EXCEPT !.state = "completed", !.err = err] \in RecEntries
         /\ \A err \in {"", "noFreeAdapter"} : e.state = "scheduled" =>
              [e EXCEPT !.state = "recording", !.err = err, !.dup = FALSE] \in RecEntries
         /\ e.state = "scheduled" => /\ [e EXCEPT !.state = "missed", !.dup = FALSE] \in RecEntries
                                     /\ \A dup \in BOOLEAN : [e EXCEPT !.dup = dup] \in RecEntries
         /\ \A on \in BOOLEAN : [e EXCEPT !.enabled = on] \in RecEntries
         /\ \A life \in 0..Forever : [e EXCEPT !.life = life] \in RecEntries
         /\ e.state = "completed" => [e EXCEPT !.err = "missing"] \in RecEntries
  BY DEF RecEntries, States

\* An entry that is replaced: a change of the server's own, or one that is asked for.
LEMMA EntryReplaced ==
  ASSUME Types, Numbered, NEW id \in DOMAIN srvRecs, NEW new \in RecEntries,
         srvRecs' = [srvRecs EXCEPT ![id] = new], queue' = queue \o <<Added(id, new)>>,
         srvRules' = srvRules, made' = made, new.err # "missing",
         new.rule = srvRecs[id].rule, new.kind = srvRecs[id].kind,
         srvRecs[id].state \notin Unstarted => new.state \notin Unstarted,
         srvRecs[id].state \in Over => new.state \in Over
  PROVE  Sound(<<Added(id, new)>>)
  <1>1. srvRecs' = With(srvRecs, id, new)
    BY EntryFields, Replaced
  <1>2. id \in RecIds /\ id <= TopRec' /\ made' \in [recs : 0..MaxRecs, rules : 0..MaxRules]
    BY DEF Types, Numbered, TopRec
  <1>3. made'.recs >= made.recs /\ made'.rules = made.rules
    BY Tops
  <1>4. new.rule <= made.rules /\ (new.rule \in DOMAIN srvRules => srvRules[new.rule].kind = new.kind)
    BY EntryFields
  <1> QED BY <1>1, <1>2, <1>3, <1>4, RecChanges

-----------------------------------------------------------------------------
(***************************************************************************)
(* The server executes a request.                                          *)
(***************************************************************************)
\* What an executed request leaves.
Executed == \E ms : Sound(ms) /\ WishesMet' /\ (call.op = "delete" => IsGone(KeyOf(Req))')

\* What the requests of timers and recordings refer to.
LEMMA OnRecords ==
  ASSUME Request, Req.op \in OnRec
  PROVE  KeyOf(Req) = <<"rec", Req.id>> /\ Req.id \in RecIds
  BY DEF Request, Form, KeyOf, OnRule, OnRec

\* A request on a rule names one.
LEMMA OnRules ==
  ASSUME Request, Req.op \in OnRule
  PROVE  KeyOf(Req) = <<"rule", Req.id>> /\ Req.id \in RuleIds
  BY DEF Request, Form, KeyOf, OnRule

\* What has been made, with one more.
LEMMA MadeMore ==
  ASSUME Types
  PROVE  /\ made.recs \in Nat /\ made.rules \in Nat
         /\ made' = [made EXCEPT !.recs = @ + 1] =>
              /\ made'.recs = made.recs + 1 /\ made'.rules = made.rules
              /\ made.recs < MaxRecs => made' \in [recs : 0..MaxRecs, rules : 0..MaxRules]
         /\ made' = [made EXCEPT !.rules = @ + 1] =>
              /\ made'.rules = made.rules + 1 /\ made'.recs = made.recs
              /\ made.rules < MaxRules => made' \in [recs : 0..MaxRecs, rules : 0..MaxRules]
  <1>1. made \in [recs : 0..MaxRecs, rules : 0..MaxRules] /\ MaxRecs \in Nat /\ MaxRules \in Nat
    BY Tops DEF Types
  <1>2. /\ made.recs \in 0..MaxRecs /\ made.rules \in 0..MaxRules
        /\ made = [recs |-> made.recs, rules |-> made.rules]
    BY <1>1
  <1>3. ASSUME made' = [made EXCEPT !.recs = @ + 1]
        PROVE  made' = [recs |-> made.recs + 1, rules |-> made.rules]
    BY <1>1, <1>3
  <1>4. ASSUME made' = [made EXCEPT !.rules = @ + 1]
        PROVE  made' = [recs |-> made.recs, rules |-> made.rules + 1]
    BY <1>1, <1>4
  <1>5. /\ made.recs < MaxRecs => made.recs + 1 \in 0..MaxRecs
        /\ made.rules < MaxRules => made.rules + 1 \in 0..MaxRules
    BY <1>1, <1>2
  <1> QED BY <1>1, <1>2, <1>3, <1>4, <1>5

\* The server adds a timer.
LEMMA AddsTimerOn ==
  ASSUME Types, Numbered, WishesMet, Request, AddsTimer, call'.req = call.req, approx' = approx
  PROVE  Executed
  <1>0. PICK id : id = FirstId + made.recs + 1
    OBVIOUS
  <1> DEFINE e == RecEntry("scheduled", TRUE, "none", 0, Req.life, FALSE)
             key == <<"rec", id>>
             w == [life |-> Req.asked, slot |-> Req.slot]
  <1>1. /\ Req.op = "addDvrEntry" /\ made.recs < MaxRecs /\ srvRecs' = With(srvRecs, id, e)
        /\ queue' = queue \o <<Added(id, e)>> /\ wishes' = With(wishes, key, w)
        /\ made' = [made EXCEPT !.recs = @ + 1] /\ srvRules' = srvRules
    BY <1>0 DEF AddsTimer, Sends, Wished
  <1>2. Req.life \in 0..Forever /\ TvhToKodi(Req.life) = Req.asked /\ call.op # "delete"
    <2>1. Req.life \in 0..Forever /\ TvhToKodi(Req.life) = Req.asked
      BY <1>1 DEF Request, Form, Means
    <2>2. call.op = "add"
      BY <1>1 DEF Request, Form
    <2> QED BY <2>1, <2>2
  <1>3. e \in RecEntries /\ e.err # "missing" /\ e.rule = 0 /\ e.kind = "none" /\ e.life = Req.life
    <2>1. 0 \in 0..MaxRules
      BY Tops
    <2> QED BY <1>2, <2>1 DEF RecEntry, RecEntries, States, Made
  <1> HIDE DEF e
  <1>4. /\ made'.recs = made.recs + 1 /\ made'.rules = made.rules /\ made.recs \in Nat /\ made.rules \in Nat
        /\ made' \in [recs : 0..MaxRecs, rules : 0..MaxRules]
    BY <1>1, MadeMore
  <1>5. id \in RecIds /\ id > TopRec /\ id <= TopRec'
    <2>1. TopRec = FirstId + made.recs /\ TopRec' = FirstId + made'.recs
      BY DEF TopRec
    <2>2. /\ id = FirstId + made.recs + 1 /\ made.recs < MaxRecs /\ made'.recs = made.recs + 1
          /\ made.recs \in Nat /\ FirstId \in Nat /\ MaxRecs \in Nat
      BY <1>0, <1>1, <1>4, Tops
    <2> QED BY <2>1, <2>2 DEF RecIds
  <1>6. 0 \notin DOMAIN srvRules /\ 0 <= made.rules
    BY <1>4 DEF Types, RuleIds
  <1>7. Sound(<<Added(id, e)>>)
    <2>1. made'.recs >= made.recs
      BY <1>4
    <2> QED BY <1>1, <1>3, <1>4, <1>5, <1>6, <2>1, RecChanges
  <1>8. srvRecs'[id].life = Req.life /\ wishes'[key].life = Req.asked
    BY <1>1, <1>3 DEF With
  <1>9. WishMet(key)'
    <2>1. key[2] = id /\ key = <<"rec", key[2]>> /\ key[2] \in RecIds /\ key[2] <= TopRec'
      BY <1>5
    <2> HIDE DEF key
    <2>2. TvhToKodi(srvRecs'[key[2]].life) = wishes'[key].life
      BY <1>2, <1>8, <2>1
    <2> QED BY <2>1, <2>2 DEF WishMet
  <1>10. WishesMet'
    <2>1. \A k \in DOMAIN wishes' : k = key \/ (k \in DOMAIN wishes /\ wishes'[k] = wishes[k])
      BY <1>1 DEF With
    <2>2. \A x \in DOMAIN srvRecs : <<"rec", x>> # key => srvRecs'[x].life = srvRecs[x].life
      BY <1>1 DEF With
    <2> QED BY <1>1, <1>7, <1>9, <2>1, <2>2, WishesOn
  <1> QED BY <1>2, <1>7, <1>10 DEF Executed

\* It adds a rule, with times out of the day made any time.
LEMMA AddsRuleOn ==
  ASSUME Types, Numbered, WishesMet, Request, AddsRule, call'.req = call.req, approx' = approx
  PROVE  Executed
  <1>0. PICK sid : sid = made.rules + 1
    OBVIOUS
  <1> DEFINE e == Sent(Req.kind)
             key == <<"rule", sid>>
             w == [life |-> Req.asked, slot |-> Req.slot]
  <1>1. /\ Req.op = "addRule" /\ made.rules < MaxRules /\ srvRules' = With(srvRules, sid, e)
        /\ queue' = queue \o <<RuleAdded(sid, e)>> /\ wishes' = With(wishes, key, w)
        /\ made' = [made EXCEPT !.rules = @ + 1] /\ srvRecs' = srvRecs
    BY <1>0 DEF AddsRule, Sends, Wished, Sent
  <1>2. /\ Req.life \in 0..(Wide - 1) /\ Req.kind \in Kinds /\ RuleMeets(e, Req.asked, Req.slot)
        /\ call.op # "delete"
    <2>1. Req.life \in 0..(Wide - 1) /\ Req.kind \in Kinds /\ RuleMeets(e, Req.asked, Req.slot)
      BY <1>1 DEF Request, Form, Means
    <2>2. call.op = "add"
      BY <1>1 DEF Request, Form
    <2> QED BY <2>1, <2>2
  <1>3. e \in RuleEntries
    BY <1>2, Normals DEF Sent, RuleEntry, RuleEntries
  <1> HIDE DEF e
  <1>4. /\ made'.rules = made.rules + 1 /\ made'.recs = made.recs /\ made.rules \in Nat /\ made.recs \in Nat
        /\ made' \in [recs : 0..MaxRecs, rules : 0..MaxRules]
    BY <1>1, MadeMore
  <1>5. sid \in RuleIds /\ sid > made.rules /\ sid <= made'.rules
    BY <1>0, <1>1, <1>4, Tops DEF RuleIds
  <1>6. Sound(<<RuleAdded(sid, e)>>)
    <2>1. made'.rules >= made.rules
      BY <1>4
    <2> QED BY <1>1, <1>3, <1>4, <1>5, <2>1, RuleChanges
  <1>7. srvRules'[sid] = e /\ wishes'[key].life = Req.asked /\ wishes'[key].slot = Req.slot
    BY <1>1 DEF With
  <1>8. WishMet(key)'
    <2>1. key[2] = sid /\ key = <<"rule", key[2]>> /\ key[2] \in RuleIds /\ key[2] <= made'.rules
      BY <1>5
    <2> HIDE DEF key
    <2>2. RuleMeets(srvRules[key[2]], wishes[key].life, wishes[key].slot)'
      BY <1>2, <1>7, <2>1 DEF RuleMeets
    <2> QED BY <2>1, <2>2 DEF WishMet
  <1>9. WishesMet'
    <2>1. \A k \in DOMAIN wishes' : k = key \/ (k \in DOMAIN wishes /\ wishes'[k] = wishes[k])
      BY <1>1 DEF With
    <2>2. \A x \in DOMAIN srvRules : <<"rule", x>> # key => srvRules'[x] = srvRules[x]
      BY <1>1 DEF With
    <2> QED BY <1>1, <1>6, <1>8, <2>1, <2>2, WishesOn
  <1> QED BY <1>2, <1>6, <1>9 DEF Executed

\* It deletes a timer or ends a recording: whatever the answer, what was asked for is no timer.
LEMMA RemovesOn ==
  ASSUME Types, Numbered, WishesMet, Request, Removes, call'.req = call.req, approx' = approx
  PROVE  Executed
  <1>0. PICK id : id = Req.id
    OBVIOUS
  <1> DEFINE e == srvRecs[id]
             over == [e EXCEPT !.state = "completed", !.err = IF Req.op = "cancelDvrEntry" THEN "300" ELSE ""]
  <1>1. /\ Req.op \in {"cancelDvrEntry", "stopDvrEntry"} /\ id \in DOMAIN srvRecs
        /\ srvRules' = srvRules /\ made' = made /\ wishes' = wishes
    BY <1>0 DEF Removes
  <1>2. /\ e \in RecEntries /\ e.state \in States /\ id \in RecIds /\ id <= TopRec /\ TopRec' = TopRec
        /\ e.err # "missing"
    BY <1>1, EntryFields DEF Types, Numbered, TopRec
  <1>3. KeyOf(Req)' = <<"rec", id>>
    <2>1. Req.op \in OnRec
      BY <1>1 DEF OnRec
    <2> QED BY <1>0, <2>1, OnRecords DEF KeyOf, Req
  <1>4. /\ e.state = "scheduled" /\ Req.op = "cancelDvrEntry" =>
             srvRecs' = Without(srvRecs, {id}) /\ queue' = queue \o <<Deleted(id)>>
        /\ e.state = "recording" => srvRecs' = [srvRecs EXCEPT ![id] = over] /\ queue' = queue \o <<Added(id, over)>>
        /\ e.state # "recording" /\ ~(e.state = "scheduled" /\ Req.op = "cancelDvrEntry") =>
             srvRecs' = srvRecs /\ queue' = queue
    BY <1>0 DEF Removes, Sends
  <1>5. e.state = "scheduled" => Req.op = "cancelDvrEntry"
    BY <1>0, <1>1 DEF Request, Aims, Unstarted
  <1> HIDE DEF over
  <1>6. SUFFICES ASSUME NEW ms, Sound(ms), \A x \in DOMAIN srvRecs' : srvRecs'[x].life = srvRecs[x].life,
                        id \in DOMAIN srvRecs' => srvRecs'[id].state \in Over
                 PROVE  Executed
    <2>1. CASE e.state = "scheduled"
      <3>1. srvRecs' = Without(srvRecs, {id}) /\ queue' = queue \o <<Deleted(id)>>
        BY <1>4, <1>5, <2>1
      <3>2. /\ Deleted(id) \in Messages /\ Deleted(id)[1] = "dvrEntryDelete" /\ Deleted(id)[2] = id
            /\ Deleted(id)[1] \in RecKinds /\ ~Gives(Deleted(id))
        BY <1>2, MessagesOf DEF Deleted, Message, RecKinds, Gives
      <3>3. Sound(<<Deleted(id)>>)
        BY <1>1, <3>1, <3>2, RecGoes
      <3>4. \A x \in DOMAIN srvRecs' : x # id /\ srvRecs'[x] = srvRecs[x]
        BY <3>1 DEF Without
      <3> QED BY <1>6, <3>3, <3>4
    <2>2. CASE e.state = "recording"
      <3>1. srvRecs' = [srvRecs EXCEPT ![id] = over] /\ queue' = queue \o <<Added(id, over)>>
        BY <1>4, <2>2
      <3>2. /\ over \in RecEntries /\ over.state = "completed" /\ over.err # "missing" /\ over.rule = e.rule
            /\ over.kind = e.kind /\ over.life = e.life /\ over.state \in Over /\ over.state \notin Unstarted
        <4>1. over \in RecEntries
          BY <1>2, <2>2, Replacements DEF over
        <4> QED BY <1>2, <4>1 DEF over, RecEntries, Over, Unstarted
      <3>3. Sound(<<Added(id, over)>>)
        BY <1>1, <3>1, <3>2, EntryReplaced
      <3>4. \A x \in DOMAIN srvRecs : srvRecs'[x] = IF x = id THEN over ELSE srvRecs[x]
        BY <1>1, <3>1
      <3>5. DOMAIN srvRecs' = DOMAIN srvRecs
        BY <3>1
      <3>6. srvRecs'[id].state \in Over
        BY <1>1, <3>2, <3>4 DEF Over
      <3> QED BY <1>1, <1>6, <3>2, <3>3, <3>4, <3>5, <3>6
    <2>3. CASE e.state \in Over
      <3>1. srvRecs' = srvRecs /\ queue' = queue
        BY <1>4, <2>3 DEF Over
      <3>2. Sound(<<>>)
        BY <1>1, <3>1, NothingSound DEF srvVars
      <3> QED BY <1>6, <2>3, <3>1, <3>2
    <2> QED BY <1>2, <2>1, <2>2, <2>3 DEF States, Over
  <1>7. IsGone(KeyOf(Req))'
    <2>1. GoneRec(id)'
      BY <1>2, <1>6 DEF GoneRec
    <2>2. \A key : key = <<"rec", id>> => IsGone(key)'
      BY <2>1 DEF IsGone
    <2> QED BY <1>3, <2>2
  <1>8. WishesMet'
    <2>1. DOMAIN wishes' = DOMAIN wishes /\ <<"none", 0>> \notin DOMAIN wishes'
      BY <1>1 DEF WishesMet, WishMet
    <2> QED BY <1>1, <1>6, <2>1, WishesOn
  <1> QED BY <1>6, <1>7, <1>8 DEF Executed

\* It deletes a recording.
LEMMA DeletesRecordingOn ==
  ASSUME Types, Numbered, WishesMet, Request, DeletesRecording, call'.req = call.req, approx' = approx
  PROVE  Executed
  <1>0. PICK id : id = Req.id
    OBVIOUS
  <1>1. /\ Req.op = "deleteDvrEntry" /\ id \in DOMAIN srvRecs /\ srvRecs' = Without(srvRecs, {id})
        /\ queue' = queue \o <<Deleted(id)>> /\ srvRules' = srvRules /\ made' = made /\ wishes' = wishes
    BY <1>0 DEF DeletesRecording, Sends
  <1>2. call.op # "delete" /\ id \in RecIds
    BY <1>1 DEF Request, Form, Types
  <1>3. /\ Deleted(id) \in Messages /\ Deleted(id)[1] = "dvrEntryDelete" /\ Deleted(id)[2] = id
        /\ Deleted(id)[1] \in RecKinds /\ ~Gives(Deleted(id))
    BY <1>2, MessagesOf DEF Deleted, Message, RecKinds, Gives
  <1>4. Sound(<<Deleted(id)>>)
    BY <1>1, <1>3, RecGoes
  <1>5. \A x \in DOMAIN srvRecs' : srvRecs'[x] = srvRecs[x]
    BY <1>1 DEF Without
  <1>6. <<"none", 0>> \notin DOMAIN wishes'
    BY <1>1 DEF WishesMet, WishMet
  <1>7. WishesMet'
    BY <1>1, <1>4, <1>5, <1>6, WishesOn
  <1> QED BY <1>2, <1>4, <1>7 DEF Executed

\* It deletes a rule and the timers of that rule.
LEMMA DeletesRuleOn ==
  ASSUME Types, Numbered, WishesMet, Request, DeletesRule, call'.req = call.req, approx' = approx
  PROVE  Executed
  <1>0. PICK sid : sid = Req.id
    OBVIOUS
  <1>1. /\ Req.op = "deleteRule" /\ sid \in DOMAIN srvRules /\ RuleGoes(sid) /\ made' = made /\ wishes' = wishes
    BY <1>0 DEF DeletesRule
  <1>2. PICK ms : Sound(ms)
    BY <1>1, RuleGoesSoundly
  <1>3. /\ sid \notin DOMAIN srvRules'
        /\ \A x \in DOMAIN srvRecs' : srvRecs'[x] = srvRecs[x]
        /\ \A x \in DOMAIN srvRules' : srvRules'[x] = srvRules[x]
    BY <1>1, RuleGoesSoundly
  <1>4. sid \in RuleIds /\ sid <= made'.rules
    BY <1>1 DEF Types, Numbered
  <1>5. KeyOf(Req)' = <<"rule", sid>>
    <2>1. Req.op \in OnRule
      BY <1>1 DEF OnRule
    <2> QED BY <1>0, <2>1, OnRules DEF KeyOf, Req
  <1>6. IsGone(KeyOf(Req))'
    <2>1. GoneRule(sid)'
      BY <1>3, <1>4 DEF GoneRule
    <2>2. \A key : key = <<"rule", sid>> => IsGone(key)'
      BY <2>1 DEF IsGone
    <2> QED BY <1>5, <2>2
  <1>7. <<"none", 0>> \notin DOMAIN wishes'
    BY <1>1 DEF WishesMet, WishMet
  <1>8. WishesMet'
    BY <1>1, <1>2, <1>3, <1>7, WishesOn
  <1> QED BY <1>2, <1>6, <1>8 DEF Executed

\* It changes a timer or a recording: the lifetime is the one that was asked for.
LEMMA UpdatesTimerOn ==
  ASSUME Types, Numbered, WishesMet, Request, UpdatesTimer, call'.req = call.req, approx' = approx
  PROVE  Executed
  <1>0. PICK id : id = Req.id
    OBVIOUS
  <1> DEFINE e == srvRecs[id]
             on == IF "enabled" \in DOMAIN Req /\ e.state = "scheduled" THEN [e EXCEPT !.enabled = Req.enabled] ELSE e
             new == IF Req.op = "updateDvrEntry" THEN [on EXCEPT !.life = Req.life] ELSE on
             w == [life |-> Req.asked, slot |-> <<AnyTime, AnyTime>>]
  <1>1. /\ Req.op \in {"updateDvrEntry", "enableDvrEntry"} /\ id \in DOMAIN srvRecs
        /\ srvRecs' = [srvRecs EXCEPT ![id] = new] /\ queue' = queue \o <<Added(id, new)>>
        /\ Req.op = "updateDvrEntry" => wishes' = With(wishes, <<"rec", id>>, w)
        /\ Req.op # "updateDvrEntry" => wishes' = wishes
        /\ srvRules' = srvRules /\ made' = made
    BY <1>0 DEF UpdatesTimer, Sends, Wished
  <1>2. /\ e \in RecEntries /\ e.err # "missing" /\ id \in RecIds /\ id <= TopRec'
    BY <1>1, EntryFields DEF Types, Numbered, TopRec
  <1>3. /\ "enabled" \in DOMAIN Req => Req.enabled \in BOOLEAN
        /\ Req.op = "updateDvrEntry" => Req.life \in 0..Forever /\ TvhToKodi(Req.life) = Req.asked
        /\ call.op # "delete"
    <2>1. call.op # "delete"
      BY <1>1 DEF Request, Form
    <2>2. Req.op = "updateDvrEntry" => Req.life \in 0..Forever /\ TvhToKodi(Req.life) = Req.asked
      BY DEF Request, Form, Means
    <2>3. "enabled" \in DOMAIN Req => Req.enabled \in BOOLEAN
      BY DEF Request, Form
    <2> QED BY <2>1, <2>2, <2>3
  <1> HIDE DEF e
  <1>4. /\ on \in RecEntries /\ on.rule = e.rule /\ on.kind = e.kind /\ on.state = e.state
        /\ on.err = e.err /\ on.life = e.life
    <2>1. on \in RecEntries
      BY <1>2, <1>3, Replacements
    <2> QED BY <1>2, <2>1 DEF RecEntries
  <1> HIDE DEF on
  <1>5. /\ new \in RecEntries /\ new.rule = e.rule /\ new.kind = e.kind /\ new.state = e.state
        /\ new.err = e.err /\ new.life = IF Req.op = "updateDvrEntry" THEN Req.life ELSE e.life
    <2>1. new \in RecEntries
      BY <1>3, <1>4, Replacements
    <2> QED BY <1>4, <2>1 DEF RecEntries
  <1> HIDE DEF new
  <1>6. Sound(<<Added(id, new)>>)
    BY <1>1, <1>2, <1>5, EntryReplaced DEF e
  <1>7. /\ \A x \in DOMAIN srvRecs : srvRecs'[x] = IF x = id THEN new ELSE srvRecs[x]
        /\ DOMAIN srvRecs' = DOMAIN srvRecs
    BY <1>1, EntryFields
  <1>8. WishesMet'
    <2>1. CASE Req.op = "updateDvrEntry"
      <3> DEFINE key == <<"rec", id>>
      <3>1. wishes' = With(wishes, key, w)
        BY <1>1, <2>1
      <3>2. \A k \in DOMAIN wishes' : k = key \/ (k \in DOMAIN wishes /\ wishes'[k] = wishes[k])
        BY <3>1 DEF With
      <3>3. wishes'[key].life = Req.asked
        BY <3>1 DEF With
      <3>4. srvRecs'[id].life = Req.life
        BY <1>1, <1>5, <1>7, <2>1
      <3>5. WishMet(key)'
        <4>1. key[2] = id /\ key = <<"rec", key[2]>> /\ key[2] \in RecIds /\ key[2] <= TopRec'
          BY <1>2
        <4> HIDE DEF key
        <4>2. TvhToKodi(srvRecs'[key[2]].life) = wishes'[key].life
          BY <1>3, <2>1, <3>3, <3>4, <4>1
        <4> QED BY <4>1, <4>2 DEF WishMet
      <3>6. \A x \in DOMAIN srvRecs : <<"rec", x>> # key => srvRecs'[x].life = srvRecs[x].life
        BY <1>7
      <3> QED BY <1>1, <1>6, <3>2, <3>5, <3>6, WishesOn
    <2>2. CASE Req.op # "updateDvrEntry"
      <3>1. wishes' = wishes /\ <<"none", 0>> \notin DOMAIN wishes'
        BY <1>1, <2>2 DEF WishesMet, WishMet
      <3>2. \A x \in DOMAIN srvRecs : srvRecs'[x].life = srvRecs[x].life
        BY <1>5, <1>7, <2>2 DEF e
      <3> QED BY <1>1, <1>6, <3>1, <3>2, WishesOn
    <2> QED BY <2>1, <2>2
  <1> QED BY <1>3, <1>6, <1>8 DEF Executed

\* It changes a rule.
LEMMA UpdatesRuleOn ==
  ASSUME Types, Numbered, WishesMet, Request, UpdatesRule, call'.req = call.req, approx' = approx
  PROVE  Executed
  <1>0. PICK sid : sid = Req.id
    OBVIOUS
  <1> DEFINE old == srvRules[sid]
             e == RuleEntry(old.kind, Req.enabled, Req.life, <<Normal(Req.window[1]), Normal(Req.window[2])>>)
             key == <<"rule", sid>>
             w == [life |-> Req.asked, slot |-> Req.slot]
  <1>1. /\ Req.op = "updateRule" /\ sid \in DOMAIN srvRules /\ srvRules' = [srvRules EXCEPT ![sid] = e]
        /\ queue' = queue \o <<RuleAdded(sid, e)>> /\ wishes' = With(wishes, key, w)
        /\ srvRecs' = srvRecs /\ made' = made
    BY <1>0 DEF UpdatesRule, Sends, Wished
  <1>2. old \in RuleEntries /\ old.kind \in Kinds /\ sid \in RuleIds /\ sid <= made.rules
    BY <1>1 DEF Types, Numbered, RuleEntries
  <1>3. /\ Req.life \in 0..(Wide - 1) /\ Req.enabled \in BOOLEAN /\ call.op # "delete"
        /\ RuleMeets(Sent(old.kind), Req.asked, Req.slot)
    <2>1. call.op # "delete" /\ Req.life \in 0..(Wide - 1) /\ Req.enabled \in BOOLEAN
      BY <1>1 DEF Request, Form
    <2>2. RuleMeets(Sent(old.kind), Req.asked, Req.slot)
      BY <1>0, <1>1 DEF Request, Means
    <2> QED BY <2>1, <2>2
  <1>4. e \in RuleEntries /\ e.kind = old.kind /\ RuleMeets(e, Req.asked, Req.slot)
    <2>1. e \in RuleEntries
      BY <1>2, <1>3, Normals DEF RuleEntry, RuleEntries
    <2>2. RuleMeets(e, Req.asked, Req.slot)
      BY <1>3 DEF RuleMeets, Sent, RuleEntry
    <2> QED BY <2>1, <2>2 DEF RuleEntry
  <1> HIDE DEF e
  <1>5. srvRules' = With(srvRules, sid, e)
    <2>1. srvRules = [x \in DOMAIN srvRules |-> srvRules[x]]
      BY DEF Types
    <2> QED BY <1>1, <2>1, Replaced
  <1>6. Sound(<<RuleAdded(sid, e)>>)
    <2>1. /\ made' \in [recs : 0..MaxRecs, rules : 0..MaxRules] /\ made'.recs = made.recs /\ made'.rules >= made.rules
          /\ sid <= made'.rules
      BY <1>1, <1>2, Tops DEF Types
    <2> QED BY <1>1, <1>2, <1>4, <1>5, <2>1, RuleChanges
  <1>7. srvRules'[sid] = e /\ wishes'[key].life = Req.asked /\ wishes'[key].slot = Req.slot
    BY <1>1, <1>5 DEF With
  <1>8. WishMet(key)'
    <2>1. key[2] = sid /\ key = <<"rule", key[2]>> /\ key[2] \in RuleIds /\ key[2] <= made'.rules
      BY <1>1, <1>2
    <2> HIDE DEF key
    <2>2. RuleMeets(srvRules[key[2]], wishes[key].life, wishes[key].slot)'
      BY <1>4, <1>7, <2>1 DEF RuleMeets
    <2> QED BY <2>1, <2>2 DEF WishMet
  <1>9. WishesMet'
    <2>1. \A k \in DOMAIN wishes' : k = key \/ (k \in DOMAIN wishes /\ wishes'[k] = wishes[k])
      BY <1>1 DEF With
    <2>2. \A x \in DOMAIN srvRules : <<"rule", x>> # key => srvRules'[x] = srvRules[x]
      BY <1>5 DEF With
    <2> QED BY <1>1, <1>6, <1>8, <2>1, <2>2, WishesOn
  <1> QED BY <1>3, <1>6, <1>9 DEF Executed

\* The answer to a call.
LEMMA Answered ==
  ASSUME CallForm, NEW a, call' = [call EXCEPT !.at = "answered", !.answer = a]
  PROVE  /\ call'.at = "answered" /\ call'.op = call.op /\ call'.item = call.item /\ call'.req = call.req
         /\ call'.answer = a /\ CallForm'
  <1> DEFINE at == call.at
             op == call.op
             item == call.item
             req == call.req
             locks == call.locks
             answer == call.answer
  <1>1. call = [at |-> at, op |-> op, item |-> item, req |-> req, locks |-> locks, answer |-> answer]
    BY DEF CallForm
  <1> HIDE DEF at, op, item, req, locks, answer
  <1>2. call' = [at |-> "answered", op |-> op, item |-> item, req |-> req, locks |-> locks, answer |-> a]
    BY <1>1
  <1>3. /\ call'.at = "answered" /\ call'.op = op /\ call'.item = item /\ call'.req = req
        /\ call'.answer = a /\ call'.locks = locks
    <2>1. \A c : c = [at |-> "answered", op |-> op, item |-> item, req |-> req, locks |-> locks, answer |-> a] =>
            /\ c.at = "answered" /\ c.op = op /\ c.item = item /\ c.req = req /\ c.answer = a /\ c.locks = locks
      OBVIOUS
    <2> QED BY <1>2, <2>1
  <1> QED BY <1>2, <1>3 DEF at, op, item, req, locks, answer, CallForm

\* Whatever it executes, and whether or not the answer gets back.
LEMMA ServerExecutesOn ==
  ASSUME IInv, ServerExecutes
  PROVE  IInv'
  <1>1. Types /\ Numbered /\ WishesMet /\ CallOK /\ CallForm /\ Request /\ call.at = "asked"
    <2>1. Types /\ Numbered /\ WishesMet /\ CallOK /\ call.at = "asked"
      BY DEF IInv, Fresh, ServerExecutes
    <2> QED BY <2>1 DEF CallOK
  <1>2. Addon /\ said' = said /\ calls' = calls /\ approx' = approx
    BY DEF ServerExecutes, ServerUnchanged, Addon, addonVars, kodiVars
  <1>3. events' \in 0..MaxEvents
    <2>1. events' = events \/ (events < MaxEvents /\ events' = events + 1)
      BY DEF ServerExecutes, Answers, Lost
    <2>2. events \in 0..MaxEvents /\ MaxEvents \in Nat
      BY <1>1, Tops DEF Types
    <2> QED BY <2>1, <2>2
  <1>4. /\ call'.at = "answered" /\ call'.op = call.op /\ call'.item = call.item /\ call'.req = call.req
        /\ CallForm'
    <2>1. PICK a : call' = [call EXCEPT !.at = "answered", !.answer = a]
      BY DEF ServerExecutes, Answers
    <2> QED BY <1>1, <2>1, Answered
  <1>5. Executed
    BY <1>1, <1>2, <1>4, AddsTimerOn, AddsRuleOn, RemovesOn, DeletesRecordingOn, DeletesRuleOn, UpdatesTimerOn,
       UpdatesRuleOn DEF ServerExecutes
  <1>6. PICK ms : Sound(ms) /\ WishesMet' /\ (call.op = "delete" => IsGone(KeyOf(Req))')
    BY <1>5 DEF Executed
  <1> QED BY <1>1, <1>2, <1>3, <1>4, <1>6, ServerStep

\* The server refuses, or the answer is lost.
LEMMA ServerRefusesOn ==
  ASSUME IInv, ServerRefuses
  PROVE  IInv'
  <1>1. Types /\ Numbered /\ WishesMet /\ CallOK /\ CallForm /\ call.at = "asked"
    <2>1. Types /\ Numbered /\ WishesMet /\ CallOK /\ call.at = "asked"
      BY DEF IInv, Fresh, ServerRefuses
    <2> QED BY <2>1 DEF CallOK
  <1>2. Addon /\ said' = said /\ calls' = calls /\ approx' = approx /\ UNCHANGED srvVars /\ wishes' = wishes
    BY DEF ServerRefuses, ServerUnchanged, Addon, addonVars, kodiVars
  <1>3. events' \in 0..MaxEvents
    <2>1. events' = events \/ (events < MaxEvents /\ events' = events + 1)
      BY DEF ServerRefuses, Lost
    <2>2. events \in 0..MaxEvents /\ MaxEvents \in Nat
      BY <1>1, Tops DEF Types
    <2> QED BY <2>1, <2>2
  <1>4. /\ call'.at = "answered" /\ call'.op = call.op /\ call'.item = call.item /\ call'.req = call.req
        /\ CallForm' /\ call'.answer \notin {"success", "malformed"}
    <2>1. PICK a \in {"refused", "lost"} : call' = [call EXCEPT !.at = "answered", !.answer = a]
      BY DEF ServerRefuses
    <2> QED BY <1>1, <2>1, Answered
  <1>5. Sound(<<>>)
    BY <1>1, <1>2, NothingSound
  <1>6. WishesMet'
    BY <1>1, <1>2 DEF WishesMet, WishMet, RuleMeets, srvVars, TopRec
  <1> QED BY <1>1, <1>2, <1>3, <1>4, <1>5, <1>6, ServerStep

\* What the server does of its own accord leaves what is set.
Acted == \E ms : Sound(ms) /\ WishesMet'

\* A change of one entry that is no wish of the user.
LEMMA ChangesOn ==
  ASSUME Types, Numbered, WishesMet, NEW id \in DOMAIN srvRecs, NEW new \in RecEntries, Changes(id, new),
         approx' = approx, wishes' = wishes, new.err # "missing",
         new.rule = srvRecs[id].rule, new.kind = srvRecs[id].kind, new.life = srvRecs[id].life,
         srvRecs[id].state \notin Unstarted => new.state \notin Unstarted,
         srvRecs[id].state \in Over => new.state \in Over
  PROVE  Acted
  <1>1. /\ srvRecs' = [srvRecs EXCEPT ![id] = new] /\ queue' = queue \o <<Added(id, new)>>
        /\ srvRules' = srvRules /\ made' = made
    BY DEF Changes, Sends
  <1>2. Sound(<<Added(id, new)>>)
    BY <1>1, EntryReplaced
  <1>3. \A x \in DOMAIN srvRecs : srvRecs'[x].life = srvRecs[x].life
    BY <1>1, EntryFields
  <1>4. <<"none", 0>> \notin DOMAIN wishes'
    BY DEF WishesMet, WishMet
  <1>5. WishesMet'
    BY <1>1, <1>2, <1>3, <1>4, WishesOn
  <1> QED BY <1>2, <1>5 DEF Acted

\* What the server does of its own accord.
LEMMA ServerActsOn ==
  ASSUME IInv, ServerActs
  PROVE  IInv'
  <1>1. Types /\ Numbered /\ WishesMet /\ CallOK /\ <<"none", 0>> \notin DOMAIN wishes
    BY DEF IInv, Fresh, WishesMet, WishMet
  <1>2. Addon /\ said' = said /\ calls' = calls /\ approx' = approx /\ call' = call /\ wishes' = wishes
    BY DEF ServerActs, Addon, addonVars, kodiVars
  <1>3. events' \in 0..MaxEvents
    <2>1. events < MaxEvents /\ events' = events + 1
      BY DEF ServerActs, Lost
    <2>2. events \in 0..MaxEvents /\ MaxEvents \in Nat
      BY <1>1, Tops DEF Types
    <2> QED BY <2>1, <2>2
  <1>4. ASSUME Starts PROVE Acted
    <2>1. PICK id \in DOMAIN srvRecs, err \in {"", "noFreeAdapter"} :
            /\ srvRecs[id].state = "scheduled"
            /\ Changes(id, [srvRecs[id] EXCEPT !.state = "recording", !.err = err, !.dup = FALSE])
      BY <1>4 DEF Starts
    <2> DEFINE e == srvRecs[id]
               new == [e EXCEPT !.state = "recording", !.err = err, !.dup = FALSE]
    <2>2. e \in RecEntries
      BY <1>1, EntryFields
    <2>3. new \in RecEntries
      BY <2>1, <2>2, Replacements
    <2>4. /\ new.err # "missing" /\ new.rule = e.rule /\ new.kind = e.kind /\ new.life = e.life
          /\ e.state \notin Over /\ e.state \in Unstarted
      BY <2>1, <2>2 DEF RecEntries, Over, Unstarted
    <2> QED BY <1>1, <1>2, <2>1, <2>3, <2>4, ChangesOn
  <1>5. ASSUME Ends PROVE Acted
    <2>1. PICK id \in DOMAIN srvRecs :
            srvRecs[id].state = "recording" /\ Changes(id, [srvRecs[id] EXCEPT !.state = "completed", !.err = ""])
      BY <1>5 DEF Ends
    <2> DEFINE e == srvRecs[id]
               new == [e EXCEPT !.state = "completed", !.err = ""]
    <2>2. e \in RecEntries
      BY <1>1, EntryFields
    <2>3. new \in RecEntries
      BY <2>1, <2>2, Replacements
    <2>4. /\ new.err # "missing" /\ new.rule = e.rule /\ new.kind = e.kind /\ new.life = e.life
          /\ new.state \in Over /\ new.state \notin Unstarted
      BY <2>1, <2>2 DEF RecEntries, Over, Unstarted
    <2> QED BY <1>1, <1>2, <2>1, <2>3, <2>4, ChangesOn
  <1>6. ASSUME FileGoes PROVE Acted
    <2>1. PICK id \in DOMAIN srvRecs :
            /\ srvRecs[id].state = "completed" /\ srvRecs' = Without(srvRecs, {id})
            /\ queue' = queue \o <<Added(id, [srvRecs[id] EXCEPT !.err = "missing"])>>
            /\ srvRules' = srvRules /\ made' = made
      BY <1>6 DEF FileGoes, Sends
    <2> DEFINE e == srvRecs[id]
               new == [e EXCEPT !.err = "missing"]
               m == Added(id, new)
    <2>2. e \in RecEntries /\ id \in RecIds
      BY <1>1, EntryFields DEF Types
    <2>3. new \in RecEntries /\ new.err = "missing" /\ new.state = "completed"
      <3>1. new \in RecEntries
        BY <2>1, <2>2, Replacements
      <3> QED BY <2>1, <2>2, <3>1 DEF RecEntries
    <2> HIDE DEF new
    <2>4. /\ m \in Messages /\ m[1] = "dvrEntry" /\ m[2] = id /\ m[3] = new /\ m[1] \in RecKinds /\ ~Gives(m)
      BY <2>2, <2>3, MessagesOf DEF Added, Message, RecKinds, Gives
    <2>5. queue' = queue \o <<m>>
      BY <2>1 DEF new
    <2>6. Sound(<<m>>)
      <3>1. m[1] = "dvrEntry" => m[3].state \notin Unstarted
        BY <2>3, <2>4 DEF Unstarted
      <3> HIDE DEF m
      <3> QED BY <1>1, <2>1, <2>4, <2>5, <3>1, RecGoes
    <2>7. \A x \in DOMAIN srvRecs' : srvRecs'[x] = srvRecs[x]
      BY <2>1 DEF Without
    <2>8. WishesMet'
      BY <1>1, <1>2, <2>1, <2>6, <2>7, WishesOn
    <2> QED BY <2>6, <2>8 DEF Acted
  <1>7. ASSUME Schedules PROVE Acted
    <2>1. PICK sid \in DOMAIN srvRules, dup \in BOOLEAN :
            /\ made.recs < MaxRecs
            /\ LET id == FirstId + made.recs + 1
                   e == RecEntry("scheduled", TRUE, srvRules[sid].kind, sid, 1, dup)
               IN srvRecs' = With(srvRecs, id, e) /\ queue' = queue \o <<Added(id, e)>>
            /\ made' = [made EXCEPT !.recs = @ + 1] /\ srvRules' = srvRules
      BY <1>7 DEF Schedules, Sends
    <2>2. PICK id : id = FirstId + made.recs + 1
      OBVIOUS
    <2> DEFINE e == RecEntry("scheduled", TRUE, srvRules[sid].kind, sid, 1, dup)
    <2>3. srvRecs' = With(srvRecs, id, e) /\ queue' = queue \o <<Added(id, e)>>
      BY <2>1, <2>2
    <2>4. sid \in RuleIds /\ sid \in 0..MaxRules /\ srvRules[sid].kind \in Kinds /\ sid <= made.rules /\ 1 \in 0..Forever
      <3>1. sid \in RuleIds /\ srvRules[sid] \in RuleEntries
        BY <1>1 DEF Types
      <3>2. sid \in 0..MaxRules /\ 1 \in 0..Forever
        BY <1>1, <3>1, Tops, Widths DEF RuleIds
      <3> QED BY <1>1, <3>1, <3>2 DEF RuleEntries, Numbered
    <2>5. e \in RecEntries /\ e.err # "missing" /\ e.rule = sid /\ e.kind = srvRules[sid].kind
      BY <2>4 DEF RecEntry, RecEntries, States, Made
    <2> HIDE DEF e
    <2>6. /\ made'.recs = made.recs + 1 /\ made'.rules = made.rules /\ made.recs \in Nat
          /\ made' \in [recs : 0..MaxRecs, rules : 0..MaxRules]
      BY <1>1, <2>1, MadeMore
    <2>7. id \in RecIds /\ id > TopRec /\ id <= TopRec' /\ made'.recs >= made.recs
      <3>1. TopRec = FirstId + made.recs /\ TopRec' = FirstId + made'.recs
        BY DEF TopRec
      <3>2. /\ id = FirstId + made.recs + 1 /\ made.recs < MaxRecs /\ made'.recs = made.recs + 1
            /\ made.recs \in Nat /\ FirstId \in Nat /\ MaxRecs \in Nat
        BY <1>1, <2>1, <2>2, <2>6, Tops
      <3> QED BY <3>1, <3>2 DEF RecIds
    <2>8. Sound(<<Added(id, e)>>)
      BY <1>1, <2>1, <2>3, <2>4, <2>5, <2>6, <2>7, RecChanges
    <2>9. id \notin DOMAIN srvRecs
      <3>1. \A x \in DOMAIN srvRecs : x \in Int /\ x <= TopRec
        BY <1>1, Tops DEF Types, Numbered
      <3> QED BY <1>1, <2>7, <3>1, Tops
    <2>10. \A x \in DOMAIN srvRecs : srvRecs'[x] = srvRecs[x]
      BY <2>3, <2>9 DEF With
    <2>11. WishesMet'
      BY <1>1, <1>2, <2>1, <2>8, <2>10, WishesOn
    <2> QED BY <2>8, <2>11 DEF Acted
  <1>8. ASSUME OthersDelete PROVE Acted
    <2>1. PICK sid \in DOMAIN srvRules : RuleGoes(sid) /\ made' = made
      BY <1>8 DEF OthersDelete
    <2>2. PICK ms : Sound(ms)
      BY <1>1, <2>1, RuleGoesSoundly
    <2>3. /\ \A x \in DOMAIN srvRecs' : srvRecs'[x] = srvRecs[x]
          /\ \A x \in DOMAIN srvRules' : srvRules'[x] = srvRules[x]
      BY <1>1, <2>1, RuleGoesSoundly
    <2>4. WishesMet'
      BY <1>1, <1>2, <2>2, <2>3, WishesOn
    <2> QED BY <2>2, <2>4 DEF Acted
  <1>9. ASSUME OthersAdd PROVE Acted
    <2>1. PICK sid : sid = made.rules + 1
      OBVIOUS
    <2>2. /\ made.rules < MaxRules /\ srvRules' = With(srvRules, sid, TheRule)
          /\ queue' = queue \o <<RuleAdded(sid, TheRule)>>
          /\ made' = [made EXCEPT !.rules = @ + 1] /\ srvRecs' = srvRecs
      BY <1>9, <2>1 DEF OthersAdd, Sends
    <2>3. TheRule \in RuleEntries
      BY Widths DEF TheRule, RuleEntry, RuleEntries, Times, Kinds
    <2>4. /\ made'.rules = made.rules + 1 /\ made'.recs = made.recs /\ made.rules \in Nat
          /\ made' \in [recs : 0..MaxRecs, rules : 0..MaxRules]
      BY <1>1, <2>2, MadeMore
    <2>5. sid \in RuleIds /\ sid > made.rules /\ sid <= made'.rules /\ made'.rules >= made.rules
      BY <1>1, <2>1, <2>2, <2>4, Tops DEF RuleIds
    <2>6. Sound(<<RuleAdded(sid, TheRule)>>)
      BY <1>1, <2>2, <2>3, <2>4, <2>5, RuleChanges
    <2>7. sid \notin DOMAIN srvRules
      BY <1>1, <2>4, <2>5 DEF Numbered, Types, RuleIds
    <2>8. \A x \in DOMAIN srvRules : srvRules'[x] = srvRules[x]
      BY <2>2, <2>7 DEF With
    <2>9. WishesMet'
      BY <1>1, <1>2, <2>2, <2>6, <2>8, WishesOn
    <2> QED BY <2>6, <2>9 DEF Acted
  <1>10. ASSUME OthersDisable PROVE Acted
    <2>1. PICK id \in DOMAIN srvRecs : Changes(id, [srvRecs[id] EXCEPT !.enabled = FALSE])
      BY <1>10 DEF OthersDisable
    <2> DEFINE e == srvRecs[id]
               new == [e EXCEPT !.enabled = FALSE]
    <2>2. e \in RecEntries /\ e.err # "missing"
      BY <1>1, EntryFields
    <2>3. new \in RecEntries
      BY <2>2, Replacements
    <2>4. /\ new.err # "missing" /\ new.rule = e.rule /\ new.kind = e.kind /\ new.life = e.life
          /\ new.state = e.state
      BY <2>2 DEF RecEntries
    <2> QED BY <1>1, <1>2, <2>1, <2>3, <2>4, ChangesOn
  <1>11. ASSUME Misses PROVE Acted
    <2>1. PICK id \in DOMAIN srvRecs :
            srvRecs[id].state = "scheduled" /\ Changes(id, [srvRecs[id] EXCEPT !.state = "missed", !.dup = FALSE])
      BY <1>11 DEF Misses
    <2> DEFINE e == srvRecs[id]
               new == [e EXCEPT !.state = "missed", !.dup = FALSE]
    <2>2. e \in RecEntries
      BY <1>1, EntryFields
    <2>3. new \in RecEntries
      BY <2>1, <2>2, Replacements
    <2>4. /\ new.err # "missing" /\ new.rule = e.rule /\ new.kind = e.kind /\ new.life = e.life
          /\ e.state \notin Over /\ e.state \in Unstarted
      BY <2>1, <2>2 DEF RecEntries, Over, Unstarted
    <2> QED BY <1>1, <1>2, <2>1, <2>3, <2>4, ChangesOn
  <1>12. ASSUME Duplicates PROVE Acted
    <2>1. PICK id \in DOMAIN srvRecs :
            srvRecs[id].state = "scheduled" /\ Changes(id, [srvRecs[id] EXCEPT !.dup = ~srvRecs[id].dup])
      BY <1>12 DEF Duplicates
    <2> DEFINE e == srvRecs[id]
               new == [e EXCEPT !.dup = ~e.dup]
    <2>2. e \in RecEntries /\ e.err # "missing"
      BY <1>1, EntryFields
    <2>3. new \in RecEntries
      BY <2>1, <2>2, Replacements
    <2>4. /\ new.err # "missing" /\ new.rule = e.rule /\ new.kind = e.kind /\ new.life = e.life
          /\ e.state \notin Over /\ new.state = e.state
      BY <2>1, <2>2 DEF RecEntries, Over
    <2> QED BY <1>1, <1>2, <2>1, <2>3, <2>4, ChangesOn
  <1>13. PICK ms : Sound(ms) /\ WishesMet'
    BY <1>4, <1>5, <1>6, <1>7, <1>8, <1>9, <1>10, <1>11, <1>12 DEF ServerActs, Acted
  <1>14. /\ CallForm' /\ call'.at \in {"idle", "asked", "answered"}
         /\ call'.at # "idle" =>
              /\ call.at # "idle" /\ call'.op = call.op /\ call'.item = call.item /\ call'.req = call.req
              /\ call'.at = "answered" /\ call'.answer \in {"success", "malformed"} /\ call.op = "delete" =>
                   IsGone(KeyOf(Req))'
    <2>1. CallForm' /\ call'.at \in {"idle", "asked", "answered"}
      BY <1>1, <1>2 DEF CallOK, CallForm
    <2>2. ASSUME call.at = "answered", call.answer \in {"success", "malformed"}, call.op = "delete"
          PROVE  IsGone(KeyOf(Req))'
      <3>1. PICK key : key = KeyOf(Req)
        OBVIOUS
      <3>2. IsGone(key)
        BY <1>1, <2>2, <3>1 DEF CallOK, Request, Done
      <3>3. IsGone(key)' /\ key = KeyOf(Req)'
        BY <1>1, <1>2, <1>13, <3>1, <3>2, GoneOn DEF KeyOf, Req
      <3> QED BY <3>3
    <2> QED BY <1>2, <2>1, <2>2
  <1> QED BY <1>2, <1>3, <1>13, <1>14, ServerStep

-----------------------------------------------------------------------------
(***************************************************************************)
(* The user's calls.                                                       *)
(***************************************************************************)
\* A step of the call alone.
LEMMA CallStep ==
  ASSUME IInv, UNCHANGED <<approx, srvVars, addonVars, kodiVars, wishes>>, calls' \in 0..MaxCalls, events' = events,
         CallOK'
  PROVE  IInv'
  <1>1. /\ Types /\ Fresh /\ Told /\ RecsAgree /\ RulesAgree /\ Levels /\ Started
        /\ SameKind /\ Ints /\ Items /\ Current /\ WishesMet
    BY DEF IInv
  <1>2. /\ approx' = approx /\ srvRecs' = srvRecs /\ srvRules' = srvRules /\ made' = made /\ queue' = queue
        /\ level' = level /\ recs' = recs /\ rules' = rules /\ intId' = intId /\ list' = list /\ told' = told
        /\ wishes' = wishes
    BY DEF srvVars, addonVars, kodiVars
  <1>3. Types'
    BY <1>1, <1>2 DEF Types
  <1>4. TopRec' = TopRec /\ Numbered' /\ Fresh' /\ Told'
    BY <1>1, <1>2 DEF TopRec, Fresh, Numbered, Told
  <1>5. RecsAgree' /\ RulesAgree' /\ Levels'
    BY <1>1, <1>2 DEF RecsAgree, RulesAgree, Levels, Kept, KeptRule, StateOf, Ignored
  <1>6. Started' /\ SameKind' /\ Ints'
    BY <1>1, <1>2 DEF Started, StartedFrom, SameKind, Ints
  <1>7. Items'
    BY <1>1, <1>2, <1>4 DEF Items, TimerItem, RecordingItem, RuleItem, RecItem, StartedFrom
  <1>8. Current'
    BY <1>1, <1>2, SMTT(30) DEF Current, CreateTimer, RuleTimer, Recording, IntIdOf
  <1>9. WishesMet'
    BY <1>1, <1>2, <1>4 DEF WishesMet, WishMet, RuleMeets
  <1> QED BY <1>3, <1>4, <1>5, <1>6, <1>7, <1>8, <1>9 DEF IInv

\* The fields of the call.
LEMMA Asked ==
  ASSUME NEW op, NEW item, NEW req, NEW locks, Asks(op, item, req, locks)
  PROVE  /\ call'.at = "asked" /\ call'.op = op /\ call'.item = item /\ call'.req = req /\ CallForm'
  <1>1. call' = [at |-> "asked", op |-> op, item |-> item, req |-> req, locks |-> locks, answer |-> "none"]
    BY DEF Asks
  <1>2. \A c : c = [at |-> "asked", op |-> op, item |-> item, req |-> req, locks |-> locks, answer |-> "none"] =>
          /\ c.at = "asked" /\ c.op = op /\ c.item = item /\ c.req = req /\ c.locks = locks /\ c.answer = "none"
    OBVIOUS
  <1> QED BY <1>1, <1>2 DEF CallForm

\* A request is sent.
LEMMA AsksOn ==
  ASSUME IInv, Calling, Calls, NEW op, NEW item, NEW req, NEW locks, Asks(op, item, req, locks),
         Form', Means', Aims'
  PROVE  IInv'
  <1>1. Types /\ CallOK
    BY DEF IInv
  <1>2. calls' \in 0..MaxCalls
    <2>1. calls < MaxCalls /\ calls' = calls + 1
      BY DEF Calling
    <2>2. calls \in 0..MaxCalls /\ MaxCalls \in Nat
      BY <1>1, Tops DEF Types
    <2> QED BY <2>1, <2>2
  <1>3. call'.at = "asked" /\ CallForm'
    BY Asked
  <1>4. Done'
    BY <1>3 DEF Done
  <1>5. intId' <= FirstId => IsGone(said)'
    BY <1>1 DEF Calls, CallOK, IsGone, GoneRec, GoneRule, TopRec, srvVars, addonVars
  <1>6. CallOK'
    BY <1>3, <1>4, <1>5 DEF CallOK, Request
  <1> QED BY <1>2, <1>6, CallStep DEF Calls

\* The lifetimes and times that a user chooses.
LEMMA WhatUsersChoose ==
  /\ Lifetimes \subseteq RecLifes /\ Lifetimes \subseteq RuleLifes
  /\ \A slot \in Slots : slot[1] \in Times /\ slot[2] \in Times /\ slot = <<slot[1], slot[2]>>
  /\ \A a, b : AnyTime \notin Range(<<a, b>>) => a # AnyTime /\ b # AnyTime
  <1>1. Lifetimes \subseteq (-3..(Wide \div 2 - 3)) \ {0} /\ Slots \subseteq (Minutes \cup {AnyTime}) \X (Minutes \cup {AnyTime})
    BY TimersAssumption
  <1>2. (-3..(Wide \div 2 - 3)) \ {0} \subseteq RecLifes /\ (-3..(Wide \div 2 - 3)) \ {0} \subseteq RuleLifes
    <2>1. Space - 1 = Wide \div 2 - 3 /\ -(Forever + 1) <= -3 /\ Space \in Int /\ Forever \in Int
      BY Widths DEF Space, Forever
    <2> QED BY <2>1 DEF RecLifes, RuleLifes
  <1>3. Minutes \cup {AnyTime} \subseteq Times
    BY WindowsAssumption DEF Minutes, Times
  <1>4. \A slot \in Slots : slot[1] \in Times /\ slot[2] \in Times /\ slot = <<slot[1], slot[2]>>
    BY <1>1, <1>3
  <1>5. ASSUME NEW a, NEW b, AnyTime \notin Range(<<a, b>>)
        PROVE  a # AnyTime /\ b # AnyTime
    <2>1. 1 \in DOMAIN <<a, b>> /\ 2 \in DOMAIN <<a, b>> /\ <<a, b>>[1] = a /\ <<a, b>>[2] = b
      OBVIOUS
    <2> QED BY <1>5, <2>1 DEF Range
  <1> QED BY <1>1, <1>2, <1>4, <1>5

\* A request for a new timer or a new rule.
LEMMA AddTimerOn ==
  ASSUME IInv, AddTimer
  PROVE  IInv'
  <1>1. Calling /\ Calls /\ approx' = approx
    BY DEF AddTimer, Calls
  <1>2. PICK type \in Kinds \cup {"manual"}, life \in Lifetimes, slot \in Slots :
          /\ type = "timerec" => AnyTime \notin Range(slot)
          /\ Asks("add", None,
               [op |-> IF type = "manual" THEN "addDvrEntry" ELSE "addRule", id |-> 0, enabled |-> TRUE,
                life |-> Removal(type, life), asked |-> life, slot |-> slot, kind |-> type,
                window |-> Window(type, slot)], FALSE)
    BY DEF AddTimer
  <1> DEFINE op == IF type = "manual" THEN "addDvrEntry" ELSE "addRule"
             w == Window(type, slot)
             removal == Removal(type, life)
             req == [op |-> op, id |-> 0, enabled |-> TRUE, life |-> removal, asked |-> life, slot |-> slot,
                     kind |-> type, window |-> w]
  <1>3. /\ req.op = op /\ req.enabled = TRUE /\ req.life = removal /\ req.asked = life /\ req.slot = slot
        /\ req.kind = type /\ req.window = w
    OBVIOUS
  <1>4. Asks("add", None, req, FALSE)
    BY <1>2
  <1>5. /\ type = "manual" => op = "addDvrEntry" /\ removal = KodiToTvh(life)
        /\ type # "manual" => op = "addRule" /\ type \in Kinds /\ removal = Unsigned(life)
    BY DEF Kinds, Removal
  <1> HIDE DEF req, op, w, removal
  <1>6. call'.at = "asked" /\ call'.op = "add" /\ Req' = req
    BY <1>4, Asked DEF Req
  <1>7. life \in RecLifes /\ life \in RuleLifes
    BY WhatUsersChoose
  <1>8. Form'
    <2>1. type = "manual" => removal \in 0..Forever
      BY <1>5, <1>7, RecLifeReturns
    <2>2. type # "manual" => removal \in 0..(Wide - 1)
      BY <1>5, <1>7, RuleLifeReturns
    <2>3. op \in {"addDvrEntry", "addRule"} /\ (op = "addDvrEntry" <=> type = "manual")
      BY <1>5
    <2> QED BY <1>3, <1>5, <1>6, <2>1, <2>2, <2>3 DEF Form, OnRule, OnRec
  <1>9. Means'
    <2>1. op = "addDvrEntry" => TvhToKodi(removal) = life
      BY <1>5, <1>7, RecLifeReturns
    <2>2. op = "addRule" => RuleMeets(RuleEntry(type, TRUE, removal, <<Normal(w[1]), Normal(w[2])>>), life, slot)
      <3>1. SUFFICES ASSUME op = "addRule"
                     PROVE  RuleMeets(RuleEntry(type, TRUE, removal, <<Normal(w[1]), Normal(w[2])>>), life, slot)
        OBVIOUS
      <3>2. type \in Kinds /\ removal = Unsigned(life)
        BY <1>5, <3>1
      <3>3. slot[1] \in Times /\ slot[2] \in Times /\ (type = "timerec" => slot[1] # AnyTime /\ slot[2] # AnyTime)
        BY <1>2, WhatUsersChoose
      <3> QED BY <1>7, <3>2, <3>3, WindowMeets DEF w
    <2>3. op = "addRule" => RuleMeets(Sent(type), life, slot)'
      BY <1>1, <1>3, <1>6, <2>2 DEF Sent, RuleMeets
    <2>4. op \in {"addDvrEntry", "addRule"}
      BY <1>5
    <2>5. Req'.op = "addRule" => RuleMeets(Sent(Req.kind), Req.asked, Req.slot)'
      BY <1>3, <1>6, <2>3 DEF RuleMeets, Sent
    <2> QED BY <1>3, <1>6, <2>1, <2>4, <2>5 DEF Means
  <1>10. Aims'
    <2>1. op \in {"addDvrEntry", "addRule"}
      BY <1>5
    <2> QED BY <1>3, <1>6, <2>1 DEF Aims, OnRec
  <1> QED BY <1>1, <1>4, <1>8, <1>9, <1>10, AsksOn

\* What a user picks from the list.
LEMMA Picked ==
  ASSUME IInv, NEW i \in list
  PROVE  /\ i.what = "timer" => TimerItem(i) \/ RuleItem(i)
         /\ i.what = "recording" => RecordingItem(i)
         /\ TimerItem(i) => i.type \notin Kinds /\ i.idx \in RecIds /\ i.idx <= TopRec /\ i.key = <<"rec", i.idx>>
         /\ RecordingItem(i) => i.idx \in RecIds /\ i.idx <= TopRec /\ i.key = <<"rec", i.idx>>
         /\ RuleItem(i) => i.type \in Kinds /\ i.idx <= intId /\ i.idx \in Nat
         /\ i.what = "timer" /\ i.type \in {"manual", "child"} => TimerItem(i)
         /\ i.what = "timer" /\ i.type \in Kinds => RuleItem(i)
  <1>1. TimerItem(i) \/ RecordingItem(i) \/ RuleItem(i)
    BY DEF IInv, Items
  <1>2. TimerItem(i) => i.what = "timer" /\ i.type \in {"manual", "child"}
    BY DEF TimerItem
  <1>3. RecordingItem(i) => i.what = "recording"
    BY DEF RecordingItem
  <1>4. RuleItem(i) => i.what = "timer" /\ i.type \in Kinds /\ i.idx \in 1..intId
    BY DEF RuleItem
  <1>5. TimerItem(i) \/ RecordingItem(i) => i.idx \in RecIds /\ i.idx <= TopRec /\ i.key = <<"rec", i.idx>>
    BY DEF TimerItem, RecordingItem, RecItem
  <1>6. intId \in Nat
    BY DEF IInv, Types
  <1> QED BY <1>1, <1>2, <1>3, <1>4, <1>5, <1>6 DEF Kinds

\* The rule that an index names is the one that was picked.
LEMMA PickedRule ==
  ASSUME IInv, NEW i \in list, i.what = "timer", i.type \in Kinds, NEW sid \in StringIdsOf(i.type, i.idx)
  PROVE  /\ i.key = <<"rule", sid>> /\ sid \in RuleIds /\ sid <= made.rules
         /\ sid \in DOMAIN srvRules => srvRules[sid].kind = i.type
  <1>1. sid \in DOMAIN rules /\ rules[sid].int = i.idx /\ rules[sid].kind = i.type
    BY DEF StringIdsOf
  <1>2. RuleItem(i)
    BY Picked
  <1>3. i.key = <<"rule", sid>>
    BY <1>1, <1>2 DEF RuleItem
  <1>4. sid \in RuleIds /\ sid <= made.rules /\ (sid \in DOMAIN srvRules => rules[sid].kind = srvRules[sid].kind)
    BY <1>1 DEF IInv, Types, SameKind
  <1> QED BY <1>1, <1>3, <1>4

\* No rule has the number of a recording.
LEMMA NoMixUp ==
  ASSUME IInv, intId <= FirstId, NEW i \in list, i.idx \in DOMAIN recs
  PROVE  ~RuleItem(i)
  <1>1. SUFFICES ASSUME RuleItem(i) PROVE FALSE
    OBVIOUS
  <1>2. i.idx <= intId /\ i.idx \in Nat /\ intId \in Nat
    BY <1>1, Picked DEF IInv, Types
  <1>3. i.idx \in RecIds /\ FirstId \in Nat /\ MaxRecs \in Nat
    BY Tops DEF IInv, Types
  <1> QED BY <1>2, <1>3 DEF RecIds

\* DeleteTimer: the entries may be others than when the list was made, but not under the same index.
LEMMA DeleteTimerOn ==
  ASSUME IInv, DeleteTimer
  PROVE  IInv'
  <1>1. Calling /\ Calls /\ approx' = approx
    BY DEF DeleteTimer, Calls
  <1>2. /\ intId' = intId /\ made' = made /\ srvRecs' = srvRecs /\ TopRec' = TopRec
    BY <1>1 DEF Calls, srvVars, addonVars, TopRec
  <1>3. PICK i \in list :
          /\ i.what = "timer"
          /\ LET runs == i.idx \in DOMAIN recs /\ IsRecording(recs[i.idx]) IN
             \/ runs /\ Asks("delete", i, Plain("stopDvrEntry", i.idx), TRUE)
             \/ ~runs /\ i.type \notin Kinds /\ Asks("delete", i, Plain("cancelDvrEntry", i.idx), FALSE)
             \/ /\ ~runs /\ i.type \in Kinds
                /\ \E sid \in StringIdsOf(i.type, i.idx) : Asks("delete", i, Plain("deleteRule", sid), FALSE)
    BY DEF DeleteTimer
  <1>4. ASSUME NEW op, NEW id, NEW locks, Asks("delete", i, Plain(op, id), locks)
        PROVE  /\ call'.op = "delete" /\ call'.item = i /\ Req'.op = op /\ Req'.id = id
               /\ "enabled" \notin DOMAIN Req'
    <2>1. call'.op = "delete" /\ call'.item = i /\ Req' = Plain(op, id)
      BY <1>4, Asked DEF Req
    <2>2. Plain(op, id).op = op /\ Plain(op, id).id = id /\ "enabled" \notin DOMAIN Plain(op, id)
      BY DEF Plain
    <2> QED BY <2>1, <2>2
  <1>5. CASE i.idx \in DOMAIN recs /\ IsRecording(recs[i.idx]) /\ Asks("delete", i, Plain("stopDvrEntry", i.idx), TRUE)
    <2> DEFINE id == i.idx
    <2>1. /\ call'.op = "delete" /\ call'.item = i /\ Req'.op = "stopDvrEntry" /\ Req'.id = id
          /\ "enabled" \notin DOMAIN Req'
      BY <1>4, <1>5
    <2>2. id \in RecIds /\ id <= TopRec
      BY <1>5 DEF IInv, Types, Fresh
    <2>3. intId <= FirstId => i.key = <<"rec", id>>
      BY <1>3, <1>5, Picked, NoMixUp
    <2>4. id \in DOMAIN srvRecs => srvRecs[id].state \notin Unstarted
      BY <1>5 DEF IInv, Started, StartedFrom, IsRecording, Unstarted
    <2> HIDE DEF id
    <2>5. Form'
      BY <1>2, <2>1, <2>2, <2>3 DEF Form, KeyOf, OnRec, OnRule
    <2>6. Means'
      BY <2>1 DEF Means
    <2>7. Aims'
      BY <1>2, <2>1, <2>2, <2>4 DEF Aims
    <2> QED BY <1>1, <1>5, <2>5, <2>6, <2>7, AsksOn
  <1>6. CASE /\ ~(i.idx \in DOMAIN recs /\ IsRecording(recs[i.idx])) /\ i.type \notin Kinds
             /\ Asks("delete", i, Plain("cancelDvrEntry", i.idx), FALSE)
    <2> DEFINE id == i.idx
    <2>1. /\ call'.op = "delete" /\ call'.item = i /\ Req'.op = "cancelDvrEntry" /\ Req'.id = id
          /\ "enabled" \notin DOMAIN Req'
      BY <1>4, <1>6
    <2>2. TimerItem(i) /\ id \in RecIds /\ id <= TopRec /\ i.key = <<"rec", id>>
      BY <1>3, <1>6, Picked
    <2>3. i.state = "recording" => id \notin DOMAIN srvRecs
      <3>1. SUFFICES ASSUME i.state = "recording", id \in DOMAIN recs PROVE FALSE
        BY <2>2 DEF TimerItem
      <3>2. recs[id].state \notin Unstarted /\ recs[id] \in KeptRecs
        BY <2>2, <3>1 DEF TimerItem, IInv, Types
      <3>3. recs[id].state \in States \cup {"aborted", "conflict", "error"}
        BY <3>2 DEF KeptRecs
      <3>4. IsRecording(recs[id])
        BY <3>2, <3>3 DEF IsRecording, States, Unstarted
      <3> QED BY <1>6, <3>1, <3>4
    <2> HIDE DEF id
    <2>4. Form'
      BY <1>2, <2>1, <2>2 DEF Form, KeyOf, OnRec, OnRule
    <2>5. Means'
      BY <2>1 DEF Means
    <2>6. Aims'
      BY <1>2, <2>1, <2>2, <2>3 DEF Aims
    <2> QED BY <1>1, <1>6, <2>4, <2>5, <2>6, AsksOn
  <1>7. CASE i.type \in Kinds /\ \E sid \in StringIdsOf(i.type, i.idx) : Asks("delete", i, Plain("deleteRule", sid), FALSE)
    <2>1. PICK sid \in StringIdsOf(i.type, i.idx) : Asks("delete", i, Plain("deleteRule", sid), FALSE)
      BY <1>7
    <2>2. /\ call'.op = "delete" /\ call'.item = i /\ Req'.op = "deleteRule" /\ Req'.id = sid
          /\ "enabled" \notin DOMAIN Req'
      BY <1>4, <2>1
    <2>3. i.key = <<"rule", sid>> /\ sid \in RuleIds
      BY <1>3, <1>7, <2>1, PickedRule
    <2>4. Form'
      BY <1>2, <2>2, <2>3 DEF Form, KeyOf, OnRec, OnRule
    <2>5. Means'
      BY <2>2 DEF Means
    <2>6. Aims'
      BY <2>2 DEF Aims, OnRec
    <2> QED BY <1>1, <2>1, <2>4, <2>5, <2>6, AsksOn
  <1> QED BY <1>3, <1>5, <1>6, <1>7

\* DeleteRecording.
LEMMA DeleteRecordingOn ==
  ASSUME IInv, DeleteRecording
  PROVE  IInv'
  <1>1. Calling /\ Calls
    BY DEF DeleteRecording
  <1>2. intId' = intId /\ TopRec' = TopRec
    BY <1>1 DEF Calls, srvVars, addonVars, TopRec
  <1>3. PICK i \in list : i.what = "recording" /\ Asks("deleteRecording", i, Plain("deleteDvrEntry", i.idx), FALSE)
    BY DEF DeleteRecording
  <1>4. /\ call'.op = "deleteRecording" /\ call'.item = i /\ Req'.op = "deleteDvrEntry" /\ Req'.id = i.idx
        /\ "enabled" \notin DOMAIN Req'
    <2>1. call'.op = "deleteRecording" /\ call'.item = i /\ Req' = Plain("deleteDvrEntry", i.idx)
      BY <1>3, Asked DEF Req
    <2> QED BY <2>1 DEF Plain
  <1>5. i.idx \in RecIds /\ i.idx <= TopRec /\ i.key = <<"rec", i.idx>>
    BY <1>3, Picked
  <1>6. Form'
    BY <1>2, <1>4, <1>5 DEF Form, KeyOf, OnRec, OnRule
  <1>7. Means'
    BY <1>4 DEF Means
  <1>8. Aims'
    BY <1>2, <1>4, <1>5 DEF Aims
  <1> QED BY <1>1, <1>3, <1>6, <1>7, <1>8, AsksOn

\* SetRecordingLifetime.
LEMMA SetRecordingLifetimeOn ==
  ASSUME IInv, SetRecordingLifetime
  PROVE  IInv'
  <1>1. Calling /\ Calls
    BY DEF SetRecordingLifetime
  <1>2. intId' = intId /\ TopRec' = TopRec
    BY <1>1 DEF Calls, srvVars, addonVars, TopRec
  <1>3. PICK i \in list, life \in Lifetimes :
          /\ i.what = "recording"
          /\ Asks("lifetime", i, [op |-> "updateDvrEntry", id |-> i.idx, life |-> KodiToTvh(life), asked |-> life], FALSE)
    BY DEF SetRecordingLifetime
  <1>4. /\ call'.op = "lifetime" /\ call'.item = i /\ Req'.op = "updateDvrEntry" /\ Req'.id = i.idx
        /\ Req'.life = KodiToTvh(life) /\ Req'.asked = life /\ "enabled" \notin DOMAIN Req'
    <2>1. /\ call'.op = "lifetime" /\ call'.item = i
          /\ Req' = [op |-> "updateDvrEntry", id |-> i.idx, life |-> KodiToTvh(life), asked |-> life]
      BY <1>3, Asked DEF Req
    <2> QED BY <2>1
  <1>5. i.idx \in RecIds /\ i.idx <= TopRec /\ i.key = <<"rec", i.idx>>
    BY <1>3, Picked
  <1>6. KodiToTvh(life) \in 0..Forever /\ TvhToKodi(KodiToTvh(life)) = life
    BY WhatUsersChoose, RecLifeReturns
  <1>7. Form'
    BY <1>2, <1>4, <1>5, <1>6 DEF Form, KeyOf, OnRec, OnRule
  <1>8. Means'
    BY <1>4, <1>6 DEF Means
  <1>9. Aims'
    BY <1>2, <1>4, <1>5 DEF Aims
  <1> QED BY <1>1, <1>3, <1>7, <1>8, <1>9, AsksOn

\* UpdateTimer.
LEMMA UpdateTimerOn ==
  ASSUME IInv, UpdateTimer
  PROVE  IInv'
  <1>1. Calling /\ Calls /\ approx' = approx
    BY DEF UpdateTimer, Calls
  <1>2. intId' = intId /\ TopRec' = TopRec /\ made' = made /\ srvRules' = srvRules
    BY <1>1 DEF Calls, srvVars, addonVars, TopRec
  <1>0. PICK i \in list : i.what = "timer" /\
          \E life \in Lifetimes \cup {i.life}, toggle \in BOOLEAN, slot \in Slots \cup {<<i.start, i.stop>>} :
            UpdateAsked(i, life, toggle, slot)
    BY DEF UpdateTimer
  <1>3. PICK life \in Lifetimes \cup {i.life}, toggle \in BOOLEAN, slot \in Slots \cup {<<i.start, i.stop>>} :
          UpdateAsked(i, life, toggle, slot)
    BY <1>0
  <1>4. PICK enabled \in BOOLEAN : enabled = ((i.state = "disabled") = toggle)
    OBVIOUS
  <1> DEFINE removal == Removal(i.type, life)
             enable == [op |-> "enableDvrEntry", id |-> i.idx, enabled |-> enabled]
             full == [op |-> "updateDvrEntry", id |-> i.idx, enabled |-> enabled, life |-> removal, asked |-> life]
             w == Window(i.type, slot)
             rule(sid) == [op |-> "updateRule", id |-> sid, enabled |-> enabled, slot |-> slot,
                           life |-> removal, asked |-> life, window |-> w]
  <1>5. \/ i.type = "child" /\ Asks("update", i, enable, TRUE)
        \/ i.type \in {"manual", "child"} /\ Asks("update", i, full, FALSE)
        \/ i.type \in Kinds /\ \E sid \in StringIdsOf(i.type, i.idx) : Asks("update", i, rule(sid), FALSE)
    BY <1>3, <1>4 DEF UpdateAsked
  <1>6. i.type \in {"manual", "child"} =>
          /\ TimerItem(i) /\ i.idx \in RecIds /\ i.idx <= TopRec /\ i.key = <<"rec", i.idx>>
    BY <1>0, Picked
  <1>7. CASE i.type = "child" /\ Asks("update", i, enable, TRUE)
    <2>1. /\ call'.op = "update" /\ call'.item = i /\ Req'.op = "enableDvrEntry" /\ Req'.id = i.idx
          /\ Req'.enabled = enabled
      <3>1. call'.op = "update" /\ call'.item = i /\ Req' = enable
        BY <1>7, Asked DEF Req
      <3> QED BY <3>1
    <2>2. Form'
      BY <1>2, <1>6, <1>7, <2>1 DEF Form, KeyOf, OnRec, OnRule
    <2>3. Means'
      BY <2>1 DEF Means
    <2>4. Aims'
      BY <1>2, <1>6, <1>7, <2>1 DEF Aims
    <2> QED BY <1>1, <1>7, <2>2, <2>3, <2>4, AsksOn
  <1>8. CASE i.type \in {"manual", "child"} /\ Asks("update", i, full, FALSE)
    <2>1. /\ call'.op = "update" /\ call'.item = i /\ Req'.op = "updateDvrEntry" /\ Req'.id = i.idx
          /\ Req'.enabled = enabled /\ Req'.life = removal /\ Req'.asked = life
      <3>1. call'.op = "update" /\ call'.item = i /\ Req' = full
        BY <1>8, Asked DEF Req
      <3> QED BY <3>1
    <2>2. life \in RecLifes /\ removal = KodiToTvh(life)
      BY <1>6, <1>8, WhatUsersChoose DEF TimerItem, RecItem, Removal
    <2>3. removal \in 0..Forever /\ TvhToKodi(removal) = life
      BY <2>2, RecLifeReturns
    <2> HIDE DEF removal
    <2>4. Form'
      BY <1>2, <1>6, <1>8, <2>1, <2>3 DEF Form, KeyOf, OnRec, OnRule
    <2>5. Means'
      BY <2>1, <2>3 DEF Means
    <2>6. Aims'
      BY <1>2, <1>6, <1>8, <2>1 DEF Aims
    <2> QED BY <1>1, <1>8, <2>4, <2>5, <2>6, AsksOn
  <1>9. CASE i.type \in Kinds /\ \E sid \in StringIdsOf(i.type, i.idx) : Asks("update", i, rule(sid), FALSE)
    <2>1. PICK sid \in StringIdsOf(i.type, i.idx) : Asks("update", i, rule(sid), FALSE)
      BY <1>9
    <2>2. /\ call'.op = "update" /\ call'.item = i /\ Req'.op = "updateRule" /\ Req'.id = sid
          /\ Req'.enabled = enabled /\ Req'.life = removal /\ Req'.asked = life /\ Req'.slot = slot /\ Req'.window = w
      <3>1. call'.op = "update" /\ call'.item = i /\ Req' = rule(sid)
        BY <2>1, Asked DEF Req
      <3> QED BY <3>1
    <2>3. RuleItem(i)
      BY <1>0, <1>9, Picked
    <2>4. life \in RuleLifes /\ removal = Unsigned(life)
      BY <1>9, <2>3, WhatUsersChoose DEF RuleItem, Removal, Kinds
    <2>5. removal \in 0..(Wide - 1)
      BY <2>4, RuleLifeReturns
    <2>6. slot[1] \in Times /\ slot[2] \in Times /\ (i.type = "timerec" => slot[1] # AnyTime /\ slot[2] # AnyTime)
      <3>1. CASE slot \in Slots
        BY <1>3, <3>1, WhatUsersChoose DEF UpdateAsked
      <3>2. CASE slot = <<i.start, i.stop>>
        BY <1>3, <2>3, <3>2, WhatUsersChoose DEF RuleItem, UpdateAsked
      <3> QED BY <3>1, <3>2
    <2>7. RuleMeets(RuleEntry(i.type, TRUE, removal, <<Normal(w[1]), Normal(w[2])>>), life, slot)
      BY <1>9, <2>4, <2>6, WindowMeets
    <2>8. /\ i.key = <<"rule", sid>> /\ sid \in RuleIds /\ sid <= made.rules
          /\ sid \in DOMAIN srvRules => srvRules[sid].kind = i.type
      BY <1>0, <1>9, <2>1, PickedRule
    <2> HIDE DEF removal, w
    <2>9. Form'
      BY <1>2, <2>2, <2>5, <2>8 DEF Form, KeyOf, OnRec, OnRule
    <2>10. Means'
      <3>1. RuleMeets(Sent(i.type), life, slot)'
        BY <1>1, <2>2, <2>7 DEF Sent, RuleMeets
      <3>2. sid \in DOMAIN srvRules' => RuleMeets(Sent(srvRules[sid].kind), life, slot)'
        BY <1>2, <2>8, <3>1 DEF Sent, RuleMeets
      <3>3. Req'.op = "updateRule" =>
              /\ Req'.id <= made'.rules
              /\ Req'.id \in DOMAIN srvRules' => RuleMeets(Sent(srvRules[Req.id].kind), Req.asked, Req.slot)'
        BY <1>2, <2>2, <2>8, <3>2 DEF RuleMeets, Sent
      <3> QED BY <2>2, <3>3 DEF Means
    <2>11. Aims'
      BY <2>2 DEF Aims, OnRec
    <2> QED BY <1>1, <2>1, <2>9, <2>10, <2>11, AsksOn
  <1> QED BY <1>5, <1>7, <1>8, <1>9

\* The answer is handed to the user.
LEMMA ReturnsOn ==
  ASSUME IInv, Returns
  PROVE  IInv'
  <1>1. /\ call.at = "answered" /\ call' = Idle /\ UNCHANGED <<approx, srvVars, addonVars, kodiVars, wishes>>
        /\ calls' = calls /\ events' = events
        /\ said' = IF call.op = "delete" /\ Succeeds(call.answer, Req.op) THEN call.item.key ELSE said
    BY DEF Returns
  <1>2. intId' = intId /\ srvRecs' = srvRecs /\ srvRules' = srvRules /\ made' = made
    BY <1>1 DEF srvVars, addonVars
  <1>3. CallForm' /\ call'.at = "idle"
    <2>1. \A c : c = [at |-> "idle", op |-> "none", item |-> None, req |-> <<>>, locks |-> FALSE, answer |-> "none"] =>
            /\ c.at = "idle" /\ c.op = "none" /\ c.item = None /\ c.req = <<>> /\ c.locks = FALSE /\ c.answer = "none"
      OBVIOUS
    <2> QED BY <1>1, <2>1 DEF CallForm, Idle
  <1>4. intId <= FirstId => IsGone(said')
    <2>1. SUFFICES ASSUME intId <= FirstId, call.op = "delete", Succeeds(call.answer, Req.op)
                   PROVE  IsGone(call.item.key)
      BY <1>1 DEF IInv, CallOK
    <2>2. Form /\ Done
      BY <1>1 DEF IInv, CallOK, Request
    <2>3. call.answer \in {"success", "malformed"}
      BY <2>1 DEF Succeeds
    <2>4. call.item.key = KeyOf(Req)
      BY <2>1, <2>2 DEF Form
    <2>5. IsGone(KeyOf(Req))
      BY <1>1, <2>1, <2>2, <2>3 DEF Done
    <2> QED BY <2>4, <2>5
  <1>5. intId' <= FirstId => IsGone(said)'
    <2>1. PICK key : key = said'
      OBVIOUS
    <2>2. intId <= FirstId => IsGone(key)
      BY <1>4, <2>1
    <2> QED BY <1>2, <2>1, <2>2 DEF IsGone, GoneRec, GoneRule, TopRec
  <1>6. CallOK'
    BY <1>3, <1>5 DEF CallOK
  <1>7. calls' \in 0..MaxCalls
    BY <1>1 DEF IInv, Types
  <1> QED BY <1>1, <1>6, <1>7, CallStep

-----------------------------------------------------------------------------
(***************************************************************************)
(* What the Process thread does with a message.                            *)
(***************************************************************************)
\* The first message is applied to what it is about, unless that is a duplicate,
\* and to nothing else; what has been flagged before may be.
Skips(m) == Gives(m) /\ m[1] = "dvrEntry" /\ Ignored(m[3])
Handled ==
  /\ queue # <<>> /\ queue' = Tail(queue)
  /\ UNCHANGED <<approx, srvRecs, srvRules, made, list, call, said, wishes, calls, events>>
  /\ told' \in BOOLEAN /\ level' \in {"init", "dvr", "done"} /\ intId' \in Nat /\ intId' >= intId
  /\ recs' = [id \in DOMAIN recs' |-> recs'[id]] /\ rules' = [sid \in DOMAIN rules' |-> rules'[sid]]
  /\ \A id : ~About(queue[1], RecKinds, id) =>
       /\ id \in DOMAIN recs' <=> id \in DOMAIN recs
       /\ id \in DOMAIN recs => recs'[id] = recs[id]
  /\ \A id : About(queue[1], RecKinds, id) =>
       /\ Gives(queue[1]) /\ ~Skips(queue[1]) => id \in DOMAIN recs' /\ recs'[id] = Kept(queue[1][3])
       /\ Skips(queue[1]) =>
            /\ id \in DOMAIN recs' <=> id \in DOMAIN recs
            /\ id \in DOMAIN recs => recs'[id] = recs[id]
       /\ ~Gives(queue[1]) => id \notin DOMAIN recs'
  /\ \A sid : ~About(queue[1], RuleKinds, sid) =>
       /\ sid \in DOMAIN rules' => sid \in DOMAIN rules /\ \E d \in BOOLEAN : rules'[sid] = [rules[sid] EXCEPT !.dirty = d]
       /\ ChannelFirst => /\ sid \in DOMAIN rules' <=> sid \in DOMAIN rules
                          /\ sid \in DOMAIN rules => rules'[sid] = rules[sid]
  /\ \A sid : About(queue[1], RuleKinds, sid) =>
       /\ Gives(queue[1]) =>
            /\ sid \in DOMAIN rules'
            /\ \E int \in Nat \ {0} :
                 /\ rules'[sid] = Rule(int, queue[1][3])
                 /\ \/ sid \in DOMAIN rules /\ int = rules[sid].int
                    \/ int = intId + 1 /\ int = intId'
       /\ ~Gives(queue[1]) => sid \notin DOMAIN rules'
  /\ level' = "init" => level = "init" /\ queue[1][1] # "channelAdd" /\ DOMAIN recs' = {}
  /\ ~told' /\ level' = "done" => ~told /\ level = "done" /\ recs' = recs /\ rules' = rules

\* A message keeps the types, ...
LEMMA HandledTypes ==
  ASSUME IInv, Handled
  PROVE  Types' /\ TopRec' = TopRec /\ Numbered'
  <1>1. Types /\ queue \in Seq(Messages) /\ queue # <<>> /\ queue[1] \in Messages
    BY InTail DEF IInv, Types, Handled
  <1>2. /\ approx' = approx /\ srvRecs' = srvRecs /\ srvRules' = srvRules /\ made' = made
        /\ calls' = calls /\ events' = events
    BY DEF Handled
  <1>3. queue' \in Seq(Messages)
    BY <1>1, InTail DEF Handled
  <1>4. ASSUME NEW id \in DOMAIN recs' PROVE id \in RecIds /\ recs'[id] \in KeptRecs
    <2>1. CASE ~About(queue[1], RecKinds, id)
      BY <1>1, <1>4, <2>1 DEF Handled, Types
    <2>2. CASE About(queue[1], RecKinds, id) /\ Skips(queue[1])
      BY <1>1, <1>4, <2>2 DEF Handled, Types
    <2>3. CASE About(queue[1], RecKinds, id) /\ ~Skips(queue[1])
      <3>1. id \in RecIds
        BY <1>1, <2>3, MessageFields DEF About
      <3>2. Gives(queue[1]) /\ recs'[id] = Kept(queue[1][3])
        BY <1>4, <2>3 DEF Handled
      <3>3. queue[1][3] \in RecEntries
        BY <1>1, <2>3, <3>2, MessageFields DEF About, Gives, RecKinds
      <3>4. Kept(queue[1][3]) \in KeptRecs
        BY <3>3 DEF Kept, KeptRecs, StateOf, RecEntries, States
      <3> QED BY <3>1, <3>2, <3>4
    <2> QED BY <2>1, <2>2, <2>3
  <1>5. ASSUME NEW sid \in DOMAIN rules' PROVE sid \in RuleIds /\ rules'[sid] \in KeptRules
    <2>1. CASE ~About(queue[1], RuleKinds, sid)
      <3>1. sid \in DOMAIN rules /\ sid \in RuleIds /\ rules[sid] \in KeptRules
        BY <1>1, <1>5, <2>1 DEF Handled, Types
      <3>2. PICK d \in BOOLEAN : rules'[sid] = [rules[sid] EXCEPT !.dirty = d]
        BY <1>5, <2>1 DEF Handled
      <3> QED BY <3>1, <3>2 DEF KeptRules
    <2>2. CASE About(queue[1], RuleKinds, sid)
      <3>1. sid \in RuleIds
        BY <1>1, <2>2, MessageFields DEF About
      <3>2. Gives(queue[1])
        BY <1>5, <2>2 DEF Handled
      <3>3. queue[1][3] \in RuleEntries
        BY <1>1, <2>2, <3>2, MessageFields DEF About, Gives, RuleKinds
      <3>4. PICK int \in Nat \ {0} : rules'[sid] = Rule(int, queue[1][3])
        BY <2>2, <3>2 DEF Handled
      <3> QED BY <3>1, <3>3, <3>4 DEF KeptRules, RuleEntries, Rule
    <2> QED BY <2>1, <2>2
  <1>6. /\ DOMAIN recs' \subseteq RecIds /\ recs' \in [DOMAIN recs' -> KeptRecs]
        /\ DOMAIN rules' \subseteq RuleIds /\ rules' \in [DOMAIN rules' -> KeptRules]
    <2>1. recs' = [id \in DOMAIN recs' |-> recs'[id]] /\ rules' = [sid \in DOMAIN rules' |-> rules'[sid]]
      BY DEF Handled
    <2> QED BY <1>4, <1>5, <2>1
  <1>7. told' \in BOOLEAN /\ level' \in {"init", "dvr", "done"} /\ intId' \in Nat
    BY DEF Handled
  <1>8. Types'
    BY <1>1, <1>2, <1>3, <1>6, <1>7 DEF Types
  <1>9. TopRec' = TopRec /\ Numbered'
    BY <1>2 DEF IInv, Fresh, Numbered, TopRec
  <1> QED BY <1>8, <1>9

\* What the first message says.
LEMMA HandledHead ==
  ASSUME IInv, Handled
  PROVE  /\ \A id : About(queue[1], RecKinds, id) =>
              /\ id \in RecIds /\ id <= TopRec
              /\ Gives(queue[1]) => queue[1][1] = "dvrEntry" /\ queue[1][3] \in RecEntries
              /\ Gives(queue[1]) /\ Silent(queue', RecKinds, id) => id \in DOMAIN srvRecs /\ srvRecs[id] = queue[1][3]
              /\ ~Gives(queue[1]) => Silent(queue', RecKinds, id) /\ id \notin DOMAIN srvRecs
         /\ \A sid : About(queue[1], RuleKinds, sid) =>
              /\ sid \in RuleIds /\ sid <= made.rules
              /\ Gives(queue[1]) => queue[1][1] = "ruleEntry"
              /\ Gives(queue[1]) /\ Silent(queue', RuleKinds, sid) => sid \in DOMAIN srvRules /\ srvRules[sid] = queue[1][3]
              /\ ~Gives(queue[1]) => Silent(queue', RuleKinds, sid) /\ sid \notin DOMAIN srvRules
         /\ Told'
         /\ \A kinds, x : Silent(queue, kinds, x) <=> Silent(queue', kinds, x) /\ ~About(queue[1], kinds, x)
  <1>1. /\ queue \in Seq(Messages) /\ queue # <<>> /\ queue[1] \in Messages /\ queue' = Tail(queue)
        /\ Follows(queue, RecKinds, srvRecs, TopRec) /\ Follows(queue, RuleKinds, srvRules, made.rules)
    BY InTail DEF IInv, Types, Handled, Told
  <1>2. ASSUME NEW id, About(queue[1], RecKinds, id)
        PROVE  /\ id \in RecIds /\ id <= TopRec
               /\ Gives(queue[1]) => queue[1][1] = "dvrEntry" /\ queue[1][3] \in RecEntries
               /\ Gives(queue[1]) /\ Silent(queue', RecKinds, id) => id \in DOMAIN srvRecs /\ srvRecs[id] = queue[1][3]
               /\ ~Gives(queue[1]) => Silent(queue', RecKinds, id) /\ id \notin DOMAIN srvRecs
    <2>1. queue[1][1] \in RecKinds /\ queue[1][2] = id
      BY <1>2 DEF About
    <2>2. Gives(queue[1]) => queue[1][1] = "dvrEntry"
      BY <2>1 DEF Gives, RecKinds
    <2> QED BY <1>1, <2>1, <2>2, HeadFollows, MessageFields
  <1>3. ASSUME NEW sid, About(queue[1], RuleKinds, sid)
        PROVE  /\ sid \in RuleIds /\ sid <= made.rules
               /\ Gives(queue[1]) => queue[1][1] = "ruleEntry"
               /\ Gives(queue[1]) /\ Silent(queue', RuleKinds, sid) => sid \in DOMAIN srvRules /\ srvRules[sid] = queue[1][3]
               /\ ~Gives(queue[1]) => Silent(queue', RuleKinds, sid) /\ sid \notin DOMAIN srvRules
    <2>1. queue[1][1] \in RuleKinds /\ queue[1][2] = sid
      BY <1>3 DEF About
    <2>2. Gives(queue[1]) => queue[1][1] = "ruleEntry"
      BY <2>1 DEF Gives, RuleKinds
    <2> QED BY <1>1, <2>1, <2>2, HeadFollows, MessageFields
  <1>4. Told'
    <2>1. srvRecs' = srvRecs /\ srvRules' = srvRules /\ made'.rules = made.rules
      BY DEF Handled
    <2>2. Follows(Tail(queue), RecKinds, srvRecs, TopRec) /\ Follows(Tail(queue), RuleKinds, srvRules, made.rules)
      BY <1>1, FollowsTail
    <2> QED BY <1>1, <2>1, <2>2, HandledTypes DEF Told
  <1>5. \A kinds, x : Silent(queue, kinds, x) <=> Silent(queue', kinds, x) /\ ~About(queue[1], kinds, x)
    BY <1>1, SilentTail
  <1> QED BY <1>2, <1>3, <1>4, <1>5

\* ... the recordings that the addon has, ...
LEMMA HandledRecs ==
  ASSUME IInv, Handled
  PROVE  Fresh' /\ RecsAgree' /\ Levels'
  <1>1. Fresh'
    <2>1. \A id \in DOMAIN recs' : id <= TopRec
      BY HandledHead DEF Handled, IInv, Fresh
    <2> QED BY <2>1, HandledTypes DEF Fresh
  <1>2. RecsAgree'
    <2>1. SUFFICES ASSUME NEW id \in RecIds, Silent(queue', RecKinds, id)
                   PROVE  /\ id \in DOMAIN recs' => id \in DOMAIN srvRecs
                          /\ id \in DOMAIN srvRecs /\ ~Ignored(srvRecs[id]) =>
                               id \in DOMAIN recs' /\ recs'[id] = Kept(srvRecs[id])
      BY DEF RecsAgree, Handled, Kept, StateOf, Ignored
    <2>2. CASE ~About(queue[1], RecKinds, id)
      <3>1. Silent(queue, RecKinds, id)
        BY <2>1, <2>2, HandledHead
      <3> QED BY <2>2, <3>1 DEF IInv, RecsAgree, Handled
    <2>3. CASE About(queue[1], RecKinds, id)
      <3>1. /\ Gives(queue[1]) => id \in DOMAIN srvRecs /\ srvRecs[id] = queue[1][3]
            /\ ~Gives(queue[1]) => id \notin DOMAIN srvRecs /\ id \notin DOMAIN recs'
        BY <2>1, <2>3, HandledHead DEF Handled
      <3>2. Skips(queue[1]) => Gives(queue[1]) /\ Ignored(queue[1][3])
        BY DEF Skips
      <3>3. Gives(queue[1]) /\ ~Skips(queue[1]) => id \in DOMAIN recs' /\ recs'[id] = Kept(queue[1][3])
        BY <2>3 DEF Handled
      <3> QED BY <3>1, <3>2, <3>3
    <2> QED BY <2>2, <2>3
  <1>3. Levels'
    BY DEF Levels, Handled
  <1> QED BY <1>1, <1>2, <1>3

\* ... its rules, their kinds and their indices, ...
LEMMA HandledRules ==
  ASSUME IInv, Handled
  PROVE  RulesAgree' /\ SameKind' /\ Ints'
  <1>1. Types /\ intId \in Nat /\ RulesAgree /\ SameKind /\ Ints
    BY DEF IInv, Types
  <1>2. RulesAgree'
    <2>1. SUFFICES ASSUME ChannelFirst PROVE RulesAgree'
      BY DEF RulesAgree
    <2>2. ASSUME NEW sid \in RuleIds, Silent(queue', RuleKinds, sid)
          PROVE  /\ sid \in DOMAIN rules' <=> sid \in DOMAIN srvRules
                 /\ sid \in DOMAIN rules' => KeptRule(rules'[sid], srvRules[sid])
      <3>1. CASE ~About(queue[1], RuleKinds, sid)
        <4>1. Silent(queue, RuleKinds, sid)
          BY <2>2, <3>1, HandledHead
        <4> QED BY <1>1, <2>1, <3>1, <4>1 DEF RulesAgree, Handled
      <3>2. CASE About(queue[1], RuleKinds, sid)
        <4>1. /\ ~Gives(queue[1]) => sid \notin DOMAIN rules' /\ sid \notin DOMAIN srvRules
              /\ Gives(queue[1]) => sid \in DOMAIN rules' /\ sid \in DOMAIN srvRules /\ srvRules[sid] = queue[1][3]
          BY <2>2, <3>2, HandledHead DEF Handled
        <4>2. Gives(queue[1]) => \E int : rules'[sid] = Rule(int, queue[1][3])
          BY <3>2 DEF Handled
        <4>3. \A int, e : KeptRule(Rule(int, e), e)
          BY DEF KeptRule, Rule
        <4> QED BY <4>1, <4>2, <4>3
      <3> QED BY <3>1, <3>2
    <2>3. \A sid \in DOMAIN rules' : ~rules'[sid].dirty
      <3>1. SUFFICES ASSUME NEW sid \in DOMAIN rules' PROVE ~rules'[sid].dirty
        OBVIOUS
      <3>2. CASE ~About(queue[1], RuleKinds, sid)
        BY <1>1, <2>1, <3>1, <3>2 DEF RulesAgree, Handled
      <3>3. CASE About(queue[1], RuleKinds, sid)
        <4>1. \E int : rules'[sid] = Rule(int, queue[1][3])
          BY <3>1, <3>3 DEF Handled
        <4>2. \A int, e : ~Rule(int, e).dirty
          BY DEF Rule
        <4> QED BY <4>1, <4>2
      <3> QED BY <3>2, <3>3
    <2>4. level' # "init"
      BY <1>1, <2>1 DEF RulesAgree, Handled
    <2> QED BY <2>2, <2>3, <2>4 DEF RulesAgree, KeptRule, Handled
  <1>3. ASSUME NEW sid \in DOMAIN rules'
        PROVE  /\ sid <= made.rules
               /\ sid \in DOMAIN srvRules => rules'[sid].kind = srvRules[sid].kind
               /\ \/ sid \in DOMAIN rules /\ rules'[sid].int = rules[sid].int
                  \/ rules'[sid].int = intId + 1 /\ intId' = intId + 1 /\ About(queue[1], RuleKinds, sid)
    <2>1. CASE ~About(queue[1], RuleKinds, sid)
      <3>1. sid \in DOMAIN rules /\ \E d \in BOOLEAN : rules'[sid] = [rules[sid] EXCEPT !.dirty = d]
        BY <1>3, <2>1 DEF Handled
      <3>2. rules[sid] \in KeptRules
        BY <1>1, <3>1 DEF Types
      <3>3. rules'[sid].int = rules[sid].int /\ rules'[sid].kind = rules[sid].kind
        BY <3>1, <3>2 DEF KeptRules
      <3> QED BY <1>1, <3>1, <3>3 DEF SameKind
    <2>2. CASE About(queue[1], RuleKinds, sid)
      <3>1. Gives(queue[1])
        BY <1>3, <2>2 DEF Handled
      <3>2. PICK int \in Nat \ {0} :
               /\ rules'[sid] = Rule(int, queue[1][3])
               /\ \/ sid \in DOMAIN rules /\ int = rules[sid].int
                  \/ int = intId + 1 /\ int = intId'
        BY <2>2, <3>1 DEF Handled
      <3>3. sid <= made.rules /\ queue[1][1] = "ruleEntry"
        BY <2>2, <3>1, HandledHead
      <3>4. sid \in DOMAIN srvRules => queue[1][3].kind = srvRules[sid].kind
        <4>1. 1 \in 1..Len(queue) /\ queue[1][2] = sid
          BY <2>2, InTail DEF About, Handled, IInv, Types
        <4> QED BY <1>1, <3>3, <4>1 DEF SameKind
      <3>5. rules'[sid].int = int /\ rules'[sid].kind = queue[1][3].kind
        BY <3>2 DEF Rule
      <3> QED BY <2>2, <3>2, <3>3, <3>4, <3>5
    <2> QED BY <2>1, <2>2
  <1>4. Ints'
    <2>1. \A sid \in DOMAIN rules' : rules'[sid].int <= intId'
      <3>1. \A sid \in DOMAIN rules : rules[sid].int \in Nat /\ rules[sid].int <= intId
        BY <1>1 DEF Ints, Types, KeptRules
      <3>2. intId' \in Nat /\ intId' >= intId
        BY DEF Handled
      <3> QED BY <1>1, <1>3, <3>1, <3>2
    <2>2. ASSUME NEW s \in DOMAIN rules', NEW t \in DOMAIN rules', rules'[s].int = rules'[t].int
          PROVE  s = t
      <3>1. \A sid \in DOMAIN rules : rules[sid].int \in Nat /\ rules[sid].int <= intId
        BY <1>1 DEF Ints, Types, KeptRules
      <3>2. CASE s \in DOMAIN rules /\ rules'[s].int = rules[s].int /\ t \in DOMAIN rules /\ rules'[t].int = rules[t].int
        BY <1>1, <2>2, <3>2 DEF Ints
      <3>3. CASE About(queue[1], RuleKinds, s) /\ About(queue[1], RuleKinds, t)
        BY <3>3 DEF About
      <3>4. ~(intId + 1 <= intId)
        BY <1>1
      <3> QED BY <1>3, <2>2, <3>1, <3>2, <3>3, <3>4
    <2> QED BY <2>1, <2>2 DEF Ints
  <1>5. SameKind'
    <2>1. made'.rules = made.rules /\ srvRules' = srvRules /\ queue' = Tail(queue) /\ queue \in Seq(Messages) /\ queue # <<>>
      BY <1>1 DEF Handled, Types
    <2>2. ASSUME NEW k \in 1..Len(queue'), queue'[k][1] = "ruleEntry", queue'[k][2] \in DOMAIN srvRules
          PROVE  queue'[k][3].kind = srvRules[queue'[k][2]].kind
      <3>1. queue'[k] = queue[k + 1] /\ k + 1 \in 1..Len(queue)
        BY <2>1, InTail
      <3> QED BY <1>1, <2>2, <3>1 DEF SameKind
    <2> QED BY <1>3, <2>1, <2>2 DEF SameKind
  <1> QED BY <1>2, <1>4, <1>5

\* The state that is kept of an entry that has started.
LEMMA StatesOf ==
  ASSUME NEW e \in RecEntries
  PROVE  Kept(e).state \in Unstarted <=> e.state \in Unstarted
  BY DEF Kept, StateOf, RecEntries, States, Unstarted

\* What is said from some message on, when the first is taken away.
LEMMA HandledFrom ==
  ASSUME IInv, Handled, NEW k \in Nat, NEW x
  PROVE  /\ StartedFrom(queue, k + 1, x) => StartedFrom(queue, k, x)'
         /\ StartedFrom(queue, 0, x) => StartedFrom(queue, 1, x)
  <1>1. /\ queue \in Seq(Messages) /\ queue # <<>> /\ queue' = Tail(queue) /\ srvRecs' = srvRecs
        /\ Len(queue) \in Nat
    BY DEF IInv, Types, Handled
  <1>2. ASSUME StartedFrom(queue, k + 1, x), NEW j \in 1..Len(queue'), j > k, queue'[j][1] = "dvrEntry",
               queue'[j][2] = x
        PROVE  queue'[j][3].state \notin Unstarted
    <2>1. queue'[j] = queue[j + 1] /\ j + 1 \in 1..Len(queue)
      BY <1>1, InTail
    <2>2. j \in Nat /\ j + 1 > k + 1
      BY <1>2
    <2> QED BY <1>2, <2>1, <2>2 DEF StartedFrom
  <1>3. \A j \in 1..Len(queue) : j > 1 => j > 0
    BY <1>1
  <1> QED BY <1>1, <1>2, <1>3 DEF StartedFrom

\* ... so that nothing that has started is scheduled again, ...
LEMMA HandledStarted ==
  ASSUME IInv, Handled
  PROVE  Started'
  <1>1. /\ queue \in Seq(Messages) /\ queue # <<>> /\ queue' = Tail(queue) /\ Started
        /\ Len(queue) \in Nat
    BY DEF IInv, Types, Handled
  <1>2. ASSUME NEW k \in 1..Len(queue'), queue'[k][1] = "dvrEntry", queue'[k][3].state \notin Unstarted
        PROVE  StartedFrom(queue, k, queue[k][2])'
    <2>1. queue'[k] = queue[k + 1] /\ k + 1 \in 1..Len(queue)
      BY <1>1, InTail
    <2>2. PICK x : x = queue[k + 1][2]
      OBVIOUS
    <2>3. StartedFrom(queue, k + 1, x)
      BY <1>1, <1>2, <2>1, <2>2 DEF Started
    <2>4. StartedFrom(queue, k, x)'
      BY <2>3, HandledFrom
    <2> QED BY <2>1, <2>2, <2>4 DEF StartedFrom
  <1>3. ASSUME NEW id \in DOMAIN recs', recs'[id].state \notin Unstarted
        PROVE  StartedFrom(queue, 0, id)'
    <2>1. StartedFrom(queue, 1, id)
      <3>1. CASE ~About(queue[1], RecKinds, id) \/ Skips(queue[1])
        <4>1. id \in DOMAIN recs /\ recs[id].state \notin Unstarted
          BY <1>3, <3>1 DEF Handled
        <4>2. StartedFrom(queue, 0, id)
          BY <1>1, <4>1 DEF Started
        <4> QED BY <4>2, HandledFrom
      <3>2. CASE About(queue[1], RecKinds, id) /\ ~Skips(queue[1])
        <4>1. Gives(queue[1]) /\ recs'[id] = Kept(queue[1][3])
          BY <1>3, <3>2 DEF Handled
        <4>2. queue[1][1] = "dvrEntry" /\ queue[1][3] \in RecEntries /\ queue[1][2] = id
          BY <3>2, <4>1, HandledHead DEF About
        <4>3. queue[1][3].state \notin Unstarted /\ 1 \in 1..Len(queue)
          BY <1>1, <1>3, <4>1, <4>2, StatesOf, InTail
        <4> QED BY <1>1, <4>2, <4>3 DEF Started
      <3> QED BY <3>1, <3>2
    <2>2. 0 + 1 = 1 /\ 0 \in Nat
      OBVIOUS
    <2> QED BY <2>1, <2>2, HandledFrom
  <1> QED BY <1>2, <1>3 DEF Started

\* How the kept rules change.
LEMMA HandledInts ==
  ASSUME IInv, Handled, NEW sid \in DOMAIN rules'
  PROVE  \/ sid \in DOMAIN rules /\ rules'[sid].int = rules[sid].int
         \/ rules'[sid].int = intId + 1
  <1>1. CASE ~About(queue[1], RuleKinds, sid)
    <2>1. sid \in DOMAIN rules /\ \E d \in BOOLEAN : rules'[sid] = [rules[sid] EXCEPT !.dirty = d]
      BY <1>1 DEF Handled
    <2>2. rules[sid] \in KeptRules
      BY <2>1 DEF IInv, Types
    <2> QED BY <2>1, <2>2 DEF KeptRules
  <1>2. CASE About(queue[1], RuleKinds, sid)
    <2>1. PICK int \in Nat \ {0} :
             /\ rules'[sid] = Rule(int, queue[1][3])
             /\ \/ sid \in DOMAIN rules /\ int = rules[sid].int
                \/ int = intId + 1 /\ int = intId'
      BY <1>2 DEF Handled
    <2> QED BY <2>1 DEF Rule
  <1> QED BY <1>1, <1>2

\* Kodi's old list after a message.
LEMMA HandledItems ==
  ASSUME IInv, Handled
  PROVE  Items'
  <1>1. /\ Items /\ list' = list /\ TopRec' = TopRec /\ srvRecs' = srvRecs /\ intId \in Nat /\ intId' \in Nat
        /\ intId' >= intId
    BY HandledTypes DEF IInv, Types, Handled
  <1>2. ASSUME NEW i \in list, TimerItem(i)
        PROVE  TimerItem(i)'
    <2> DEFINE id == i.idx
    <2>1. i.what = "timer" /\ i.type \in {"manual", "child"} /\ RecItem(i)'
      BY <1>1, <1>2 DEF TimerItem, RecItem
    <2>2. id \in DOMAIN recs' \/ (id \notin DOMAIN srvRecs /\ Silent(queue', RecKinds, id))
      <3>1. CASE ~About(queue[1], RecKinds, id)
        <4>1. id \in DOMAIN recs \/ (id \notin DOMAIN srvRecs /\ Silent(queue, RecKinds, id))
          BY <1>2 DEF TimerItem
        <4>2. Silent(queue, RecKinds, id) => Silent(queue', RecKinds, id)
          BY HandledHead
        <4> QED BY <3>1, <4>1, <4>2 DEF Handled
      <3>2. CASE About(queue[1], RecKinds, id)
        <4>1. CASE Skips(queue[1])
          <5>1. id \in DOMAIN recs
            BY <1>2, <3>2, HandledHead DEF TimerItem
          <5> QED BY <3>2, <4>1, <5>1 DEF Handled
        <4>2. CASE ~Skips(queue[1])
          BY <3>2, <4>2, HandledHead DEF Handled
        <4> QED BY <4>1, <4>2
      <3> QED BY <3>1, <3>2
    <2>3. i.state = "recording" => StartedFrom(queue, 0, id)' /\ (id \in DOMAIN recs' => recs'[id].state \notin Unstarted)
      <3>1. SUFFICES ASSUME i.state = "recording"
                     PROVE  StartedFrom(queue, 0, id)' /\ (id \in DOMAIN recs' => recs'[id].state \notin Unstarted)
        OBVIOUS
      <3>2. StartedFrom(queue, 0, id) /\ (id \in DOMAIN recs => recs[id].state \notin Unstarted)
        BY <1>2, <3>1 DEF TimerItem
      <3>3. StartedFrom(queue, 0, id)'
        <4>1. 0 + 1 = 1 /\ 0 \in Nat
          OBVIOUS
        <4>2. PICK x : x = id
          OBVIOUS
        <4>3. StartedFrom(queue, 0, x)'
          BY <3>2, <4>1, <4>2, HandledFrom
        <4> QED BY <4>2, <4>3
      <3>4. CASE ~About(queue[1], RecKinds, id) \/ Skips(queue[1])
        BY <3>2, <3>3, <3>4 DEF Handled
      <3>5. CASE About(queue[1], RecKinds, id) /\ ~Skips(queue[1])
        <4>1. SUFFICES ASSUME id \in DOMAIN recs' PROVE recs'[id].state \notin Unstarted
          BY <3>3
        <4>2. Gives(queue[1]) /\ recs'[id] = Kept(queue[1][3])
          BY <3>5, <4>1 DEF Handled
        <4>3. queue[1][1] = "dvrEntry" /\ queue[1][3] \in RecEntries /\ queue[1][2] = id
          BY <3>5, <4>2, HandledHead DEF About
        <4>4. 1 \in 1..Len(queue) /\ 1 > 0
          BY InTail DEF Handled, IInv, Types
        <4>5. queue[1][3].state \notin Unstarted
          BY <3>2, <4>3, <4>4 DEF StartedFrom
        <4> QED BY <4>2, <4>3, <4>5, StatesOf
      <3> QED BY <3>4, <3>5
    <2> QED BY <1>1, <2>1, <2>2, <2>3 DEF TimerItem
  <1>3. ASSUME NEW i \in list, RecordingItem(i)
        PROVE  RecordingItem(i)'
    BY <1>1, <1>3 DEF RecordingItem, RecItem
  <1>4. ASSUME NEW i \in list, RuleItem(i)
        PROVE  RuleItem(i)'
    <2>1. i.idx \in 1..intId /\ i.idx \in 1..intId'
      BY <1>1, <1>4 DEF RuleItem
    <2>2. \A sid \in DOMAIN rules' : rules'[sid].int = i.idx => i.key[2] = sid
      <3>1. ~(i.idx = intId + 1)
        BY <1>1, <2>1
      <3> QED BY <1>4, <3>1, HandledInts DEF RuleItem
    <2> QED BY <1>4, <2>1, <2>2 DEF RuleItem
  <1> QED BY <1>1, <1>2, <1>3, <1>4 DEF Items

\* A message that is handled as described keeps the invariant.
LEMMA HandledOn ==
  ASSUME IInv, Handled
  PROVE  IInv'
  <1>1. /\ approx' = approx /\ srvRecs' = srvRecs /\ srvRules' = srvRules /\ made' = made /\ list' = list
        /\ call' = call /\ said' = said /\ wishes' = wishes /\ intId' >= intId /\ TopRec' = TopRec
    BY HandledTypes DEF Handled
  <1>2. Current'
    <2>1. SUFFICES ASSUME ~told', level' = "done" PROVE Current'
      BY DEF Current
    <2>2. ~told /\ level = "done" /\ recs' = recs /\ rules' = rules
      BY <2>1 DEF Handled
    <2> QED BY <1>1, <2>2, SMTT(30) DEF IInv, Current, CreateTimer, RuleTimer, Recording, IntIdOf
  <1>3. WishesMet'
    BY <1>1 DEF IInv, WishesMet, WishMet, RuleMeets
  <1>4. CallOK'
    <2>1. intId' <= FirstId => intId <= FirstId
      BY <1>1, Tops DEF IInv, Types, Handled
    <2>2. CallOK
      BY DEF IInv
    <2>3. \A key : IsGone(key) => IsGone(key)'
      BY <1>1 DEF IsGone, GoneRec, GoneRule
    <2>4. IsGone(said) => IsGone(said)'
      BY <1>1, <2>3 DEF IsGone, GoneRec, GoneRule
    <2>5. CallForm' /\ call'.at \in {"idle", "asked", "answered"}
      BY <1>1, <2>2 DEF CallOK, CallForm
    <2>6. ASSUME call.at # "idle" PROVE Request'
      <3>1. Form /\ Means /\ Aims /\ Done
        BY <2>2, <2>6 DEF CallOK, Request
      <3>2. Form'
        BY <1>1, <2>1, <3>1 DEF Form, Req, KeyOf
      <3>3. Means'
        BY <1>1, <3>1 DEF Means, Req, RuleMeets, Sent
      <3>4. Aims'
        BY <1>1, <2>1, <3>1 DEF Aims, Req
      <3>5. Done'
        BY <1>1, <3>1 DEF Done, Req, KeyOf, IsGone, GoneRec, GoneRule
      <3> QED BY <3>2, <3>3, <3>4, <3>5 DEF Request
    <2> QED BY <1>1, <2>1, <2>2, <2>4, <2>5, <2>6 DEF CallOK
  <1>5. Types' /\ Told' /\ Fresh' /\ RecsAgree' /\ Levels'
    BY HandledTypes, HandledHead, HandledRecs
  <1>6. RulesAgree' /\ SameKind' /\ Ints' /\ Started' /\ Items'
    BY HandledRules, HandledStarted, HandledItems
  <1> QED BY <1>2, <1>3, <1>4, <1>5, <1>6 DEF IInv

\* The first message, and what the addon has when it comes.
LEMMA Popped ==
  ASSUME IInv, NEW method, Pops(method)
  PROVE  /\ Types /\ queue # <<>> /\ queue' = Tail(queue) /\ queue[1][1] = method
         /\ MsgId = queue[1][2] /\ Entry = queue[1][3] /\ queue[1] \in Messages
         /\ \A kinds, x : About(queue[1], kinds, x) <=> method \in kinds /\ x = MsgId
         /\ recs = [id \in DOMAIN recs |-> recs[id]] /\ rules = [sid \in DOMAIN rules |-> rules[sid]]
         /\ Flagged(recs) = recs /\ Clean(recs) = recs
         /\ Flagged(rules) = [sid \in DOMAIN rules |-> Flagged(rules)[sid]]
         /\ \A sid \in DOMAIN rules : \E d \in BOOLEAN : Flagged(rules)[sid] = [rules[sid] EXCEPT !.dirty = d]
         /\ \A sid \in DOMAIN rules : \E d \in BOOLEAN : rules[sid] = [rules[sid] EXCEPT !.dirty = d]
         /\ level # "init" => Flagged(rules) = rules
         /\ ChannelFirst => Flagged(rules) = rules /\ Clean(rules) = rules /\ (level = "init" => method = "channelAdd")
         /\ level = "init" => DOMAIN recs = {}
         /\ intId \in Nat /\ told \in BOOLEAN /\ level \in {"init", "dvr", "done"}
  <1>1. Types /\ Levels /\ RulesAgree
    BY DEF IInv
  <1>2. /\ queue \in Seq(Messages) /\ queue # <<>> /\ queue' = Tail(queue) /\ Head(queue)[1] = method
        /\ Head(queue) = queue[1] /\ queue[1] \in Messages
    BY <1>1, InTail DEF Types, Pops
  <1>3. /\ recs = [id \in DOMAIN recs |-> recs[id]] /\ rules = [sid \in DOMAIN rules |-> rules[sid]]
        /\ \A id \in DOMAIN recs : recs[id].dirty = FALSE
        /\ \A sid \in DOMAIN rules : rules[sid] \in KeptRules
        /\ intId \in Nat /\ told \in BOOLEAN /\ level \in {"init", "dvr", "done"}
    BY <1>1 DEF Types, KeptRecs
  <1>4. level = "init" => DOMAIN recs = {}
    BY <1>1 DEF Levels
  <1>5. Flagged(recs) = recs
    <2>1. CASE level = "init"
      BY <1>3, <1>4, <2>1 DEF Flagged
    <2>2. CASE level # "init"
      BY <2>2 DEF Flagged
    <2> QED BY <2>1, <2>2
  <1>6. Clean(recs) = recs
    BY <1>3 DEF Clean, Without
  <1>7. level # "init" => Flagged(rules) = rules
    BY DEF Flagged
  <1>8. \A sid \in DOMAIN rules : \E d \in BOOLEAN : rules[sid] = [rules[sid] EXCEPT !.dirty = d]
    <2>1. SUFFICES ASSUME NEW sid \in DOMAIN rules
                   PROVE  \E d \in BOOLEAN : rules[sid] = [rules[sid] EXCEPT !.dirty = d]
      OBVIOUS
    <2>2. rules[sid].dirty \in BOOLEAN /\ rules[sid] = [rules[sid] EXCEPT !.dirty = rules[sid].dirty]
      BY <1>3 DEF KeptRules
    <2> QED BY <2>2
  <1>9. \A sid \in DOMAIN rules : \E d \in BOOLEAN : Flagged(rules)[sid] = [rules[sid] EXCEPT !.dirty = d]
    <2>1. CASE level = "init"
      <3>1. \A sid \in DOMAIN rules : Flagged(rules)[sid] = [rules[sid] EXCEPT !.dirty = TRUE]
        BY <2>1 DEF Flagged
      <3> QED BY <3>1
    <2> QED BY <1>7, <1>8, <2>1
  <1>10. Flagged(rules) = [sid \in DOMAIN rules |-> Flagged(rules)[sid]]
    <2>1. CASE level = "init"
      BY <2>1 DEF Flagged
    <2> QED BY <1>3, <1>7, <2>1
  <1>11. ChannelFirst => Flagged(rules) = rules /\ Clean(rules) = rules /\ (level = "init" => method = "channelAdd")
    <2>1. SUFFICES ASSUME ChannelFirst
                   PROVE  Flagged(rules) = rules /\ Clean(rules) = rules /\ (level = "init" => method = "channelAdd")
      OBVIOUS
    <2>2. /\ \A sid \in DOMAIN rules : ~rules[sid].dirty
          /\ level = "init" => queue[1][1] = "channelAdd" /\ DOMAIN rules = {}
      BY <1>1, <2>1 DEF RulesAgree
    <2>3. Clean(rules) = rules
      BY <1>3, <2>2 DEF Clean, Without
    <2>4. level = "init" => Flagged(rules) = rules
      BY <1>3, <2>2 DEF Flagged
    <2> QED BY <1>2, <1>7, <2>2, <2>3, <2>4
  <1> QED BY <1>1, <1>2, <1>3, <1>4, <1>5, <1>6, <1>7, <1>8, <1>9, <1>10, <1>11 DEF MsgId, Entry, About

\* ParseChannelAddOrUpdate: the first one flags what there is of an earlier sync.
LEMMA ChannelAddOn ==
  ASSUME IInv, ParseChannelAdd
  PROVE  IInv'
  <1>1. Pops("channelAdd")
    BY DEF ParseChannelAdd
  <1>2. /\ recs' = Flagged(recs) /\ rules' = Flagged(rules) /\ intId' = intId /\ told' = told
        /\ level' = (IF level = "init" THEN "dvr" ELSE level)
        /\ UNCHANGED <<approx, srvRecs, srvRules, made, list, call, said, wishes, calls, events>>
    BY DEF ParseChannelAdd, SyncChannelsCompleted, kodiVars
  <1>3. \A kinds, x : kinds \in {RecKinds, RuleKinds} => ~About(queue[1], kinds, x)
    BY <1>1, Popped DEF RecKinds, RuleKinds
  <1>4. recs' = recs /\ DOMAIN rules' = DOMAIN rules
    BY <1>1, <1>2, Popped
  <1>5. \A sid \in DOMAIN rules' : \E d \in BOOLEAN : rules'[sid] = [rules[sid] EXCEPT !.dirty = d]
    BY <1>1, <1>2, <1>4, Popped
  <1>6. rules' = [sid \in DOMAIN rules' |-> rules'[sid]]
    BY <1>1, <1>2, <1>4, Popped
  <1>7. /\ queue # <<>> /\ queue' = Tail(queue) /\ intId \in Nat /\ told \in BOOLEAN /\ level \in {"init", "dvr", "done"}
        /\ recs = [id \in DOMAIN recs |-> recs[id]] /\ (ChannelFirst => Flagged(rules) = rules)
        /\ (level # "init" => Flagged(rules) = rules)
    BY <1>1, Popped
  <1>8. Handled
    BY <1>2, <1>3, <1>4, <1>5, <1>6, <1>7 DEF Handled
  <1> QED BY <1>8, HandledOn

\* ParseRecordingDelete.
LEMMA RecordingDeleteOn ==
  ASSUME IInv, ParseRecordingDelete
  PROVE  IInv'
  <1>1. Pops("dvrEntryDelete")
    BY DEF ParseRecordingDelete
  <1>2. /\ recs' = Without(recs, {MsgId}) /\ rules' = rules /\ intId' = intId /\ told' = TRUE /\ level' = level
        /\ UNCHANGED <<approx, srvRecs, srvRules, made, list, call, said, wishes, calls, events>>
    BY DEF ParseRecordingDelete, Triggers
  <1>3. /\ queue # <<>> /\ queue' = Tail(queue) /\ intId \in Nat /\ told \in BOOLEAN /\ level \in {"init", "dvr", "done"}
        /\ rules = [sid \in DOMAIN rules |-> rules[sid]] /\ queue[1][1] = "dvrEntryDelete"
        /\ level = "init" => DOMAIN recs = {}
    BY <1>1, Popped
  <1>4. /\ \A x : About(queue[1], RecKinds, x) <=> x = MsgId
        /\ \A x : ~About(queue[1], RuleKinds, x)
        /\ ~Gives(queue[1])
    BY <1>1, <1>3, Popped DEF RecKinds, RuleKinds, Gives
  <1>5. /\ DOMAIN recs' = DOMAIN recs \ {MsgId} /\ recs' = [id \in DOMAIN recs' |-> recs'[id]]
        /\ \A id \in DOMAIN recs' : recs'[id] = recs[id]
    BY <1>2 DEF Without
  <1>6. /\ level' = "init" => level = "init" /\ queue[1][1] # "channelAdd" /\ DOMAIN recs' = {}
    BY <1>2, <1>3, <1>5
  <1>7. rules' = [sid \in DOMAIN rules' |-> rules'[sid]]
    BY <1>2, <1>3
  <1>8. intId' \in Nat /\ intId' >= intId /\ told' \in BOOLEAN /\ told' /\ level' \in {"init", "dvr", "done"}
    BY <1>2, <1>3
  <1>9. /\ \A id : ~About(queue[1], RecKinds, id) =>
             /\ id \in DOMAIN recs' <=> id \in DOMAIN recs
             /\ id \in DOMAIN recs => recs'[id] = recs[id]
        /\ \A id : About(queue[1], RecKinds, id) => id \notin DOMAIN recs'
    BY <1>4, <1>5
  <1>10. /\ \A sid : sid \in DOMAIN rules' =>
                /\ sid \in DOMAIN rules
                /\ \E d \in BOOLEAN : rules'[sid] = [rules[sid] EXCEPT !.dirty = d]
         /\ DOMAIN rules' = DOMAIN rules
         /\ \A sid : sid \in DOMAIN rules => rules'[sid] = rules[sid]
    BY <1>1, <1>2, Popped
  <1>11. Handled
    <2>1. queue # <<>> /\ queue' = Tail(queue) /\ recs' = [id \in DOMAIN recs' |-> recs'[id]]
          /\ rules' = [sid \in DOMAIN rules' |-> rules'[sid]]
      BY <1>3, <1>5, <1>7
    <2>2. /\ \A id : About(queue[1], RecKinds, id) =>
               ~Gives(queue[1]) /\ ~Skips(queue[1]) /\ id \notin DOMAIN recs'
          /\ \A sid : ~About(queue[1], RuleKinds, sid)
      BY <1>4, <1>9 DEF Skips
    <2>3. ~told' /\ level' = "done" => ~told /\ level = "done" /\ recs' = recs /\ rules' = rules
      BY <1>8
    <2>4. UNCHANGED <<approx, srvRecs, srvRules, made, list, call, said, wishes, calls, events>>
      BY <1>2
    <2> QED BY <1>6, <1>8, <1>9, <1>10, <2>1, <2>2, <2>3, <2>4 DEF Handled
  <1> QED BY <1>11, HandledOn

\* ParseTimerecDelete and ParseAutorecDelete.
LEMMA RuleDeleteOn ==
  ASSUME IInv, ParseRuleDelete
  PROVE  IInv'
  <1>1. Pops("ruleEntryDelete")
    BY DEF ParseRuleDelete
  <1>2. /\ rules' = Without(rules, {MsgId}) /\ recs' = recs /\ intId' = intId /\ told' = TRUE /\ level' = level
        /\ UNCHANGED <<approx, srvRecs, srvRules, made, list, call, said, wishes, calls, events>>
    BY DEF ParseRuleDelete, Triggers
  <1>3. /\ queue # <<>> /\ queue' = Tail(queue) /\ intId \in Nat /\ told \in BOOLEAN /\ level \in {"init", "dvr", "done"}
        /\ recs = [id \in DOMAIN recs |-> recs[id]] /\ queue[1][1] = "ruleEntryDelete"
        /\ level = "init" => DOMAIN recs = {}
    BY <1>1, Popped
  <1>4. /\ \A x : About(queue[1], RuleKinds, x) <=> x = MsgId
        /\ \A x : ~About(queue[1], RecKinds, x)
        /\ ~Gives(queue[1])
    BY <1>1, <1>3, Popped DEF RecKinds, RuleKinds, Gives
  <1>5. /\ DOMAIN rules' = DOMAIN rules \ {MsgId} /\ rules' = [sid \in DOMAIN rules' |-> rules'[sid]]
        /\ \A sid \in DOMAIN rules' : rules'[sid] = rules[sid]
    BY <1>2 DEF Without
  <1>6. /\ level' = "init" => level = "init" /\ queue[1][1] # "channelAdd" /\ DOMAIN recs' = {}
    BY <1>2, <1>3, <1>5
  <1>7. recs' = [id \in DOMAIN recs' |-> recs'[id]]
    BY <1>2, <1>3
  <1>8. intId' \in Nat /\ intId' >= intId /\ told' \in BOOLEAN /\ told' /\ level' \in {"init", "dvr", "done"}
    BY <1>2, <1>3
  <1>9. /\ \A sid : ~About(queue[1], RuleKinds, sid) =>
             /\ sid \in DOMAIN rules' <=> sid \in DOMAIN rules
             /\ sid \in DOMAIN rules => rules'[sid] = rules[sid]
        /\ \A sid : About(queue[1], RuleKinds, sid) => sid \notin DOMAIN rules'
    BY <1>4, <1>5
  <1>10. \A sid : sid \in DOMAIN rules' =>
           sid \in DOMAIN rules /\ \E d \in BOOLEAN : rules'[sid] = [rules[sid] EXCEPT !.dirty = d]
    BY <1>1, <1>5, Popped
  <1>11. Handled
    <2>1. queue # <<>> /\ queue' = Tail(queue) /\ recs' = [id \in DOMAIN recs' |-> recs'[id]]
          /\ rules' = [sid \in DOMAIN rules' |-> rules'[sid]]
      BY <1>3, <1>5, <1>7
    <2> QED BY <1>2, <1>4, <1>6, <1>8, <1>9, <1>10, <2>1 DEF Handled
  <1> QED BY <1>11, HandledOn

\* The end of the sync removes what is flagged, which is nothing if a channel was listed.
LEMMA SyncCompletedOn ==
  ASSUME IInv, SyncCompleted
  PROVE  IInv'
  <1>1. Pops("initialSyncCompleted")
    BY DEF SyncCompleted
  <1>2. /\ recs' = Clean(Flagged(recs)) /\ rules' = Clean(Flagged(rules)) /\ intId' = intId /\ told' = TRUE
        /\ level' = "done"
        /\ UNCHANGED <<approx, srvRecs, srvRules, made, list, call, said, wishes, calls, events>>
    BY DEF SyncCompleted, Triggers
  <1>3. /\ queue # <<>> /\ queue' = Tail(queue) /\ intId \in Nat
        /\ recs = [id \in DOMAIN recs |-> recs[id]] /\ recs' = recs
        /\ ChannelFirst => rules' = rules
        /\ Flagged(rules) = [sid \in DOMAIN rules |-> Flagged(rules)[sid]]
        /\ \A sid \in DOMAIN rules : \E d \in BOOLEAN : Flagged(rules)[sid] = [rules[sid] EXCEPT !.dirty = d]
    BY <1>1, <1>2, Popped
  <1>4. \A kinds, x : kinds \in {RecKinds, RuleKinds} => ~About(queue[1], kinds, x)
    BY <1>1, Popped DEF RecKinds, RuleKinds
  <1>5. /\ DOMAIN rules' \subseteq DOMAIN rules /\ rules' = [sid \in DOMAIN rules' |-> rules'[sid]]
        /\ \A sid \in DOMAIN rules' : rules'[sid] = Flagged(rules)[sid]
    BY <1>2, <1>3 DEF Clean, Without
  <1>6. Handled
    BY <1>2, <1>3, <1>4, <1>5, SMTT(30) DEF Handled
  <1> QED BY <1>6, HandledOn

\* ParseTimerecAddOrUpdate and ParseAutorecAddOrUpdate: a new rule gets the next index.
LEMMA RuleAddOrUpdateOn ==
  ASSUME IInv, ParseRuleAddOrUpdate
  PROVE  IInv'
  <1>1. Pops("ruleEntry")
    BY DEF ParseRuleAddOrUpdate
  <1> DEFINE new == MsgId \notin DOMAIN rules
             int == IF new THEN intId + 1 ELSE rules[MsgId].int
  <1>2. /\ rules' = With(rules, MsgId, Rule(int, Entry)) /\ intId' = (IF new THEN intId + 1 ELSE intId)
        /\ recs' = recs /\ told' = TRUE /\ level' = level
        /\ UNCHANGED <<approx, srvRecs, srvRules, made, list, call, said, wishes, calls, events>>
    BY DEF ParseRuleAddOrUpdate, Triggers, NextIntId, Rule
  <1>3. /\ queue # <<>> /\ queue' = Tail(queue) /\ intId \in Nat /\ level \in {"init", "dvr", "done"}
        /\ recs = [id \in DOMAIN recs |-> recs[id]] /\ queue[1][1] = "ruleEntry" /\ Entry = queue[1][3]
        /\ \A sid \in DOMAIN rules : \E d \in BOOLEAN : rules[sid] = [rules[sid] EXCEPT !.dirty = d]
        /\ level = "init" => DOMAIN recs = {}
    BY <1>1, Popped
  <1>4. /\ \A x : About(queue[1], RuleKinds, x) <=> x = MsgId
        /\ \A x : ~About(queue[1], RecKinds, x)
        /\ Gives(queue[1])
    BY <1>1, <1>3, Popped DEF RecKinds, RuleKinds, Gives
  <1>5. /\ DOMAIN rules' = DOMAIN rules \cup {MsgId} /\ rules' = [sid \in DOMAIN rules' |-> rules'[sid]]
        /\ \A sid \in DOMAIN rules : sid # MsgId => rules'[sid] = rules[sid]
        /\ rules'[MsgId] = Rule(int, Entry)
    BY <1>2 DEF With
  <1>6. /\ int \in Nat \ {0} /\ intId' \in Nat /\ intId' >= intId
        /\ \/ MsgId \in DOMAIN rules /\ int = rules[MsgId].int
           \/ int = intId + 1 /\ int = intId'
    <2>1. CASE new
      BY <1>2, <1>3, <2>1
    <2>2. CASE ~new
      <3>1. rules[MsgId] \in KeptRules
        BY <2>2 DEF IInv, Types
      <3>2. rules[MsgId].int \in Nat \ {0}
        BY <3>1 DEF KeptRules
      <3> QED BY <1>2, <1>3, <2>2, <3>2
    <2> QED BY <2>1, <2>2
  <1> HIDE DEF int
  <1>7. Handled
    BY <1>2, <1>3, <1>4, <1>5, <1>6 DEF Handled
  <1> QED BY <1>7, HandledOn

\* ParseRecordingAddOrUpdate: what is said of a duplicate is ignored, what has no
\* file is dropped, the rest is kept as it was sent.
LEMMA RecordingAddOrUpdateOn ==
  ASSUME IInv, ParseRecordingAddOrUpdate
  PROVE  IInv'
  <1>1. Pops("dvrEntry")
    BY DEF ParseRecordingAddOrUpdate
  <1> DEFINE known == MsgId \in DOMAIN recs
             rec == Kept(Entry)
             changed == ~known \/ [recs[MsgId] EXCEPT !.dirty = FALSE] # rec
             missing == Entry.err = "missing"
             skipped == Ignored(Entry)
  <1>2. /\ skipped => recs' = recs /\ told' = told
        /\ ~skipped /\ missing => recs' = Without(recs, {MsgId}) /\ told' = (told \/ (known /\ level = "done"))
        /\ ~skipped /\ ~missing => recs' = With(recs, MsgId, rec) /\ told' = (told \/ (changed /\ level = "done"))
        /\ rules' = Flagged(rules) /\ intId' = intId
        /\ level' = (IF level = "init" THEN "dvr" ELSE level)
        /\ UNCHANGED <<approx, srvRecs, srvRules, made, list, call, said, wishes, calls, events>>
    <2>1. told \in BOOLEAN /\ Flagged(recs) = recs
      BY <1>1, Popped
    <2>2. /\ rules' = Flagged(rules) /\ intId' = intId
          /\ level' = (IF level = "init" THEN "dvr" ELSE level)
          /\ UNCHANGED <<approx, srvRecs, srvRules, made, list, call, said, wishes, calls, events>>
      BY DEF ParseRecordingAddOrUpdate, SyncChannelsCompleted
    <2>3. CASE skipped
      BY <2>1, <2>2, <2>3 DEF ParseRecordingAddOrUpdate, Triggers
    <2>4. CASE ~skipped
      BY <2>1, <2>2, <2>4 DEF ParseRecordingAddOrUpdate, Triggers, Kept
    <2> QED BY <2>2, <2>3, <2>4
  <1>3. /\ queue # <<>> /\ queue' = Tail(queue) /\ intId \in Nat /\ level \in {"init", "dvr", "done"} /\ told \in BOOLEAN
        /\ queue[1][1] = "dvrEntry" /\ Entry = queue[1][3] /\ (ChannelFirst => rules' = rules)
        /\ recs = [id \in DOMAIN recs |-> recs[id]]
        /\ Flagged(rules) = [sid \in DOMAIN rules |-> Flagged(rules)[sid]]
        /\ \A sid \in DOMAIN rules : \E d \in BOOLEAN : Flagged(rules)[sid] = [rules[sid] EXCEPT !.dirty = d]
        /\ level = "done" => rules' = rules
        /\ queue[1] \in Messages
    BY <1>1, <1>2, Popped
  <1>4. /\ \A x : About(queue[1], RecKinds, x) <=> x = MsgId
        /\ \A x : ~About(queue[1], RuleKinds, x)
        /\ Gives(queue[1]) <=> ~missing
    BY <1>1, <1>3, Popped DEF RecKinds, RuleKinds, Gives
  <1>5. /\ missing => ~skipped
        /\ Skips(queue[1]) <=> skipped
    <2>1. Entry \in RecEntries
      BY <1>3, MessageFields
    <2>2. missing => ~Entry.dup
      BY <2>1 DEF RecEntries
    <2> QED BY <1>3, <1>4, <2>2 DEF Skips, Ignored
  <1>6. /\ recs' = [id \in DOMAIN recs' |-> recs'[id]]
        /\ \A id : id # MsgId => (id \in DOMAIN recs' <=> id \in DOMAIN recs)
        /\ \A id \in DOMAIN recs : id # MsgId => recs'[id] = recs[id]
        /\ missing => MsgId \notin DOMAIN recs'
        /\ ~skipped /\ ~missing => MsgId \in DOMAIN recs' /\ recs'[MsgId] = rec
        /\ skipped => recs' = recs
    <2>1. CASE skipped
      BY <1>2, <1>3, <1>5, <2>1
    <2>2. CASE ~skipped /\ missing
      BY <1>2, <2>2 DEF Without
    <2>3. CASE ~skipped /\ ~missing
      BY <1>2, <2>3 DEF With
    <2> QED BY <2>1, <2>2, <2>3
  <1>7. DOMAIN rules' = DOMAIN rules /\ rules' = [sid \in DOMAIN rules' |-> rules'[sid]]
    BY <1>2, <1>3
  <1>8. ~told' /\ level' = "done" => ~told /\ level = "done" /\ recs' = recs /\ rules' = rules
    <2>1. SUFFICES ASSUME ~told', level' = "done" PROVE ~told /\ level = "done" /\ recs' = recs /\ rules' = rules
      OBVIOUS
    <2>2. ~told /\ level = "done" /\ rules' = rules
      BY <1>2, <1>3, <2>1
    <2>3. CASE skipped
      BY <1>6, <2>2, <2>3
    <2>4. CASE ~skipped /\ missing
      <3>1. ~known
        BY <1>2, <2>1, <2>2, <2>4
      <3> QED BY <1>2, <1>3, <2>2, <2>4, <3>1 DEF Without
    <2>5. CASE ~skipped /\ ~missing
      <3>1. known /\ [recs[MsgId] EXCEPT !.dirty = FALSE] = rec
        BY <1>2, <2>1, <2>2, <2>5
      <3>2. recs[MsgId] \in KeptRecs
        BY <3>1 DEF IInv, Types
      <3>3. recs[MsgId] = rec
        BY <3>1, <3>2 DEF KeptRecs
      <3> HIDE DEF rec
      <3> QED BY <1>2, <1>3, <2>2, <2>5, <3>1, <3>3 DEF With
    <2> QED BY <2>3, <2>4, <2>5
  <1>9. told' \in BOOLEAN
    <2>1. CASE skipped
      BY <1>2, <1>3, <2>1
    <2>2. CASE ~skipped
      BY <1>2, <1>3, <2>2
    <2> QED BY <2>1, <2>2
  <1>10. rec = Kept(queue[1][3])
    BY <1>3
  <1> HIDE DEF known, changed, missing, skipped, rec
  <1>11. Handled
    BY <1>2, <1>3, <1>4, <1>5, <1>6, <1>7, <1>8, <1>9, <1>10 DEF Handled
  <1> QED BY <1>11, HandledOn


-----------------------------------------------------------------------------
(***************************************************************************)
(* Kodi's list.                                                            *)
(***************************************************************************)
\* AutoRecording::GetStart and TimeRecording::GetStart give times of the day,
\* whatever times the server has.
LEMMA ShownTimes ==
  ASSUME NEW win \in BOOLEAN, NEW b \in Times, NEW e \in Times
  PROVE  ShownStart(win, b, e) \in Times /\ ShownStop(win, e) \in Times
  <1>1. Day \in Nat /\ AnyTime = -1 /\ AnyTime \in Times
    BY WindowsAssumption DEF AnyTime, Times
  <1>2. ShownStop(win, e) \in Times
    BY <1>1 DEF ShownStop
  <1>3. ASSUME win, b # AnyTime, e # AnyTime
        PROVE  ShownStart(win, b, e) \in Times
    <2>1. b \in 0..Day /\ e \in 0..Day
      BY <1>3 DEF Times
    <2>2. CASE e < b
      <3>1. PICK n : n = (e + Day - b) \div 2
        OBVIOUS
      <3>2. n \in Nat /\ n <= Day
        BY <1>1, <2>1, <2>2, <3>1
      <3>3. WithinDay(b + n) \in 0..Day
        BY <1>1, <2>1, <3>2 DEF WithinDay
      <3> QED BY <1>3, <2>2, <3>1, <3>3 DEF ShownStart, Times
    <2>3. CASE ~(e < b)
      <3>1. PICK n : n = (e - b) \div 2
        OBVIOUS
      <3>2. n \in Nat /\ b + n <= e
        BY <2>1, <2>3, <3>1
      <3>3. b + n \in 0..Day
        BY <1>1, <2>1, <3>2
      <3> QED BY <1>3, <2>3, <3>1, <3>3 DEF ShownStart, Times
    <2> QED BY <2>2, <2>3
  <1>4. ~win => ShownStart(win, b, e) = b
    BY DEF ShownStart
  <1>5. win /\ (b = AnyTime \/ e = AnyTime) => ShownStart(win, b, e) = AnyTime
    BY DEF ShownStart
  <1> QED BY <1>1, <1>2, <1>3, <1>4, <1>5

\* What is shown of a timer, a recording and a rule: CreateTimer.
LEMMA TimerShown ==
  ASSUME IInv, NEW id \in DOMAIN recs, IsTimer(recs[id])
  PROVE  TimerItem(CreateTimer(id))
  <1>1. /\ recs[id] \in KeptRecs /\ id \in RecIds /\ id <= TopRec
        /\ recs[id].state \notin Unstarted => StartedFrom(queue, 0, id)
    BY DEF IInv, Types, Fresh, Started
  <1>2. PICK i : i = CreateTimer(id)
    OBVIOUS
  <1>3. /\ i.key = <<"rec", id>> /\ i.what = "timer" /\ i.idx = id /\ i.type \in {"manual", "child"}
        /\ i.state = Shown(recs[id].enabled, recs[id].state) /\ i.life = TvhToKodi(recs[id].life)
        /\ i.start = 0 /\ i.stop = 0
    BY <1>2 DEF CreateTimer, Item
  <1>4. i.life \in RecLifes
    BY <1>1, <1>3, LifesShown DEF KeptRecs
  <1>5. i.state = "recording" => recs[id].state \notin Unstarted
    BY <1>3 DEF Shown, Unstarted
  <1> QED BY <1>1, <1>2, <1>3, <1>4, <1>5 DEF TimerItem, RecItem

\* GetRecordings.
LEMMA RecordingShown ==
  ASSUME IInv, NEW id \in DOMAIN recs
  PROVE  RecordingItem(Recording(id))
  <1>1. recs[id] \in KeptRecs /\ id \in RecIds /\ id <= TopRec
    BY DEF IInv, Types, Fresh
  <1>2. PICK i : i = Recording(id)
    OBVIOUS
  <1>3. /\ i.key = <<"rec", id>> /\ i.what = "recording" /\ i.idx = id /\ i.type = "none"
        /\ i.life = TvhToKodi(recs[id].life) /\ i.start = 0 /\ i.stop = 0
    BY <1>2 DEF Recording, Item
  <1>4. i.life \in RecLifes
    BY <1>1, <1>3, LifesShown DEF KeptRecs
  <1> QED BY <1>1, <1>2, <1>3, <1>4 DEF RecordingItem, RecItem

\* GetTimerecTimers and GetAutorecTimers.
LEMMA RuleShown ==
  ASSUME IInv, NEW sid \in DOMAIN rules
  PROVE  RuleItem(RuleTimer(sid))
  <1>1. /\ rules[sid] \in KeptRules /\ sid \in RuleIds /\ rules[sid].int <= intId /\ intId \in Nat
        /\ \A t \in DOMAIN rules : rules[t].int = rules[sid].int => t = sid
        /\ approx \in BOOLEAN
    BY DEF IInv, Types, Ints
  <1>2. PICK i : i = RuleTimer(sid)
    OBVIOUS
  <1>3. PICK win : win = (approx /\ rules[sid].kind = "autorec")
    OBVIOUS
  <1>4. /\ i.key = <<"rule", sid>> /\ i.what = "timer" /\ i.idx = rules[sid].int /\ i.type = rules[sid].kind
        /\ i.state = Shown(rules[sid].enabled, "scheduled") /\ i.life = TvhToKodi(rules[sid].life)
        /\ i.start = ShownStart(win, rules[sid].from, rules[sid].to)
        /\ i.stop = ShownStop(win, rules[sid].to)
    BY <1>2, <1>3 DEF RuleTimer, Item
  <1>5. /\ rules[sid].int \in Nat \ {0} /\ rules[sid].kind \in Kinds /\ rules[sid].life \in 0..(Wide - 1)
        /\ rules[sid].from \in Times /\ rules[sid].to \in Times /\ win \in BOOLEAN
    BY <1>1, <1>3 DEF KeptRules
  <1>6. i.life \in RuleLifes
    BY <1>4, <1>5, LifesShown
  <1>7. i.start \in Times /\ i.stop \in Times
    BY <1>4, <1>5, ShownTimes
  <1>8. i.state # "recording"
    BY <1>4 DEF Shown
  <1>9. i.idx \in 1..intId
    BY <1>1, <1>4, <1>5
  <1>10. i.key[1] = "rule" /\ i.key[2] = sid
    BY <1>4
  <1> QED BY <1>1, <1>2, <1>4, <1>5, <1>6, <1>7, <1>8, <1>9, <1>10 DEF RuleItem

\* GetTimers and GetRecordings.
LEMMA GetTimersOn ==
  ASSUME IInv, GetTimers
  PROVE  IInv'
  <1>1. /\ told' = FALSE
        /\ list' = {CreateTimer(id) : id \in {i \in DOMAIN recs : IsTimer(recs[i])}}
                   \cup {RuleTimer(sid) : sid \in DOMAIN rules}
                   \cup {Recording(id) : id \in {i \in DOMAIN recs : IsRecording(recs[i])}}
        /\ UNCHANGED <<approx, srvRecs, srvRules, made, queue, level, recs, rules, intId, call, said, wishes,
                       calls, events>>
    BY DEF GetTimers, srvVars, addonVars
  <1>2. Items'
    <2>1. SUFFICES ASSUME NEW i \in list'
                   PROVE  TimerItem(i)' \/ RecordingItem(i)' \/ RuleItem(i)'
      BY DEF Items
    <2>2. TimerItem(i) \/ RecordingItem(i) \/ RuleItem(i)
      BY <1>1, TimerShown, RecordingShown, RuleShown
    <2> QED BY <1>1, <2>2 DEF TimerItem, RecordingItem, RuleItem, RecItem, TopRec, StartedFrom, Silent
  <1>3. Current'
    BY <1>1 DEF Current, CreateTimer, RuleTimer, Recording, IntIdOf
  <1>4. Types' /\ Fresh' /\ Told' /\ Levels' /\ SameKind' /\ Ints'
    BY <1>1 DEF IInv, Types, Fresh, Numbered, Told, Follows, Levels, SameKind, Ints, TopRec
  <1>5. RecsAgree' /\ RulesAgree' /\ Started'
    BY <1>1 DEF IInv, RecsAgree, RulesAgree, Started, StartedFrom, Silent
  <1>6. WishesMet'
    BY <1>1 DEF IInv, WishesMet, WishMet, RuleMeets, TopRec
  <1>7. CallOK'
    <2>1. IsGone(said) => IsGone(said)'
      BY <1>1 DEF IsGone, GoneRec, GoneRule, TopRec
    <2>2. CallForm => CallForm'
      BY <1>1 DEF CallForm
    <2>3. Request => Request'
      <3>1. Form => Form'
        BY <1>1 DEF Form, Req, KeyOf
      <3>2. Means => Means'
        BY <1>1 DEF Means, Req, RuleMeets, Sent
      <3>3. Aims => Aims'
        BY <1>1 DEF Aims, Req, TopRec
      <3>4. Done => Done'
        BY <1>1 DEF Done, Req, KeyOf, IsGone, GoneRec, GoneRule, TopRec
      <3> QED BY <3>1, <3>2, <3>3, <3>4 DEF Request
    <2> QED BY <1>1, <2>1, <2>2, <2>3 DEF IInv, CallOK
  <1> QED BY <1>2, <1>3, <1>4, <1>5, <1>6, <1>7 DEF IInv


-----------------------------------------------------------------------------
(***************************************************************************)
(* The server's listing, and every step.                                   *)
(***************************************************************************)
LEMMA ListingIs ==
  /\ Len(Listing) = (IF ChannelFirst THEN 4 ELSE 3)
  /\ ChannelFirst => Listing[1] = Message("channelAdd", 0, None)
  /\ \A k \in 1..Len(Listing) :
       \/ Listing[k] = Message("channelAdd", 0, None)
       \/ Listing[k] = RuleAdded(1, TheRule)
       \/ Listing[k] = Added(FirstId + 1, TheTimer)
       \/ Listing[k] = Message("initialSyncCompleted", 0, None)
  /\ \E k \in 1..Len(Listing) : Listing[k] = RuleAdded(1, TheRule)
  /\ \E k \in 1..Len(Listing) : Listing[k] = Added(FirstId + 1, TheTimer)
  /\ \E S : Listing \in Seq(S)
  <1> DEFINE c == Message("channelAdd", 0, None)
             r == RuleAdded(1, TheRule)
             t == Added(FirstId + 1, TheTimer)
             d == Message("initialSyncCompleted", 0, None)
  <1> HIDE DEF c, r, t, d
  <1>1. CASE ChannelFirst
    <2>1. Listing = <<c, r, t, d>>
      <3>1. Listing = <<c>> \o <<r, t, d>>
        BY <1>1 DEF Listing, c, r, t, d
      <3>2. PICK S : S = {c, r, t, d}
        OBVIOUS
      <3>3. <<c>> \in Seq(S) /\ <<r, t, d>> \in Seq(S) /\ <<c, r, t, d>> \in Seq(S)
        BY <3>2
      <3>4. /\ Len(Listing) = 4 /\ Listing \in Seq(S)
            /\ \A i \in 1..4 : Listing[i] = IF i <= 1 THEN <<c>>[i] ELSE <<r, t, d>>[i - 1]
        BY <3>1, <3>3, ConcatProperties
      <3>5. Listing[1] = c /\ Listing[2] = r /\ Listing[3] = t /\ Listing[4] = d
        BY <3>4
      <3> QED BY <3>3, <3>4, <3>5
    <2>2. /\ Len(Listing) = 4 /\ Listing[1] = c /\ Listing[2] = r /\ Listing[3] = t /\ Listing[4] = d
          /\ Listing \in Seq({c, r, t, d})
      BY <2>1
    <2>3. 1..4 = {1, 2, 3, 4}
      OBVIOUS
    <2> QED BY <1>1, <2>2, <2>3 DEF c, r, t, d
  <1>2. CASE ~ChannelFirst
    <2>1. Listing = <<r, t, d>>
      BY <1>2 DEF Listing, c, r, t, d
    <2>2. /\ Len(Listing) = 3 /\ Listing[1] = r /\ Listing[2] = t /\ Listing[3] = d
          /\ Listing \in Seq({r, t, d})
      BY <2>1
    <2>3. 1..3 = {1, 2, 3}
      OBVIOUS
    <2> QED BY <1>2, <2>2, <2>3 DEF c, r, t, d
  <1> QED BY <1>1, <1>2

\* The invariant holds of a server with a rule and a timer, and an addon that knows nothing.
LEMMA Initially ==
  ASSUME Init
  PROVE  IInv
  <1>1. /\ TheTimer \in RecEntries /\ TheTimer.err = "" /\ TheTimer.rule = 1 /\ TheTimer.kind = "autorec"
        /\ TheTimer.state = "scheduled"
        /\ TheRule \in RuleEntries /\ TheRule.kind = "autorec"
    <2>1. /\ TheTimer = [state |-> "scheduled", err |-> "", enabled |-> TRUE, kind |-> "autorec", rule |-> 1,
                         life |-> 1, dup |-> FALSE]
          /\ TheRule = [kind |-> "autorec", enabled |-> TRUE, life |-> 1, from |-> AnyTime, to |-> AnyTime]
      BY DEF TheTimer, TheRule, RecEntry, RuleEntry
    <2>2. 1 \in 0..MaxRules /\ 1 \in 0..Forever /\ 1 \in 0..(Wide - 1) /\ AnyTime \in Times
      BY TimersAssumption, Widths DEF Times
    <2>3. "autorec" \in Kinds /\ "autorec" \in Made /\ "scheduled" \in States
      BY DEF Kinds, Made, States
    <2>4. TheRule \in RuleEntries
      BY <2>1, <2>2, <2>3 DEF RuleEntries
    <2>5. TheTimer \in [state : States, err : {"", "noFreeAdapter", "300", "missing"}, enabled : BOOLEAN,
                         kind : Made, rule : 0..MaxRules, life : 0..Forever, dup : BOOLEAN]
      BY <2>1, <2>2, <2>3
    <2>6. TheTimer.state = "scheduled" /\ TheTimer.err = "" /\ ~TheTimer.dup
      BY <2>1
    <2>7. TheTimer \in RecEntries
      BY <2>5, <2>6 DEF RecEntries
    <2> QED BY <2>1, <2>4, <2>7
  <1>2. /\ DOMAIN srvRecs = {FirstId + 1} /\ srvRecs[FirstId + 1] = TheTimer
        /\ srvRecs = [id \in DOMAIN srvRecs |-> srvRecs[id]]
        /\ DOMAIN srvRules = {1} /\ srvRules[1] = TheRule
        /\ srvRules = [sid \in DOMAIN srvRules |-> srvRules[sid]]
    BY DEF Init, With, Empty
  <1>3. /\ approx \in BOOLEAN /\ made = [recs |-> 1, rules |-> 1] /\ queue = Listing /\ level = "init"
        /\ intId = 0 /\ list = {} /\ told = FALSE /\ call = Idle /\ said = None /\ calls = 0 /\ events = 0
        /\ recs = Empty /\ rules = Empty /\ wishes = Empty
    BY DEF Init
  <1>4. DOMAIN recs = {} /\ DOMAIN rules = {} /\ DOMAIN wishes = {}
    BY <1>3 DEF Empty
  <1>5. FirstId + 1 \in RecIds /\ 1 \in RuleIds /\ TopRec = FirstId + 1 /\ made.rules = 1
    BY <1>3, TimersAssumption DEF RecIds, RuleIds, TopRec
  <1>6. \A k \in 1..Len(queue) :
           \/ queue[k][1] \in {"channelAdd", "initialSyncCompleted"}
           \/ queue[k][1] = "ruleEntry" /\ queue[k][2] = 1 /\ queue[k][3] = TheRule
           \/ queue[k][1] = "dvrEntry" /\ queue[k][2] = FirstId + 1 /\ queue[k][3] = TheTimer
    BY <1>3, ListingIs DEF Message, RuleAdded, Added
  <1>7. Types
    <2>1. \A k \in 1..Len(queue) : queue[k] \in Messages
      <3>1. /\ Message("channelAdd", 0, None) \in Messages /\ Message("initialSyncCompleted", 0, None) \in Messages
            /\ RuleAdded(1, TheRule) \in Messages /\ Added(FirstId + 1, TheTimer) \in Messages
        BY <1>1, <1>5 DEF Messages, Message, RuleAdded, Added
      <3> QED BY <1>3, <3>1, ListingIs
    <2>2. PICK S : queue \in Seq(S)
      BY <1>3, ListingIs
    <2>3. queue \in Seq(Messages)
      BY <2>1, <2>2
    <2>4. made \in [recs : 0..MaxRecs, rules : 0..MaxRules] /\ calls \in 0..MaxCalls /\ events \in 0..MaxEvents
      BY <1>3, TimersAssumption
    <2>5. recs \in [DOMAIN recs -> KeptRecs] /\ rules \in [DOMAIN rules -> KeptRules]
      BY <1>3, <1>4 DEF Empty
    <2>6. srvRecs \in [DOMAIN srvRecs -> RecEntries] /\ srvRules \in [DOMAIN srvRules -> RuleEntries]
      BY <1>1, <1>2
    <2> QED BY <1>2, <1>3, <1>4, <1>5, <2>3, <2>4, <2>5, <2>6 DEF Types
  <1>8. Fresh
    <2>1. FirstId + 1 <= TopRec /\ 1 <= made.rules
      BY <1>5, TimersAssumption
    <2>2. \A id \in DOMAIN srvRecs : id = FirstId + 1 /\ srvRecs[id] = TheTimer
      BY <1>2
    <2>3. \A sid \in DOMAIN srvRules : sid = 1
      BY <1>2
    <2>4. Numbered
      BY <1>1, <1>2, <2>1, <2>2, <2>3 DEF Numbered
    <2> QED BY <1>4, <2>4 DEF Fresh
  <1>9. Told
    <2>1. Follows(queue, RecKinds, srvRecs, TopRec)
      <3>1. ASSUME NEW k \in 1..Len(queue), queue[k][1] \in RecKinds
            PROVE  /\ queue[k][2] = FirstId + 1 /\ queue[k][3] = TheTimer /\ Gives(queue[k])
        <4>1. queue[k][1] = "dvrEntry" /\ queue[k][2] = FirstId + 1 /\ queue[k][3] = TheTimer
          BY <1>6, <3>1 DEF RecKinds
        <4> QED BY <1>1, <4>1 DEF Gives
      <3>2. FirstId + 1 <= TopRec /\ FirstId + 1 \in DOMAIN srvRecs
        BY <1>2, <1>5, TimersAssumption
      <3> QED BY <1>2, <3>1, <3>2 DEF Follows
    <2>2. Follows(queue, RuleKinds, srvRules, made.rules)
      <3>1. ASSUME NEW k \in 1..Len(queue), queue[k][1] \in RuleKinds
            PROVE  queue[k][2] = 1 /\ queue[k][3] = TheRule /\ Gives(queue[k])
        <4>1. queue[k][1] = "ruleEntry" /\ queue[k][2] = 1 /\ queue[k][3] = TheRule
          BY <1>6, <3>1 DEF RuleKinds
        <4> QED BY <4>1 DEF Gives
      <3>2. 1 <= made.rules /\ 1 \in DOMAIN srvRules
        BY <1>2, <1>5
      <3> QED BY <1>2, <3>1, <3>2 DEF Follows
    <2> QED BY <2>1, <2>2 DEF Told
  <1>10. RecsAgree
    <2>1. ~Silent(queue, RecKinds, FirstId + 1)
      BY <1>3, ListingIs DEF Silent, About, RecKinds, Added, Message
    <2> QED BY <1>2, <1>4, <2>1 DEF RecsAgree
  <1>11. RulesAgree
    <2>1. ~Silent(queue, RuleKinds, 1)
      BY <1>3, ListingIs DEF Silent, About, RuleKinds, RuleAdded, Message
    <2>2. ChannelFirst => queue # <<>> /\ queue[1][1] = "channelAdd"
      BY <1>3, ListingIs DEF Message
    <2> QED BY <1>2, <1>4, <2>1, <2>2 DEF RulesAgree
  <1>12. Started
    <2>1. \A k \in 1..Len(queue) : queue[k][1] = "dvrEntry" => queue[k][3] = TheTimer
      BY <1>6
    <2> QED BY <1>1, <1>4, <2>1 DEF Started, Unstarted
  <1>13. SameKind
    <2>1. \A k \in 1..Len(queue) : queue[k][1] = "ruleEntry" => queue[k][2] = 1 /\ queue[k][3] = TheRule
      BY <1>6
    <2> QED BY <1>2, <1>4, <2>1 DEF SameKind
  <1>14. Levels /\ Ints /\ Items /\ Current /\ WishesMet
    BY <1>3, <1>4 DEF Levels, Ints, Items, Current, WishesMet
  <1>15. CallOK
    <2>1. IsGone(None)
      BY DEF IsGone, None
    <2> QED BY <1>3, <2>1 DEF CallOK, CallForm, Idle
  <1> QED BY <1>7, <1>8, <1>9, <1>10, <1>11, <1>12, <1>13, <1>14, <1>15 DEF IInv

\* It holds when nothing happens,
LEMMA Stutters ==
  ASSUME IInv, UNCHANGED vars
  PROVE  IInv'
  <1>1. UNCHANGED <<approx, srvRecs, srvRules, made, queue, level, recs, rules, intId, list, told, call, said,
                    wishes, calls, events>>
    BY DEF vars, srvVars, addonVars, kodiVars
  <1>2. Types' /\ Fresh' /\ Told' /\ Levels' /\ SameKind' /\ Ints'
    BY <1>1 DEF IInv, Types, Fresh, Numbered, Told, Follows, Levels, SameKind, Ints, TopRec
  <1>3. RecsAgree' /\ RulesAgree' /\ Started'
    BY <1>1 DEF IInv, RecsAgree, RulesAgree, Started, StartedFrom, Silent
  <1>4. Items'
    BY <1>1 DEF IInv, Items, TimerItem, RecordingItem, RuleItem, RecItem, TopRec, StartedFrom, Silent
  <1>5. Current' /\ WishesMet'
    <2>1. Current => Current'
      BY <1>1, ZenonT(60) DEF Current, CreateTimer, RuleTimer, Recording, IntIdOf
    <2>2. WishesMet => WishesMet'
      BY <1>1 DEF WishesMet, WishMet, RuleMeets, TopRec
    <2> QED BY <2>1, <2>2 DEF IInv
  <1>6. CallOK'
    <2>1. IsGone(said) => IsGone(said)'
      BY <1>1 DEF IsGone, GoneRec, GoneRule, TopRec
    <2>2. Request => Request'
      <3>1. Form => Form'
        BY <1>1 DEF Form, Req, KeyOf
      <3>2. Means => Means'
        BY <1>1 DEF Means, Req, RuleMeets, Sent
      <3>3. Aims => Aims'
        BY <1>1 DEF Aims, Req, TopRec
      <3>4. Done => Done'
        BY <1>1 DEF Done, Req, KeyOf, IsGone, GoneRec, GoneRule, TopRec
      <3> QED BY <3>1, <3>2, <3>3, <3>4 DEF Request
    <2> QED BY <1>1, <2>1, <2>2 DEF IInv, CallOK, CallForm
  <1> QED BY <1>2, <1>3, <1>4, <1>5, <1>6 DEF IInv

\* and after every step.
LEMMA Steps ==
  ASSUME IInv, [Next]_vars
  PROVE  IInv'
  <1>1. CASE Process
    BY <1>1, ChannelAddOn, RecordingAddOrUpdateOn, RecordingDeleteOn, RuleAddOrUpdateOn, RuleDeleteOn,
       SyncCompletedOn DEF Process
  <1>2. CASE GetTimers
    BY <1>2, GetTimersOn
  <1>3. CASE User
    BY <1>3, AddTimerOn, DeleteTimerOn, UpdateTimerOn, DeleteRecordingOn, SetRecordingLifetimeOn DEF User
  <1>4. CASE ServerExecutes
    BY <1>4, ServerExecutesOn
  <1>5. CASE ServerRefuses
    BY <1>5, ServerRefusesOn
  <1>6. CASE Returns
    BY <1>6, ReturnsOn
  <1>7. CASE ServerActs
    BY <1>7, ServerActsOn
  <1>8. CASE UNCHANGED vars
    BY <1>8, Stutters
  <1> QED BY <1>1, <1>2, <1>3, <1>4, <1>5, <1>6, <1>7, <1>8 DEF Next

(***************************************************************************)
(* The inductive invariant. What is on its way in m_queue says how the     *)
(* addon's entries will become the server's (Told, RecsAgree, RulesAgree), *)
(* what has been recorded is never scheduled again (Started), an index     *)
(* belongs to one rule for ever (Ints), Kodi's list, however old, shows    *)
(* what its indices still lead to (Items), and what the user has set is    *)
(* what the server has (WishesMet).                                        *)
(***************************************************************************)
THEOREM TimersInductive == Spec => []IInv
  <1>1. Init => IInv
    BY Initially
  <1>2. IInv /\ [Next]_vars => IInv'
    BY Steps
  <1> QED BY <1>1, <1>2, PTL DEF Spec


(***************************************************************************)
(* The variables have their types, and no rule has the index 0 or one that *)
(* GetNextIntId has not given, however the steps of the user, of Kodi, of  *)
(* the Process thread and of the server are mixed.                         *)
(***************************************************************************)
THEOREM TimersTypes == Spec => []TypeOK
  <1>1. ASSUME IInv PROVE TypeOK
    <2>1. Types /\ Ints /\ CallOK
      BY <1>1 DEF IInv
    <2>2. \A sid \in DOMAIN srvRules : LET r == srvRules[sid] IN
            /\ r.life \in 0..(Wide - 1) /\ r.from \in 0..Day \cup {AnyTime} /\ r.to \in 0..Day \cup {AnyTime}
      BY <2>1 DEF Types, RuleEntries, Times
    <2>3. \A id \in DOMAIN srvRecs : srvRecs[id].life \in 0..(Wide - 1)
      <3>1. \A id \in DOMAIN srvRecs : srvRecs[id].life \in 0..Forever
        BY <2>1 DEF Types, RecEntries
      <3> QED BY <3>1, Widths
    <2>4. \A sid \in DOMAIN rules : rules[sid].int \in 1..intId
      <3>1. \A sid \in DOMAIN rules : rules[sid].int \in Nat \ {0} /\ rules[sid].int <= intId
        BY <2>1 DEF Types, Ints, KeptRules
      <3> QED BY <2>1, <3>1 DEF Types
    <2> QED BY <2>1, <2>2, <2>3, <2>4 DEF TypeOK, Types, CallOK
  <1> QED BY <1>1, TimersInductive, PTL

(***************************************************************************)
(* The index that Kodi gives is looked up again when the user's call is    *)
(* made, and by then the entries may be others: what the server is asked   *)
(* to change or delete is nevertheless what the user picked, however old   *)
(* the list. This holds as long as the indices of the rules are below the  *)
(* numbers of the recordings; beyond, DeleteTimer finds a recording under  *)
(* the index of a rule.                                                    *)
(***************************************************************************)
THEOREM TheRightTimer == Spec => [](intId <= FirstId => RightTimer)
  <1>1. ASSUME IInv PROVE intId <= FirstId => RightTimer
    <2>1. SUFFICES ASSUME intId <= FirstId, call.at = "asked", call.op # "add"
                   PROVE  call.item.key = KeyOf(Req)
      BY DEF RightTimer, KeyOf, OnRule
    <2>2. Form
      BY <1>1, <2>1 DEF IInv, CallOK, Request
    <2> QED BY <2>1, <2>2 DEF Form
  <1> QED BY <1>1, TimersInductive, PTL

(***************************************************************************)
(* DeleteTimer: what Kodi shows as being recorded is stopped gracefully.   *)
(* If a cancellation is sent for it at all, then the server has no such    *)
(* recording any more: no recording that runs is ever aborted by it.       *)
(***************************************************************************)
THEOREM RecordingsStopGracefully == Spec => []StopsGracefully
  <1>1. ASSUME IInv PROVE StopsGracefully
    <2>1. SUFFICES ASSUME call.at = "asked", call.op = "delete", call.item.state = "recording",
                          Req.op = "cancelDvrEntry"
                   PROVE  Req.id \notin DOMAIN srvRecs
      BY DEF StopsGracefully
    <2>2. Aims
      BY <1>1, <2>1 DEF IInv, CallOK, Request
    <2> QED BY <2>1, <2>2 DEF Aims
  <1> QED BY <1>1, TimersInductive, PTL

-----------------------------------------------------------------------------
(***************************************************************************)
(* Once everything is handled.                                             *)
(***************************************************************************)
\* The server's entries that are no ignored duplicates.
Heeded == {id \in DOMAIN srvRecs : ~Ignored(srvRecs[id])}

LEMMA HiddenKeys ==
  /\ \A id \in DOMAIN srvRecs : <<"rec", id>> \in Hidden <=> id \notin Heeded
  /\ \A sid : <<"rule", sid>> \notin Hidden
  <1>1. \A x, y : <<"rec", x>> = <<"rec", y>> => x = y
    OBVIOUS
  <1>2. \A x, y : <<"rule", x>> # <<"rec", y>>
    OBVIOUS
  <1> QED BY <1>1, <1>2 DEF Hidden, Heeded, Ignored

\* The addon has what the server has, and Kodi's lists are the addon's.
LEMMA AtRest ==
  ASSUME IInv, Quiet
  PROVE  /\ DOMAIN recs \subseteq DOMAIN srvRecs
         /\ \A id \in Heeded : id \in DOMAIN recs /\ recs[id] = Kept(srvRecs[id])
         /\ ChannelFirst =>
              /\ DOMAIN rules = DOMAIN srvRules
              /\ \A sid \in DOMAIN srvRules : KeptRule(rules[sid], srvRules[sid])
         /\ \A i \in list : \/ \E id \in DOMAIN recs : IsTimer(recs[id]) /\ i = CreateTimer(id)
                            \/ \E sid \in DOMAIN rules : i = RuleTimer(sid)
                            \/ \E id \in DOMAIN recs : IsRecording(recs[id]) /\ i = Recording(id)
         /\ \A id \in DOMAIN recs : /\ IsTimer(recs[id]) => CreateTimer(id) \in list
                                    /\ IsRecording(recs[id]) => Recording(id) \in list
         /\ \A sid \in DOMAIN rules : RuleTimer(sid) \in list
  <1>1. \A kinds, x : Silent(queue, kinds, x)
    BY DEF Quiet, Silent
  <1>2. /\ DOMAIN recs \subseteq RecIds /\ DOMAIN srvRecs \subseteq RecIds
        /\ DOMAIN rules \subseteq RuleIds /\ DOMAIN srvRules \subseteq RuleIds
    BY DEF IInv, Types
  <1>3. DOMAIN recs \subseteq DOMAIN srvRecs /\ \A id \in Heeded : id \in DOMAIN recs /\ recs[id] = Kept(srvRecs[id])
    BY <1>1, <1>2 DEF IInv, RecsAgree, Heeded
  <1>4. ChannelFirst =>
          /\ DOMAIN rules = DOMAIN srvRules
          /\ \A sid \in DOMAIN srvRules : KeptRule(rules[sid], srvRules[sid])
    BY <1>1, <1>2 DEF IInv, RulesAgree
  <1>5. list = {CreateTimer(id) : id \in {i \in DOMAIN recs : IsTimer(recs[i])}}
               \cup {RuleTimer(sid) : sid \in DOMAIN rules}
               \cup {Recording(id) : id \in {i \in DOMAIN recs : IsRecording(recs[i])}}
    BY DEF Quiet, IInv, Current
  <1> QED BY <1>3, <1>4, <1>5

\* GetTimers and GetRecordings tell the server's states apart.
LEMMA StatesAgree ==
  ASSUME NEW e \in RecEntries
  PROVE  /\ IsTimer(Kept(e)) <=> e.state \notin Over /\ e.err = ""
         /\ IsTimer(Kept(e)) => Kept(e).state = e.state
         /\ IsRecording(Kept(e)) <=> e.state \notin {"scheduled", "missed"}
         /\ IsRecording(Kept(e)) => Kept(e).state = StateOf(e)
         /\ Kept(e).enabled = e.enabled /\ Kept(e).rule = e.rule /\ Kept(e).kind = e.kind
         /\ Kept(e).life = e.life
  BY DEF IsTimer, IsRecording, Kept, StateOf, RecEntries, States, Over

\* Every timer is shown under the rule that made it, as long as that exists.
LEMMA ParentShown ==
  ASSUME IInv, Quiet, ChannelFirst, intId <= FirstId, NEW id \in Heeded
  PROVE  ParentKey(CreateTimer(id)) =
           {<<"rule", srvRecs[id].rule>>} \cap {<<"rule", sid>> : sid \in DOMAIN srvRules}
  <1>1. PICK p : p = srvRecs[id].rule
    OBVIOUS
  <1>2. PICK i : i = CreateTimer(id)
    OBVIOUS
  <1>3. /\ id \in DOMAIN recs /\ recs[id] = Kept(srvRecs[id]) /\ srvRecs[id] \in RecEntries
        /\ DOMAIN rules = DOMAIN srvRules
        /\ \A sid \in DOMAIN srvRules : rules[sid].kind = srvRules[sid].kind
        /\ p \in DOMAIN srvRules => srvRules[p].kind = srvRecs[id].kind
    BY <1>1, AtRest DEF IInv, Types, Fresh, Numbered, KeptRule, Heeded
  <1>4. recs[id].rule = p /\ recs[id].kind = srvRecs[id].kind
    BY <1>1, <1>3, StatesAgree
  <1>5. i.parent = IF p # 0 /\ p \in DOMAIN rules THEN rules[p].int ELSE 0
    <2>1. i.parent = IF p # 0 THEN IntIdOf(recs[id].kind, p) ELSE 0
      BY <1>2, <1>4 DEF CreateTimer, Item
    <2> QED BY <1>3, <1>4, <2>1 DEF IntIdOf
  <1>6. /\ DOMAIN rules \subseteq RuleIds /\ 0 \notin RuleIds /\ intId \in Nat
        /\ \A sid \in DOMAIN rules : rules[sid].int \in Nat \ {0} /\ rules[sid].int <= FirstId
        /\ \A sid, t \in DOMAIN rules : rules[sid].int = rules[t].int => sid = t
    <2>1. Types /\ Ints
      BY DEF IInv
    <2>2. \A sid \in DOMAIN rules : rules[sid].int \in Nat \ {0} /\ rules[sid].int <= intId
      BY <2>1 DEF Types, Ints, KeptRules
    <2>3. 0 \notin RuleIds
      BY DEF RuleIds
    <2> QED BY <2>1, <2>2, <2>3, TimersAssumption, SMTT(30) DEF Types, Ints
  <1>7. ASSUME NEW j \in list, j.what = "timer", i.parent # 0, j.idx = i.parent
        PROVE  p \in DOMAIN rules /\ j.key = <<"rule", p>>
    <2>1. p \in DOMAIN rules /\ i.parent = rules[p].int
      BY <1>5, <1>7
    <2>2. CASE \E sid \in DOMAIN rules : j = RuleTimer(sid)
      <3>1. PICK sid \in DOMAIN rules : j = RuleTimer(sid)
        BY <2>2
      <3>2. j.idx = rules[sid].int /\ j.key = <<"rule", sid>>
        BY <3>1 DEF RuleTimer, Item
      <3> QED BY <1>6, <1>7, <2>1, <3>2
    <2>3. CASE \E x \in DOMAIN recs : j = CreateTimer(x)
      <3>1. PICK x \in DOMAIN recs : j = CreateTimer(x)
        BY <2>3
      <3>2. j.idx = x
        BY <3>1 DEF CreateTimer, Item
      <3>3. x \in RecIds
        BY DEF IInv, Types
      <3>4. x \in Int /\ x > FirstId
        BY <3>3, TimersAssumption DEF RecIds
      <3>5. rules[p].int \in Nat /\ rules[p].int <= FirstId
        BY <1>6, <2>1
      <3> QED BY <1>7, <2>1, <3>2, <3>4, <3>5, TimersAssumption
    <2>4. ~(\E x \in DOMAIN recs : j = Recording(x))
      BY <1>7 DEF Recording, Item
    <2> QED BY <2>2, <2>3, <2>4, AtRest
  <1>8. ASSUME p \in DOMAIN rules
        PROVE  \E j \in list : j.what = "timer" /\ i.parent # 0 /\ j.idx = i.parent /\ j.key = <<"rule", p>>
    <2>1. i.parent = rules[p].int /\ i.parent # 0
      BY <1>5, <1>6, <1>8
    <2>2. RuleTimer(p) \in list
      BY <1>8, AtRest
    <2>3. RuleTimer(p).what = "timer" /\ RuleTimer(p).idx = rules[p].int /\ RuleTimer(p).key = <<"rule", p>>
      BY DEF RuleTimer, Item
    <2> QED BY <2>1, <2>2, <2>3
  <1>9. ParentKey(i) = {j.key : j \in {k \in list : k.what = "timer" /\ i.parent # 0 /\ k.idx = i.parent}}
    BY DEF ParentKey
  <1>10. CASE p \in DOMAIN rules
    <2>1. ParentKey(i) = {<<"rule", p>>}
      BY <1>7, <1>8, <1>9, <1>10
    <2> QED BY <1>1, <1>2, <1>3, <1>10, <2>1
  <1>11. CASE p \notin DOMAIN rules
    <2>1. ParentKey(i) = {}
      BY <1>7, <1>9, <1>11
    <2>2. <<"rule", p>> \notin {<<"rule", sid>> : sid \in DOMAIN srvRules}
      BY <1>3, <1>11
    <2> QED BY <1>1, <1>2, <2>1, <2>2
  <1> QED BY <1>10, <1>11


\* An entry of Kodi's lists as the server has it.
Reduced(i) == [key |-> i.key, what |-> i.what, state |-> i.state, parent |-> ParentKey(i)]
RuleThere(sid) ==
  [key |-> <<"rule", sid>>, what |-> "timer",
   state |-> IF srvRules[sid].enabled THEN "scheduled" ELSE "disabled", parent |-> {}]
TimerThere(id) ==
  [key |-> <<"rec", id>>, what |-> "timer",
   state |-> IF srvRecs[id].enabled THEN srvRecs[id].state ELSE "disabled",
   parent |-> {<<"rule", srvRecs[id].rule>>} \cap {<<"rule", sid>> : sid \in DOMAIN srvRules}]
RecordingThere(id) ==
  [key |-> <<"rec", id>>, what |-> "recording", state |-> StateOf(srvRecs[id]), parent |-> {}]

\* Entry by entry, what Kodi is shown is what the server has, but for duplicates.
LEMMA EntriesAgree ==
  ASSUME IInv, Quiet, ChannelFirst, intId <= FirstId
  PROVE  /\ \A id \in Heeded : IsTimer(recs[id]) => Reduced(CreateTimer(id)) = TimerThere(id)
         /\ \A sid \in DOMAIN srvRules : Reduced(RuleTimer(sid)) = RuleThere(sid)
         /\ \A id \in Heeded : IsRecording(recs[id]) => Reduced(Recording(id)) = RecordingThere(id)
  <1>1. \A i : i.parent = 0 => ParentKey(i) = {}
    BY DEF ParentKey
  <1>2. ASSUME NEW id \in Heeded, IsTimer(recs[id])
        PROVE  Reduced(CreateTimer(id)) = TimerThere(id)
    <2>1. PICK i : i = CreateTimer(id)
      OBVIOUS
    <2>2. i.key = <<"rec", id>> /\ i.what = "timer" /\ i.state = Shown(recs[id].enabled, recs[id].state)
      BY <2>1 DEF CreateTimer, Item
    <2>3. recs[id] = Kept(srvRecs[id]) /\ srvRecs[id] \in RecEntries /\ id \in DOMAIN recs
      BY AtRest DEF IInv, Types, Heeded
    <2>4. recs[id].enabled = srvRecs[id].enabled /\ recs[id].state = srvRecs[id].state
      BY <1>2, <2>3, StatesAgree
    <2>5. ParentKey(i) = {<<"rule", srvRecs[id].rule>>} \cap {<<"rule", sid>> : sid \in DOMAIN srvRules}
      BY <2>1, <2>3, ParentShown
    <2> QED BY <2>1, <2>2, <2>4, <2>5 DEF Reduced, TimerThere, Shown
  <1>3. ASSUME NEW sid \in DOMAIN srvRules
        PROVE  Reduced(RuleTimer(sid)) = RuleThere(sid)
    <2>1. PICK i : i = RuleTimer(sid)
      OBVIOUS
    <2>2. /\ i.key = <<"rule", sid>> /\ i.what = "timer" /\ i.state = Shown(rules[sid].enabled, "scheduled")
          /\ i.parent = 0
      BY <2>1 DEF RuleTimer, Item
    <2>3. rules[sid].enabled = srvRules[sid].enabled
      BY AtRest DEF KeptRule
    <2> QED BY <1>1, <2>1, <2>2, <2>3 DEF Reduced, RuleThere, Shown
  <1>4. ASSUME NEW id \in Heeded, IsRecording(recs[id])
        PROVE  Reduced(Recording(id)) = RecordingThere(id)
    <2>1. PICK i : i = Recording(id)
      OBVIOUS
    <2>2. i.key = <<"rec", id>> /\ i.what = "recording" /\ i.state = recs[id].state /\ i.parent = 0
      BY <2>1 DEF Recording, Item
    <2>3. recs[id] = Kept(srvRecs[id]) /\ srvRecs[id] \in RecEntries
      BY AtRest DEF IInv, Types, Heeded
    <2>4. recs[id].state = StateOf(srvRecs[id])
      BY <2>3 DEF Kept
    <2> QED BY <1>1, <2>1, <2>2, <2>4 DEF Reduced, RecordingThere
  <1> QED BY <1>2, <1>3, <1>4

(***************************************************************************)
(* Once everything is handled Kodi's lists are what the server has: every  *)
(* timer, rule and recording with its state, every timer under the rule    *)
(* that made it, and nothing that the server does not have. Left out are   *)
(* the timers that are duplicates at the server, if the setting says that  *)
(* they are ignored: Kodi has them as they were before, or not at all.     *)
(* This is for a server that lists a channel first: without one, the first *)
(* recording of the listing flags the rules received before it and they    *)
(* are removed at its end (SyncDvrCompleted).                              *)
(***************************************************************************)
THEOREM KodiHasTheServersEntries == Spec => [](ChannelFirst /\ intId <= FirstId => KodiAgrees)
  <1>1. ASSUME IInv PROVE ChannelFirst /\ intId <= FirstId => KodiAgrees
    <2>1. SUFFICES ASSUME ChannelFirst, intId <= FirstId, Quiet PROVE Seen(InList) = Seen(AtServer)
      BY DEF KodiAgrees
    <2>2. InList = {Reduced(i) : i \in list}
      BY DEF InList, Reduced
    <2>3. AtServer = {RuleThere(sid) : sid \in DOMAIN srvRules}
                     \cup {TimerThere(id) :
                             id \in {i \in DOMAIN srvRecs : srvRecs[i].state \notin Over /\ srvRecs[i].err = ""}}
                     \cup {RecordingThere(id) :
                             id \in {i \in DOMAIN srvRecs : srvRecs[i].state \notin {"scheduled", "missed"}}}
      BY DEF AtServer, RuleThere, TimerThere, RecordingThere, Over
    <2>4. /\ DOMAIN recs \subseteq DOMAIN srvRecs /\ Heeded \subseteq DOMAIN recs /\ DOMAIN rules = DOMAIN srvRules
          /\ \A id \in Heeded : /\ IsTimer(recs[id]) <=> srvRecs[id].state \notin Over /\ srvRecs[id].err = ""
                                /\ IsRecording(recs[id]) <=> srvRecs[id].state \notin {"scheduled", "missed"}
      <3>1. \A id \in Heeded : srvRecs[id] \in RecEntries
        BY <1>1 DEF IInv, Types, Heeded
      <3>2. \A id \in Heeded : id \in DOMAIN recs /\ recs[id] = Kept(srvRecs[id])
        BY <1>1, <2>1, AtRest
      <3>3. DOMAIN recs \subseteq DOMAIN srvRecs /\ DOMAIN rules = DOMAIN srvRules
        BY <1>1, <2>1, AtRest
      <3> QED BY <3>1, <3>2, <3>3, StatesAgree
    <2>5. /\ \A id \in DOMAIN srvRecs : CreateTimer(id).key \notin Hidden => id \in Heeded
          /\ \A id \in DOMAIN srvRecs : Recording(id).key \notin Hidden => id \in Heeded
      BY HiddenKeys DEF CreateTimer, Recording, Item
    <2>6. /\ \A id \in DOMAIN srvRecs : TimerThere(id).key \notin Hidden => id \in Heeded
          /\ \A id \in DOMAIN srvRecs : RecordingThere(id).key \notin Hidden => id \in Heeded
      BY HiddenKeys DEF TimerThere, RecordingThere
    <2>7. ASSUME NEW i \in list, i.key \notin Hidden PROVE Reduced(i) \in AtServer
      <3>1. CASE \E id \in DOMAIN recs : IsTimer(recs[id]) /\ i = CreateTimer(id)
        <4>1. PICK id \in DOMAIN recs : IsTimer(recs[id]) /\ i = CreateTimer(id)
          BY <3>1
        <4>2. id \in Heeded /\ id \in DOMAIN srvRecs
          BY <2>4, <2>5, <2>7, <4>1
        <4>3. Reduced(i) = TimerThere(id)
          BY <1>1, <2>1, <4>1, <4>2, EntriesAgree
        <4> QED BY <2>3, <2>4, <4>1, <4>2, <4>3
      <3>2. CASE \E sid \in DOMAIN rules : i = RuleTimer(sid)
        <4>1. PICK sid \in DOMAIN rules : i = RuleTimer(sid)
          BY <3>2
        <4>2. Reduced(i) = RuleThere(sid)
          BY <1>1, <2>1, <2>4, <4>1, EntriesAgree
        <4> QED BY <2>3, <2>4, <4>1, <4>2
      <3>3. CASE \E id \in DOMAIN recs : IsRecording(recs[id]) /\ i = Recording(id)
        <4>1. PICK id \in DOMAIN recs : IsRecording(recs[id]) /\ i = Recording(id)
          BY <3>3
        <4>2. id \in Heeded /\ id \in DOMAIN srvRecs
          BY <2>4, <2>5, <2>7, <4>1
        <4>3. Reduced(i) = RecordingThere(id)
          BY <1>1, <2>1, <4>1, <4>2, EntriesAgree
        <4> QED BY <2>3, <2>4, <4>1, <4>2, <4>3
      <3> QED BY <1>1, <2>1, <3>1, <3>2, <3>3, AtRest
    <2>8. ASSUME NEW there \in AtServer, there.key \notin Hidden PROVE \E i \in list : there = Reduced(i)
      <3>1. CASE \E sid \in DOMAIN srvRules : there = RuleThere(sid)
        BY <1>1, <2>1, <2>4, <3>1, EntriesAgree, AtRest
      <3>2. CASE \E id \in Heeded : IsTimer(recs[id]) /\ there = TimerThere(id)
        BY <1>1, <2>1, <2>4, <3>2, EntriesAgree, AtRest
      <3>3. CASE \E id \in Heeded : IsRecording(recs[id]) /\ there = RecordingThere(id)
        BY <1>1, <2>1, <2>4, <3>3, EntriesAgree, AtRest
      <3>4. ASSUME NEW id \in DOMAIN srvRecs, srvRecs[id].state \notin Over, srvRecs[id].err = "", there = TimerThere(id)
            PROVE  id \in Heeded /\ IsTimer(recs[id])
        BY <2>4, <2>6, <2>8, <3>4
      <3>5. ASSUME NEW id \in DOMAIN srvRecs, srvRecs[id].state \notin {"scheduled", "missed"}, there = RecordingThere(id)
            PROVE  id \in Heeded /\ IsRecording(recs[id])
        BY <2>4, <2>6, <2>8, <3>5
      <3> QED BY <2>3, <3>1, <3>2, <3>3, <3>4, <3>5
    <2>9. \A i : Reduced(i).key = i.key
      BY DEF Reduced
    <2> QED BY <2>2, <2>7, <2>8, <2>9 DEF Seen
  <1> QED BY <1>1, TimersInductive, PTL

(***************************************************************************)
(* DeleteTimer reports PVR_ERROR_NO_ERROR: once everything is handled, the *)
(* timer, or the rule, that the user picked is not among Kodi's timers. A  *)
(* recording that was stopped is no timer any more. A duplicate goes too:  *)
(* that a timer is deleted is heeded whatever it is.                       *)
(***************************************************************************)
THEOREM DeletedTimersAreGone == Spec => [](ChannelFirst /\ intId <= FirstId => DeletedIsGone)
  <1>1. ASSUME IInv PROVE ChannelFirst /\ intId <= FirstId => DeletedIsGone
    <2>1. SUFFICES ASSUME ChannelFirst, intId <= FirstId, Quiet, NEW i \in list, i.what = "timer", i.key = said
                   PROVE  FALSE
      BY DEF DeletedIsGone
    <2>2. IsGone(said)
      BY <1>1, <2>1 DEF IInv, CallOK
    <2>3. CASE \E id \in DOMAIN recs : IsTimer(recs[id]) /\ i = CreateTimer(id)
      <3>1. PICK id \in DOMAIN recs : IsTimer(recs[id]) /\ i = CreateTimer(id)
        BY <2>3
      <3>2. said = <<"rec", id>>
        BY <2>1, <3>1 DEF CreateTimer, Item
      <3>3. id \in DOMAIN srvRecs /\ srvRecs[id] \in RecEntries
        BY <1>1, <2>1, <3>1, AtRest DEF IInv, Types
      <3>4. srvRecs[id].state \in Over
        BY <2>2, <3>2, <3>3 DEF IsGone, GoneRec
      <3>5. id \in Heeded
        BY <3>3, <3>4 DEF Heeded, Ignored, RecEntries, Over
      <3>6. recs[id] = Kept(srvRecs[id])
        BY <1>1, <2>1, <3>5, AtRest
      <3> QED BY <3>1, <3>3, <3>4, <3>6, StatesAgree
    <2>4. CASE \E sid \in DOMAIN rules : i = RuleTimer(sid)
      <3>1. PICK sid \in DOMAIN rules : i = RuleTimer(sid)
        BY <2>4
      <3>2. said = <<"rule", sid>>
        BY <2>1, <3>1 DEF RuleTimer, Item
      <3>3. sid \in DOMAIN srvRules
        BY <1>1, <2>1, <3>1, AtRest
      <3> QED BY <2>2, <3>2, <3>3 DEF IsGone, GoneRule
    <2>5. ~(\E id \in DOMAIN recs : i = Recording(id))
      BY <2>1 DEF Recording, Item
    <2> QED BY <1>1, <2>1, <2>3, <2>4, <2>5, AtRest
  <1> QED BY <1>1, TimersInductive, PTL

(***************************************************************************)
(* AddTimer, UpdateTimer and SetRecordingLifetime: once everything is      *)
(* handled the user finds the lifetime and the times that he has set last, *)
(* through the mapping of lifetimes and of windows to the server's and     *)
(* back, with approximate start times or without: of every rule, and of    *)
(* every timer and recording that is no duplicate that is ignored, whose   *)
(* old lifetime stays.                                                     *)
(***************************************************************************)
THEOREM SettingsReturn == Spec => [](ChannelFirst => ShownAsSet)
  <1>1. ASSUME IInv PROVE ChannelFirst => ShownAsSet
    <2>1. SUFFICES ASSUME ChannelFirst, Quiet, NEW i \in list, i.key \in DOMAIN wishes, i.key \notin Hidden
                   PROVE  /\ i.life = wishes[i.key].life
                          /\ i.type \in Kinds => SameTime(i.start, wishes[i.key].slot[1])
                          /\ i.type \in Kinds /\ ~(approx /\ i.type = "autorec") =>
                               SameTime(i.stop, wishes[i.key].slot[2])
      BY DEF ShownAsSet
    <2>2. PICK key : key = i.key
      OBVIOUS
    <2>3. WishMet(key)
      BY <1>1, <2>1, <2>2 DEF IInv, WishesMet
    <2>4. ASSUME NEW id \in DOMAIN recs, key = <<"rec", id>>, i.life = TvhToKodi(recs[id].life), i.type \notin Kinds
          PROVE  i.life = wishes[key].life
      <3>0. id \in DOMAIN srvRecs /\ id \in Heeded
        BY <1>1, <2>1, <2>2, <2>4, AtRest, HiddenKeys
      <3>1. recs[id].life = srvRecs[id].life
        <4>1. recs[id] = Kept(srvRecs[id])
          BY <1>1, <2>1, <3>0, AtRest
        <4> QED BY <4>1 DEF Kept
      <3>2. key[1] = "rec" /\ key[2] = id /\ key[1] # "rule"
        BY <2>4
      <3> QED BY <2>3, <2>4, <3>0, <3>1, <3>2 DEF WishMet
    <2>5. CASE \E id \in DOMAIN recs : i = CreateTimer(id) \/ i = Recording(id)
      <3>1. PICK id \in DOMAIN recs : i = CreateTimer(id) \/ i = Recording(id)
        BY <2>5
      <3>2. key = <<"rec", id>> /\ i.life = TvhToKodi(recs[id].life) /\ i.type \in {"child", "manual", "none"}
        BY <2>2, <3>1 DEF CreateTimer, Recording, Item
      <3>3. i.type \notin Kinds
        BY <3>2 DEF Kinds
      <3> QED BY <2>2, <2>4, <3>2, <3>3
    <2>6. CASE \E sid \in DOMAIN rules : i = RuleTimer(sid)
      <3>1. PICK sid \in DOMAIN rules : i = RuleTimer(sid)
        BY <2>6
      <3>2. PICK win : win = (approx /\ rules[sid].kind = "autorec")
        OBVIOUS
      <3>3. /\ key = <<"rule", sid>> /\ i.life = TvhToKodi(rules[sid].life) /\ i.type = rules[sid].kind
            /\ i.start = ShownStart(win, rules[sid].from, rules[sid].to) /\ i.stop = ShownStop(win, rules[sid].to)
        BY <2>2, <3>1, <3>2 DEF RuleTimer, Item
      <3>4. sid \in DOMAIN srvRules /\ KeptRule(rules[sid], srvRules[sid])
        BY <1>1, <2>1, <3>1, AtRest
      <3>5. key[1] = "rule" /\ key[2] = sid /\ key[1] # "rec"
        BY <3>3
      <3>6. RuleMeets(srvRules[sid], wishes[key].life, wishes[key].slot)
        BY <2>3, <3>4, <3>5 DEF WishMet
      <3>7. ~win => i.stop = rules[sid].to
        BY <3>3 DEF ShownStop
      <3> QED BY <2>2, <3>2, <3>3, <3>4, <3>6, <3>7 DEF RuleMeets, KeptRule
    <2> QED BY <1>1, <2>1, <2>5, <2>6, AtRest
  <1> QED BY <1>1, TimersInductive, PTL

=============================================================================
