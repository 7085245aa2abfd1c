-------------------------- MODULE PredictiveTuning --------------------------
(***************************************************************************)
(* Predictive tuning of pvr.hts (Tvheadend.cpp, ChannelTuningPredictor.cpp *)
(* and what they use of HTSPDemuxer.cpp and Subscription.cpp): several     *)
(* demuxers, one of which is played. The others linger on the channels     *)
(* played before, or are tuned to the channel that is likely to be next.   *)
(*                                                                         *)
(* Kodi's thread opens, reads, pauses and closes; the Process thread       *)
(* applies the server's changes of the channel list and closes             *)
(* subscriptions that have not been read for CloseDelay. Every request     *)
(* releases the mutex of the connection while it waits, so the other       *)
(* thread may act between any two steps below. The connection's thread     *)
(* hands over the server's statuses meanwhile, without that mutex: one     *)
(* that comes behind an unsubscribe makes its demuxer active again. What   *)
(* happens inside one stream (packets, seeks, reconnects) is the subject   *)
(* of LiveStream.                                                          *)
(***************************************************************************)
EXTENDS Naturals, Sequences, FiniteSets, SequencesExt

CONSTANTS
  Tuners,      (* how many demuxers there are: GetTotalTuners              *)
  Channels,    (* channel ids, positive numbers                            *)
  Numbers,     (* channel numbers                                          *)
  FirstList,   (* the numbers of the channels in the server's first list   *)
  CloseDelay,  (* GetPreTunerCloseDelay                                    *)
  MaxTunes,    (* bound: channels that Kodi opens                          *)
  MaxEvents,   (* bound: changes of the server's channel list, weight and  *)
               (* unsubscribe requests that fail, and statuses that come   *)
               (* behind an unsubscribe                                    *)
  MaxTime      (* bound: the clock                                         *)

ASSUME TuningAssumption ==
  /\ Tuners \in Nat /\ Tuners > 1 /\ CloseDelay \in Nat
  /\ Channels \subseteq Nat \ {0} /\ Numbers \subseteq Nat
  /\ DOMAIN FirstList \subseteq Channels /\ FirstList \in [DOMAIN FirstList -> Numbers]
  /\ MaxTunes \in Nat /\ MaxEvents \in Nat /\ MaxTime \in Nat \ {0}

VARIABLES
  channels,     (* m_channels: the number of every channel by its id       *)
  predictor,    (* m_channelTuningPredictor: pairs of a number and an id   *)
  dmx,          (* m_dmx: every demuxer with its subscription              *)
  active,       (* m_dmx_active                                            *)
  playing,      (* m_playingLiveStream                                     *)
  streamchange, (* m_streamchange                                          *)
  kodi,         (* where Kodi's thread is                                  *)
  expiry,       (* where CloseExpiredSubscriptions is on the Process thread*)
  hist,         (* what has become of the subscription of every demuxer:   *)
                (* the server took it, its unsubscribe has been sent, and  *)
                (* it was active before it was subscribed ("carried")      *)
  ids,          (* the last value of GetNextId                             *)
  srv,          (* the subscriptions of the server by id, with the         *)
                (* addon's requests that failed: "stale", the last change  *)
                (* of its weight, and "kept", its unsubscribe              *)
  asked,        (* the channel Kodi has opened last                        *)
  now,          (* std::time                                               *)
  tunes, events (* how often Kodi has tuned, and the events of MaxEvents    *)

listVars == <<channels, predictor>>
kodiVars == <<active, playing, streamchange, kodi, asked, tunes>>
dmxVars == <<dmx, hist, ids>>
srvVars == <<srv, events>>
vars == <<listVars, dmxVars, kodiVars, expiry, srvVars, now>>

Demuxers == 1..Tuners
NONE == 0  \* CHANNEL_ID_NONE, and the channel of a demuxer that has none

\* eSubscriptionWeight
NORMAL == 100
PRETUNING == 40
POSTTUNING == 30

\* What a demuxer keeps: the fields of its Subscription and m_lastUse.
Stopped == [id |-> 0, chan |-> NONE, weight |-> NORMAL, on |-> FALSE, paused |-> FALSE, lastUse |-> 0]

GetChannelId(d) == IF dmx[d].on THEN dmx[d].chan ELSE NONE
GetLastUse(d) == IF dmx[d].on THEN dmx[d].lastUse ELSE 0
IsPaused(d) == dmx[d].on /\ dmx[d].paused

\* Active, and not because of a status that came behind the unsubscribe.
Live(d) == dmx[d].on /\ ~hist[d].ended
\* Its subscribe failed, but it was active all the same.
Phantom(d) == hist[d].carried /\ ~hist[d].taken

(***************************************************************************)
(* Kodi's thread. "at" is the next step, "d" the demuxer it is about, "to" *)
(* the channel being opened, "from" the one before, "want" and "w" what    *)
(* Open subscribes to, "saved" its lastUse on the stack, and "pre" whether *)
(* Open was called by TuneOnOldest.                                        *)
(***************************************************************************)
Steps == {"idle", "retune", "retuned", "open", "subscribe", "subscribed",
          "unsubscribed", "opened", "predict", "retunes"}
Idle == [at |-> "idle", d |-> 1, to |-> NONE, from |-> NONE, want |-> NONE,
         w |-> NORMAL, saved |-> 0, pre |-> FALSE, retune |-> FALSE]
Rest == [at |-> "rest", d |-> 1]

TypeOK ==
  /\ DOMAIN channels \subseteq Channels /\ \A c \in DOMAIN channels : channels[c] \in Numbers \cup {0}
  /\ predictor \subseteq Numbers \X Channels
  /\ dmx \in [Demuxers -> [id : Nat, chan : Channels \cup {NONE}, weight : {NORMAL, PRETUNING, POSTTUNING},
                           on : BOOLEAN, paused : BOOLEAN, lastUse : 0..MaxTime]]
  /\ hist \in [Demuxers -> [taken : BOOLEAN, ended : BOOLEAN, carried : BOOLEAN]]
  /\ active \in Demuxers /\ playing \in BOOLEAN /\ streamchange \in BOOLEAN
  /\ kodi \in [at : Steps, d : Demuxers, to : Channels \cup {NONE}, from : Channels \cup {NONE},
               want : Channels \cup {NONE}, w : {NORMAL, PRETUNING}, saved : 0..MaxTime,
               pre : BOOLEAN, retune : BOOLEAN]
  /\ expiry \in [at : {"rest", "close", "closing"}, d : Demuxers]
  /\ ids \in Nat /\ DOMAIN srv \subseteq 1..ids
  /\ \A i \in DOMAIN srv : srv[i] \in [chan : Channels, weight : {NORMAL, PRETUNING, POSTTUNING},
                                      stale : BOOLEAN, kept : BOOLEAN]
  /\ asked \in Channels \cup {NONE}
  /\ now \in 1..MaxTime /\ tunes \in 0..MaxTunes /\ events \in 0..MaxEvents

\* The first channel list is there and nothing has been tuned yet.
Init ==
  /\ channels = FirstList /\ predictor = {<<FirstList[c], c>> : c \in DOMAIN FirstList}
  /\ dmx = [d \in Demuxers |-> Stopped] /\ active = 1
  /\ playing = FALSE /\ streamchange = FALSE
  /\ hist = [d \in Demuxers |-> [taken |-> FALSE, ended |-> TRUE, carried |-> FALSE]]
  /\ ids = 0 /\ srv = <<>>
  /\ kodi = Idle /\ expiry = Rest /\ asked = NONE
  /\ now = 1 /\ tunes = 0 /\ events = 0

-----------------------------------------------------------------------------
(***************************************************************************)
(* The predictor. Its set is ordered by SortChannelPair: by number, then   *)
(* by id. An iterator is the set of the one pair it is at, or, at the end, *)
(* empty. GetIterator finds the first pair of an id.                       *)
(***************************************************************************)
Before(p, q) == p[1] < q[1] \/ (p[1] = q[1] /\ p[2] < q[2])
Least(S) == {p \in S : \A q \in S : p = q \/ Before(p, q)}
GetIterator(c) == Least({p \in predictor : p[2] = c})
Following(p) == Least({q \in predictor : Before(p, q)})
Preceding(p) == {q \in predictor : Following(q) = {p}}
IdOf(it) == IF it = {} THEN NONE ELSE (CHOOSE p \in it : TRUE)[2]

(***************************************************************************)
(* PredictNextChannelId, as the set of what it may return. toIt is used    *)
(* without a test against the end: then the outcome is that of reading and *)
(* moving an iterator out of its range, any element or none. The other use *)
(* out of range, std::prev of the first element, only ever gives an        *)
(* iterator that differs from toIt.                                        *)
(***************************************************************************)
PredictNextChannelId(from, to) ==
  LET f == GetIterator(from)  t == GetIterator(to)
      Up(p) == f = {} \/ f = Preceding(p) \/ \E q \in Least(predictor) : q[1] = p[1]
  IN IF t = {} THEN {NONE} \cup {p[2] : p \in predictor}
     ELSE {IdOf(IF Up(p) THEN Following(p) ELSE IF f = Following(p) THEN Preceding(p) ELSE {}) : p \in t}

\* m_channels[id] in an expression: a channel that is not there is created.
Looked(c) == channels' = IF c \in DOMAIN channels THEN channels
                         ELSE [x \in DOMAIN channels \cup {c} |-> IF x = c THEN 0 ELSE channels[x]]

-----------------------------------------------------------------------------
(***************************************************************************)
(* Requests, up to the wait for the response. The server executes them in  *)
(* the order they are sent, so its state changes here. A request that it   *)
(* refuses, or that is lost, it does not execute; the addon, which ignores *)
(* the response, has stored its own state before.                          *)
(***************************************************************************)
Event == events < MaxEvents /\ events' = events + 1

\* HTSPDemuxer::Weight.
Weight(d, w) ==
  IF dmx[d].on /\ dmx[d].weight # w
  THEN /\ dmx' = [dmx EXCEPT ![d].weight = w] /\ UNCHANGED <<hist, ids>>
       /\ \/ srv' = [i \in DOMAIN srv |-> IF i = dmx[d].id THEN [srv[i] EXCEPT !.weight = w, !.stale = FALSE]
                                         ELSE srv[i]]
             /\ UNCHANGED events
          \/ dmx[d].id \in DOMAIN srv /\ Event /\ srv' = [srv EXCEPT ![dmx[d].id].stale = TRUE]
  ELSE UNCHANGED <<dmxVars, srvVars>>

\* SendUnsubscribe.
Unsubscribe(d) ==
  /\ dmx' = [dmx EXCEPT ![d].on = FALSE] /\ hist' = [hist EXCEPT ![d].ended = TRUE] /\ UNCHANGED ids
  /\ \/ srv' = [i \in DOMAIN srv \ {dmx[d].id} |-> srv[i]] /\ UNCHANGED events
     \/ dmx[d].id \in DOMAIN srv /\ Event /\ srv' = [srv EXCEPT ![dmx[d].id].kept = TRUE]

\* Close0: unsubscribe if active. The flush and Abort0 behind it are LiveStream's.
Close0(d) == IF dmx[d].on THEN Unsubscribe(d) ELSE UNCHANGED <<dmxVars, srvVars>>

\* ParseSubscriptionStatus, on the connection's thread: whatever it says of a
\* subscription that the server has, or had when it sent it, the demuxer with
\* its id is active then.
ParseSubscriptionStatus(d) ==
  /\ hist[d].taken /\ ~dmx[d].on /\ dmx' = [dmx EXCEPT ![d].on = TRUE]
  /\ IF hist[d].ended THEN Event ELSE UNCHANGED events
  /\ UNCHANGED <<listVars, hist, ids, kodiVars, expiry, srv, now>>

-----------------------------------------------------------------------------
(***************************************************************************)
(* OpenLiveStream. A demuxer that lingers on the channel is reused, else   *)
(* the one that was used longest ago is taken (which may be the active     *)
(* one: the loop starts with the first demuxer and does not skip it).      *)
(***************************************************************************)
Lingering(c) == {d \in Demuxers : GetChannelId(d) = c}
FirstOf(D) == CHOOSE d \in D : \A e \in D : d <= e
LastOf(D) == CHOOSE d \in D : \A e \in D : e <= d
OldestOf(D) == {d \in D : \A e \in D : GetLastUse(d) <= GetLastUse(e)}

Calling(c) == kodi.at = "idle" /\ tunes < MaxTunes /\ tunes' = tunes + 1 /\ asked' = c

\* The channel is the one of the active demuxer: nothing to do.
OpenSame(c) ==
  /\ Calling(c) /\ Lingering(c) # {} /\ FirstOf(Lingering(c)) = active
  /\ playing' = TRUE /\ Looked(c)
  /\ UNCHANGED <<predictor, dmxVars, active, streamchange, kodi, expiry, srvVars, now>>

OpenLingering(c) ==
  /\ Calling(c) /\ Lingering(c) # {} /\ FirstOf(Lingering(c)) # active
  /\ Weight(active, POSTTUNING) /\ Looked(c)
  /\ kodi' = [Idle EXCEPT !.at = "retune", !.d = FirstOf(Lingering(c)), !.to = c, !.retune = TRUE]
  /\ UNCHANGED <<predictor, active, playing, streamchange, expiry, now>>

\* (Mutant of Retune: the lingering subscription keeps its low weight.)
RetuneLow ==
  /\ kodi.at = "retune"
  /\ kodi' = [kodi EXCEPT !.at = "retuned", !.from = GetChannelId(active)]
  /\ UNCHANGED <<listVars, dmxVars, active, playing, streamchange, expiry, srvVars, asked, now, tunes>>
Retune ==
  /\ kodi.at = "retune"
  /\ kodi' = [kodi EXCEPT !.at = "retuned", !.from = GetChannelId(active)]
  /\ Weight(kodi.d, NORMAL)
  /\ UNCHANGED <<listVars, active, playing, streamchange, expiry, asked, now, tunes>>

Retuned ==
  /\ kodi.at = "retuned"
  /\ active' = kodi.d /\ kodi' = [kodi EXCEPT !.at = "predict"]
  /\ UNCHANGED <<listVars, dmxVars, playing, streamchange, expiry, srvVars, asked, now, tunes>>

\* (Mutant of OpenOldest: the search for a lingering subscription is left out.)
OpenOldestAlways(c) ==
  /\ Calling(c)
  /\ Weight(active, POSTTUNING) /\ Looked(c)
  /\ kodi' = [Idle EXCEPT !.at = "open", !.d = FirstOf(OldestOf(Demuxers)), !.to = c,
                          !.from = GetChannelId(active), !.want = c]
  /\ UNCHANGED <<predictor, active, playing, streamchange, expiry, now>>
OpenOldest(c) ==
  /\ Calling(c) /\ Lingering(c) = {}
  /\ Weight(active, POSTTUNING) /\ Looked(c)
  /\ kodi' = [Idle EXCEPT !.at = "open", !.d = FirstOf(OldestOf(Demuxers)), !.to = c,
                          !.from = GetChannelId(active), !.want = c]
  /\ UNCHANGED <<predictor, active, playing, streamchange, expiry, now>>

-----------------------------------------------------------------------------
(***************************************************************************)
(* HTSPDemuxer::Open on kodi.d: close what is there, subscribe, and, if    *)
(* the demuxer is not active then, unsubscribe and put m_lastUse back.     *)
(***************************************************************************)
\* (Mutant of OpenCloses: the subscription before is not ended.)
OpenClosesNothing ==
  /\ kodi.at = "open"
  /\ kodi' = [kodi EXCEPT !.at = "subscribe"]
  /\ dmx' = [dmx EXCEPT ![kodi.d].on = FALSE] /\ hist' = [hist EXCEPT ![kodi.d].ended = TRUE]
  /\ UNCHANGED <<listVars, ids, active, playing, streamchange, expiry, srvVars, asked, now, tunes>>
OpenCloses ==
  /\ kodi.at = "open"
  /\ kodi' = [kodi EXCEPT !.at = "subscribe"] /\ Close0(kodi.d)
  /\ UNCHANGED <<listVars, active, playing, streamchange, expiry, asked, now, tunes>>

\* SendSubscribe, with a new id, which the server takes or does not take.
OpenSubscribes ==
  /\ kodi.at = "subscribe"
  /\ kodi' = [kodi EXCEPT !.at = "subscribed", !.saved = dmx[kodi.d].lastUse]
  /\ ids' = ids + 1
  /\ dmx' = [dmx EXCEPT ![kodi.d].id = ids', ![kodi.d].chan = kodi.want, ![kodi.d].weight = kodi.w,
                        ![kodi.d].paused = FALSE, ![kodi.d].lastUse = now]
  /\ \E taken \in BOOLEAN :
       /\ hist' = [hist EXCEPT ![kodi.d] = [taken |-> taken, ended |-> FALSE, carried |-> dmx[kodi.d].on]]
       /\ srv' = [i \in DOMAIN srv \cup {x \in {ids'} : taken} |->
                    IF i = ids' THEN [chan |-> kodi.want, weight |-> kodi.w, stale |-> FALSE, kept |-> FALSE]
                    ELSE srv[i]]
  /\ UNCHANGED <<listVars, active, playing, streamchange, expiry, events, asked, now, tunes>>

\* Where Open returns to.
Returns(ok) == [kodi EXCEPT !.at = IF kodi.pre THEN "retunes" ELSE "opened",
                            !.want = IF ok THEN kodi.want ELSE NONE]

\* The response to the subscribe.
OpenSubscribed ==
  /\ kodi.at = "subscribed" /\ hist[kodi.d].taken
  /\ dmx' = [dmx EXCEPT ![kodi.d].on = TRUE]
  /\ kodi' = Returns(TRUE)
  /\ UNCHANGED <<listVars, hist, ids, active, playing, streamchange, expiry, srvVars, asked, now, tunes>>

\* The server has refused, or its response is late: a demuxer that a status
\* has made active meanwhile counts as open.
OpenFails ==
  /\ kodi.at = "subscribed"
  /\ IF dmx[kodi.d].on THEN kodi' = Returns(TRUE) /\ UNCHANGED <<dmxVars, srvVars>>
     ELSE kodi' = [kodi EXCEPT !.at = "unsubscribed"] /\ Unsubscribe(kodi.d)
  /\ UNCHANGED <<listVars, active, playing, streamchange, expiry, asked, now, tunes>>

OpenFailed ==
  /\ kodi.at = "unsubscribed"
  /\ dmx' = [dmx EXCEPT ![kodi.d].lastUse = kodi.saved]
  /\ kodi' = Returns(FALSE)
  /\ UNCHANGED <<listVars, hist, ids, active, playing, streamchange, expiry, srvVars, asked, now, tunes>>

\* Back in OpenLiveStream.
Opened ==
  /\ kodi.at = "opened"
  /\ active' = kodi.d /\ playing' = (kodi.want # NONE)
  /\ kodi' = IF kodi.want # NONE THEN [kodi EXCEPT !.at = "predict"] ELSE Idle
  /\ UNCHANGED <<listVars, dmxVars, streamchange, expiry, srvVars, asked, now, tunes>>

-----------------------------------------------------------------------------
(***************************************************************************)
(* PredictiveTune and TuneOnOldest, with m_mutex of CTvheadend (Holding).  *)
(***************************************************************************)
Holding == kodi.pre
\* (Mutant of Candidates: the demuxer that plays may be taken.)
CandidatesAll == Demuxers
Candidates == Demuxers \ {active}

Finished == IF kodi.retune THEN streamchange' = TRUE /\ playing' = TRUE
            ELSE UNCHANGED <<streamchange, playing>>

PredictsNothing ==
  /\ kodi.at = "predict" /\ NONE \in PredictNextChannelId(kodi.from, kodi.to)
  /\ kodi' = Idle /\ Finished
  /\ UNCHANGED <<listVars, dmxVars, active, expiry, srvVars, asked, now, tunes>>

TuneOnOldest(p) ==
  IF Lingering(p) # {}
  THEN /\ Weight(FirstOf(Lingering(p)), PRETUNING)
       /\ kodi' = [kodi EXCEPT !.at = "retunes", !.pre = TRUE] /\ UNCHANGED channels
  ELSE /\ kodi' = [kodi EXCEPT !.at = "open", !.d = LastOf(OldestOf(Candidates)),
                               !.want = p, !.w = PRETUNING, !.pre = TRUE]
       /\ Looked(p) /\ UNCHANGED <<dmxVars, srvVars>>

\* (Mutant of PredictiveTune: the test against CHANNEL_ID_NONE is missing.)
PredictiveTuneAny ==
  /\ kodi.at = "predict"
  /\ \E p \in PredictNextChannelId(kodi.from, kodi.to) : TuneOnOldest(p)
  /\ UNCHANGED <<predictor, active, playing, streamchange, expiry, asked, now, tunes>>
PredictiveTune ==
  /\ kodi.at = "predict"
  /\ \E p \in PredictNextChannelId(kodi.from, kodi.to) \ {NONE} : TuneOnOldest(p)
  /\ UNCHANGED <<predictor, active, playing, streamchange, expiry, asked, now, tunes>>

OpenReturns ==
  /\ kodi.at = "retunes" /\ kodi' = Idle /\ Finished
  /\ UNCHANGED <<listVars, dmxVars, active, expiry, srvVars, asked, now, tunes>>

-----------------------------------------------------------------------------
(***************************************************************************)
(* The other calls of Kodi.                                                *)
(***************************************************************************)
\* A pending stream change is read before anything of the demuxer.
DemuxRead ==
  /\ kodi.at = "idle" /\ playing
  /\ IF streamchange THEN streamchange' = FALSE /\ UNCHANGED dmx
     ELSE dmx' = [dmx EXCEPT ![active].lastUse = now] /\ UNCHANGED streamchange
  /\ UNCHANGED <<listVars, hist, ids, active, playing, kodi, expiry, srvVars, asked, now, tunes>>

\* SetSpeed: paused or normal.
SetSpeed ==
  /\ kodi.at = "idle" /\ playing /\ dmx[active].on
  /\ dmx' = [dmx EXCEPT ![active].paused = ~@]
  /\ UNCHANGED <<listVars, hist, ids, kodiVars, expiry, srvVars, now>>

\* With several demuxers nothing is closed: the subscription lingers.
CloseLiveStream ==
  /\ kodi.at = "idle" /\ playing /\ playing' = FALSE
  /\ UNCHANGED <<listVars, dmxVars, active, streamchange, kodi, expiry, srvVars, asked, now, tunes>>

KodiCalls == \/ \E c \in Channels : OpenSame(c) \/ OpenLingering(c) \/ OpenOldest(c)
             \/ DemuxRead \/ SetSpeed \/ CloseLiveStream
KodiSteps == \/ Retune \/ Retuned \/ OpenCloses \/ OpenSubscribes \/ OpenSubscribed \/ OpenFails \/ OpenFailed
             \/ Opened \/ PredictsNothing \/ PredictiveTune \/ OpenReturns

-----------------------------------------------------------------------------
(***************************************************************************)
(* The Process thread.                                                     *)
(***************************************************************************)
Expired(d) == /\ CloseDelay > 0 /\ ~(playing /\ d = active /\ IsPaused(d))
              /\ GetLastUse(d) > 0 /\ GetLastUse(d) + CloseDelay < now

\* The loop over the demuxers, of which expiry.d is the next.
Onward(d) == [at |-> "rest", d |-> IF d = Tuners THEN 1 ELSE d + 1]

\* (Mutant of CloseExpiredSubscriptions: the active demuxer is never closed.)
CloseExpiredButActive ==
  /\ expiry.at = "rest"
  /\ expiry' = IF Expired(expiry.d) /\ expiry.d \in Candidates THEN [expiry EXCEPT !.at = "close"]
               ELSE Onward(expiry.d)
  /\ UNCHANGED <<listVars, dmxVars, kodiVars, srvVars, now>>
\* The test, and Close, which starts by waiting for the mutex.
CloseExpiredSubscriptions ==
  /\ expiry.at = "rest"
  /\ expiry' = IF Expired(expiry.d) THEN [expiry EXCEPT !.at = "close"] ELSE Onward(expiry.d)
  /\ UNCHANGED <<listVars, dmxVars, kodiVars, srvVars, now>>
Closes ==
  /\ expiry.at = "close" /\ Close0(expiry.d)
  /\ expiry' = IF dmx[expiry.d].on THEN [expiry EXCEPT !.at = "closing"] ELSE Onward(expiry.d)
  /\ UNCHANGED <<listVars, kodiVars, now>>
Closed ==
  /\ expiry.at = "closing" /\ expiry' = Onward(expiry.d)
  /\ UNCHANGED <<listVars, dmxVars, kodiVars, srvVars, now>>

\* Messages are handled between two such loops, with m_mutex.
Handling == expiry = Rest /\ ~Holding /\ Event

\* The server adds a channel it did not have, changes the number of one, or deletes it.
ChannelAdd ==
  /\ Handling
  /\ \E c \in Channels \ {p[2] : p \in predictor}, n \in Numbers :
       /\ channels' = [x \in DOMAIN channels \cup {c} |-> IF x = c THEN n ELSE channels[x]]
       /\ predictor' = predictor \cup {<<n, c>>}
  /\ UNCHANGED <<dmxVars, kodiVars, expiry, srv, now>>
ChannelUpdate ==
  /\ Handling
  /\ \E p \in predictor : \E n \in Numbers \ {p[1]} :
       /\ channels' = [channels EXCEPT ![p[2]] = n]
       /\ predictor' = (predictor \ {<<channels[p[2]], p[2]>>}) \cup {<<n, p[2]>>}
  /\ UNCHANGED <<dmxVars, kodiVars, expiry, srv, now>>
ChannelDelete ==
  /\ Handling
  /\ \E p \in predictor :
       /\ channels' = [x \in DOMAIN channels \ {p[2]} |-> channels[x]]
       /\ predictor' = predictor \ {p}
  /\ UNCHANGED <<dmxVars, kodiVars, expiry, srv, now>>

Process == CloseExpiredSubscriptions \/ Closes \/ Closed
Tick == /\ now < MaxTime /\ now' = now + 1
        /\ UNCHANGED <<listVars, dmxVars, kodiVars, expiry, srvVars>>

Next == \/ KodiCalls \/ KodiSteps \/ Process \/ \E d \in Demuxers : ParseSubscriptionStatus(d)
        \/ ChannelAdd \/ ChannelUpdate \/ ChannelDelete \/ Tick

\* Both threads are scheduled, and their requests are answered or time out.
Spec == Init /\ [][Next]_vars /\ WF_vars(KodiSteps) /\ WF_vars(Process)

-----------------------------------------------------------------------------
(***************************************************************************)
(* Properties.                                                             *)
(***************************************************************************)
AtRest == kodi.at = "idle" /\ expiry.at = "rest"

\* No channel is subscribed twice: every demuxer costs the server a tuner
\* (the searches of OpenLiveStream and TuneOnOldest, beside the expiry). A
\* demuxer that a late status has made active again is not looked at.
NoDuplicates == \A d, e \in Demuxers : d # e /\ Live(d) /\ Live(e) => dmx[d].chan # dmx[e].chan

\* The demuxer that plays is on the channel Kodi asked for, unless its
\* subscription has been closed behind Kodi's back: no prediction takes it away.
PlaysWhatWasAsked == kodi.at = "idle" /\ playing /\ dmx[active].on => dmx[active].chan = asked

\* "predictive tuning should be lower to avoid conflicts" (Subscription.h): in
\* the addon's books what plays has the normal weight, and nothing that
\* lingers or waits has, but for what a late status has made active again.
WeightOrder == kodi.at = "idle" /\ playing =>
  \A d \in Demuxers : Live(d) => (dmx[d].weight = NORMAL <=> d = active)

\* The server has what the demuxers have, although two threads subscribe and
\* unsubscribe the same demuxers, responses are late and statuses come when
\* they like: an active demuxer's subscription is there, on its channel and,
\* unless the request that changed it last has failed, with its weight, and
\* every subscription that is there is an active demuxer's, unless its
\* unsubscribe has failed. The demuxers that were made active by a status
\* behind their unsubscribe are left out.
ServerAgrees == AtRest =>
  /\ \A d \in Demuxers : Live(d) /\ ~Phantom(d) =>
       /\ dmx[d].id \in DOMAIN srv /\ srv[dmx[d].id].chan = dmx[d].chan
       /\ srv[dmx[d].id].stale \/ srv[dmx[d].id].weight = dmx[d].weight
  /\ \A i \in DOMAIN srv : srv[i].kept \/ \E d \in Demuxers : Live(d) /\ dmx[d].id = i

\* No subscription outlives its last use by more than the delay for ever.
ExpiredGoes == \A d \in Demuxers : Expired(d) ~> ~Expired(d)

=============================================================================
