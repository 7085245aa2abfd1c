----------------------- MODULE PredictiveTuningProofs -----------------------
(***************************************************************************)
(* What predictive tuning promises, for any number of demuxers, any        *)
(* channel list and any bounds: the type invariant, no channel subscribed  *)
(* twice, the channel that plays, the weights, and what the server has of  *)
(* what the demuxers believe, whatever requests fail and whenever statuses *)
(* come.                                                                   *)
(***************************************************************************)
EXTENDS PredictiveTuning, WellFoundedInduction, TLAPS

Weights == {NORMAL, PRETUNING, POSTTUNING}
Fields == [id : Nat, chan : Channels \cup {NONE}, weight : Weights,
           on : BOOLEAN, paused : BOOLEAN, lastUse : 0..MaxTime]
HistFields == [taken : BOOLEAN, ended : BOOLEAN, carried : BOOLEAN]
CallFields == [at : Steps, d : Demuxers, to : Channels \cup {NONE}, from : Channels \cup {NONE},
               want : Channels \cup {NONE}, w : {NORMAL, PRETUNING}, saved : 0..MaxTime,
               pre : BOOLEAN, retune : BOOLEAN]
ExpiryFields == [at : {"rest", "close", "closing"}, d : Demuxers]
SrvFields == [chan : Channels, weight : Weights, stale : BOOLEAN, kept : BOOLEAN]

(***************************************************************************)
(* The lists: the predictor has the number that m_channels has, for every  *)
(* id at most one.                                                         *)
(***************************************************************************)
ListsType == /\ DOMAIN channels \subseteq Channels
             /\ \A c \in DOMAIN channels : channels[c] \in Numbers \cup {0}
ListsAgree == \A p \in predictor : p[2] \in DOMAIN channels /\ channels[p[2]] = p[1]
Lists == ListsType /\ predictor \subseteq Numbers \X Channels /\ ListsAgree

(***************************************************************************)
(* The books: ids are not used twice, what the addon holds (the server     *)
(* took it, and no unsubscribe has been sent) the server has, and what the *)
(* server has, but for what it kept, the addon holds.                      *)
(***************************************************************************)
Held(d) == hist[d].taken /\ ~hist[d].ended
Has(d) == /\ dmx[d].id \in DOMAIN srv /\ srv[dmx[d].id].chan = dmx[d].chan
          /\ srv[dmx[d].id].stale \/ srv[dmx[d].id].weight = dmx[d].weight
IdsDiffer == \A d \in Demuxers :
  /\ dmx[d].id <= ids /\ (hist[d].taken => dmx[d].id # 0)
  /\ \A e \in Demuxers : d # e /\ dmx[d].id = dmx[e].id => dmx[d].id = 0
ServerHas == /\ \A d \in Demuxers : Held(d) => Has(d)
             /\ \A i \in DOMAIN srv : srv[i].kept \/ \E d \in Demuxers : Held(d) /\ dmx[d].id = i
Books ==
  /\ dmx \in [Demuxers -> Fields] /\ hist \in [Demuxers -> HistFields] /\ ids \in Nat
  /\ DOMAIN srv \subseteq 1..ids /\ \A i \in DOMAIN srv : srv[i] \in SrvFields
  /\ IdsDiffer /\ ServerHas

(***************************************************************************)
(* The control. A demuxer that is not active has sent its unsubscribe, but *)
(* for the one whose subscribe is under way. While Open runs on kodi.d no  *)
(* other demuxer is subscribed to its channel. And which demuxer is to     *)
(* play, or plays, the channel asked for, and alone has the normal weight, *)
(* is known at every step.                                                 *)
(***************************************************************************)
ActiveOrEnded == \A d \in Demuxers :
  /\ dmx[d].on \/ hist[d].ended \/ (kodi.at = "subscribed" /\ kodi.d = d)
  /\ Live(d) => hist[d].taken \/ hist[d].carried

Opening == kodi.at \in {"open", "subscribe", "subscribed", "unsubscribed"}
OpeningAlone == Opening =>
  /\ kodi.want \in Channels /\ kodi.w = (IF kodi.pre THEN PRETUNING ELSE NORMAL)
  /\ \A e \in Demuxers : e # kodi.d /\ Live(e) => dmx[e].chan # kodi.want
  /\ kodi.at \in {"subscribe", "unsubscribed"} => hist[kodi.d].ended
  /\ kodi.at = "subscribed" => dmx[kodi.d].chan = kodi.want /\ dmx[kodi.d].weight = kodi.w

OnlyNormal(d) == \A e \in Demuxers : Live(e) => (dmx[e].weight = NORMAL <=> e = d)
NoneNormal == \A e \in Demuxers : Live(e) => dmx[e].weight # NORMAL
NoOtherNormal(d) == \A e \in Demuxers : e # d /\ Live(e) => dmx[e].weight # NORMAL
IsOn(d, c) == dmx[d].chan = c
Playing ==
  /\ kodi.at # "idle" => kodi.to = asked /\ asked # NONE
  /\ kodi.pre => Opening \/ kodi.at = "retunes"
  /\ kodi.at = "idle" => OnlyNormal(active) /\ (playing => IsOn(active, asked))
  /\ kodi.at = "retune" => NoneNormal /\ IsOn(kodi.d, asked)
  /\ kodi.at = "retuned" => OnlyNormal(kodi.d) /\ IsOn(kodi.d, asked)
  /\ Opening /\ ~kodi.pre => NoOtherNormal(kodi.d) /\ kodi.want = asked
  /\ kodi.at = "opened" => OnlyNormal(kodi.d) /\ (kodi.want # NONE => IsOn(kodi.d, asked))
  /\ kodi.at \in {"predict", "retunes"} \/ kodi.pre => OnlyNormal(active) /\ IsOn(active, asked)
  /\ Opening /\ kodi.pre => kodi.d # active

Control == ActiveOrEnded /\ NoDuplicates /\ OpeningAlone /\ Playing

Others == /\ kodi \in CallFields /\ expiry \in ExpiryFields
          /\ active \in Demuxers /\ playing \in BOOLEAN /\ streamchange \in BOOLEAN
          /\ asked \in Channels \cup {NONE}
          /\ now \in 1..MaxTime /\ tunes \in 0..MaxTunes /\ events \in 0..MaxEvents

\* The inductive invariant.
IInv == Lists /\ Books /\ Control /\ Others

-----------------------------------------------------------------------------
(***************************************************************************)
(* Searching.                                                              *)
(***************************************************************************)
\* A set of natural numbers has a least element ...
LEMMA LeastExists ==
  ASSUME NEW S, S \subseteq Nat, S # {}
  PROVE  \E m \in S : \A n \in S : m <= n
  <1> DEFINE R == {p \in Nat \X Nat : p[1] < p[2]}
  <1>1. IsWellFoundedOn(R, Nat)
    BY NatLessThanWellFounded DEF OpToRel
  <1>2. PICK m \in S : \A n \in S : ~ (<<n, m>> \in R)
    <2> HIDE DEF R
    <2> QED BY <1>1, WFMin
  <1>3. \A n \in S : ~(n < m)
    BY <1>2
  <1> QED BY <1>3

\* ... and, below a bound, a greatest.
LEMMA GreatestExists ==
  ASSUME NEW N \in Nat, NEW S, S \subseteq 1..N, S # {}
  PROVE  \E m \in S : \A n \in S : n <= m
  <1> DEFINE T == {n \in 0..N : N - n \in S}
  <1>1. T # {}
    <2>1. PICK n \in S : TRUE
      OBVIOUS
    <2>2. N - n \in T /\ N - (N - n) = n
      BY <2>1
    <2> QED BY <2>2
  <1>2. PICK m \in T : \A n \in T : m <= n
    <2>1. T \subseteq Nat
      OBVIOUS
    <2> HIDE DEF T
    <2> QED BY <1>1, <2>1, LeastExists
  <1>3. \A n \in S : N - n \in T
    OBVIOUS
  <1>4. N - m \in S /\ \A n \in S : m <= N - n
    BY <1>2, <1>3
  <1>5. \A n \in S : n <= N - m
    BY <1>2, <1>4
  <1> QED BY <1>4, <1>5

\* The searches in OpenLiveStream and TuneOnOldest find a demuxer of the set.
LEMMA Searches ==
  ASSUME NEW D, D \subseteq Demuxers, D # {}
  PROVE  FirstOf(D) \in D /\ LastOf(D) \in D
  <1>1. D \subseteq Nat /\ D \subseteq 1..Tuners /\ Tuners \in Nat
    BY TuningAssumption DEF Demuxers
  <1>2. \E d \in D : \A e \in D : d <= e
    BY <1>1, LeastExists
  <1>3. \E d \in D : \A e \in D : e <= d
    BY <1>1, GreatestExists
  <1> QED BY <1>2, <1>3 DEF FirstOf, LastOf

\* There is one that was used longest ago.
LEMMA OldestExists ==
  ASSUME Books, NEW D, D \subseteq Demuxers, D # {}
  PROVE  OldestOf(D) # {} /\ OldestOf(D) \subseteq D
  <1> DEFINE T == {GetLastUse(d) : d \in D}
  <1>1. \A d \in D : GetLastUse(d) \in Nat
    BY DEF Books, Fields, GetLastUse
  <1>2. T \subseteq Nat /\ T # {}
    BY <1>1
  <1>3. PICK m \in T : \A n \in T : m <= n
    <2> HIDE DEF T
    <2> QED BY <1>2, LeastExists
  <1>4. PICK d \in D : m = GetLastUse(d)
    OBVIOUS
  <1>5. d \in OldestOf(D)
    BY <1>3, <1>4 DEF OldestOf
  <1> QED BY <1>5 DEF OldestOf

\* PredictNextChannelId returns a channel, or none, and never the one tuned to.
LEMMA PredictsAnother ==
  ASSUME Lists, NEW from, NEW to \in Channels,
         NEW c \in PredictNextChannelId(from, to)
  PROVE  c \in Channels \cup {NONE} /\ c # to
  <1>1. to # NONE
    BY TuningAssumption DEF NONE
  <1>2. \A p \in predictor : p[2] \in Channels
    BY DEF Lists
  <1>3. \A p, q \in predictor : Before(p, q) => p[2] # q[2]
    BY TuningAssumption DEF Lists, ListsType, ListsAgree, Before
  <1>4. \A it : it \subseteq predictor /\ it # {} => \E q \in it : IdOf(it) = q[2]
    BY DEF IdOf
  <1>5. CASE GetIterator(to) = {}
    <2>1. ASSUME NEW p \in predictor, p[2] = to PROVE FALSE
      <3>1. \A q \in predictor : q[2] = to => q = p
        BY <2>1 DEF Lists, ListsAgree
      <3>2. p \in GetIterator(to)
        BY <2>1, <3>1 DEF GetIterator, Least
      <3> QED BY <3>2, <1>5
    <2> QED BY <1>1, <1>2, <1>5, <2>1 DEF PredictNextChannelId
  <1>6. CASE GetIterator(to) # {}
    <2>1. PICK p \in predictor : p[2] = to /\ c \in {IdOf(Following(p)), IdOf(Preceding(p)), IdOf({})}
      BY <1>6, Zenon DEF PredictNextChannelId, GetIterator, Least
    <2>2. \A q \in Following(p) \cup Preceding(p) : q \in predictor /\ q[2] # to
      <3>1. \A q \in predictor : Following(q) \subseteq {r \in predictor : Before(q, r)}
        BY DEF Following, Least
      <3>2. \A q \in Preceding(p) : q \in predictor /\ Before(q, p)
        BY <3>1 DEF Preceding
      <3> QED BY <2>1, <3>1, <3>2, <1>3
    <2>3. Following(p) \subseteq predictor /\ Preceding(p) \subseteq predictor
      BY <2>2
    <2>4. IdOf({}) = NONE
      BY DEF IdOf
    <2>5. CASE c = IdOf(Following(p))
      <3>1. CASE Following(p) = {}
        BY <3>1, <2>4, <2>5, <1>1
      <3>2. CASE Following(p) # {}
        BY <3>2, <2>5, <1>4, <2>2, <2>3, <1>2
      <3> QED BY <3>1, <3>2
    <2>6. CASE c = IdOf(Preceding(p))
      <3>1. CASE Preceding(p) = {}
        BY <3>1, <2>4, <2>6, <1>1
      <3>2. CASE Preceding(p) # {}
        BY <3>2, <2>6, <1>4, <2>2, <2>3, <1>2
      <3> QED BY <3>1, <3>2
    <2> QED BY <2>1, <2>4, <2>5, <2>6, <1>1
  <1> QED BY <1>5, <1>6

-----------------------------------------------------------------------------
(***************************************************************************)
(* The books, by the ways in which they change.                            *)
(***************************************************************************)
\* Nothing that the server knows of changes.
LEMMA SameBooks ==
  ASSUME Books, UNCHANGED <<hist, ids, srv>>, dmx' \in [Demuxers -> Fields],
         \A e \in Demuxers : dmx'[e].id = dmx[e].id /\ dmx'[e].chan = dmx[e].chan /\ dmx'[e].weight = dmx[e].weight
  PROVE  Books'
  <1>1. IdsDiffer'
    BY DEF Books, IdsDiffer
  <1>2. ServerHas'
    BY DEF Books, ServerHas, Held, Has
  <1> QED BY <1>1, <1>2 DEF Books

\* One field of one demuxer.
LEMMA FieldSet ==
  ASSUME NEW S \in [Demuxers -> Fields], NEW d \in Demuxers
  PROVE  /\ \A v \in 0..MaxTime : [S EXCEPT ![d].lastUse = v] \in [Demuxers -> Fields]
         /\ \A b \in BOOLEAN : [S EXCEPT ![d].on = b] \in [Demuxers -> Fields]
         /\ \A b \in BOOLEAN : [S EXCEPT ![d].paused = b] \in [Demuxers -> Fields]
         /\ \A w \in Weights : [S EXCEPT ![d].weight = w] \in [Demuxers -> Fields]
  <1>1. S[d] \in Fields
    OBVIOUS
  <1>2. \A v \in 0..MaxTime : [S[d] EXCEPT !.lastUse = v] \in Fields
    BY <1>1 DEF Fields
  <1>3. \A b \in BOOLEAN : [S[d] EXCEPT !.on = b] \in Fields
    BY <1>1 DEF Fields
  <1>4. \A b \in BOOLEAN : [S[d] EXCEPT !.paused = b] \in Fields
    BY <1>1 DEF Fields
  <1>5. \A w \in Weights : [S[d] EXCEPT !.weight = w] \in Fields
    BY <1>1 DEF Fields
  <1> QED BY <1>2, <1>3, <1>4, <1>5

\* Weight changes the weight of one demuxer that is active, and, unless the
\* request fails, of its subscription.
LEMMA Weighs ==
  ASSUME Books, events \in 0..MaxEvents, NEW d \in Demuxers, NEW w \in Weights, Weight(d, w)
  PROVE  /\ Books' /\ hist' = hist /\ events' \in 0..MaxEvents
         /\ \A e \in Demuxers :
              /\ dmx'[e].on = dmx[e].on /\ dmx'[e].chan = dmx[e].chan
              /\ dmx'[e].weight = IF e = d /\ dmx[e].on THEN w ELSE dmx[e].weight
  <1>1. dmx \in [Demuxers -> Fields]
    BY DEF Books
  <1>2. CASE dmx[d].on /\ dmx[d].weight # w
    <2> DEFINE i == dmx[d].id
    <2>1. dmx' = [dmx EXCEPT ![d].weight = w] /\ UNCHANGED <<hist, ids>>
      BY <1>2 DEF Weight
    <2>2. dmx' \in [Demuxers -> Fields]
      BY <1>1, <2>1, FieldSet
    <2>3. \A e \in Demuxers :
            /\ dmx'[e].id = dmx[e].id /\ dmx'[e].on = dmx[e].on /\ dmx'[e].chan = dmx[e].chan
            /\ dmx'[e].weight = IF e = d THEN w ELSE dmx[e].weight
      BY <1>1, <2>1 DEF Fields
    <2>4. IdsDiffer'
      BY <2>1, <2>3 DEF Books, IdsDiffer
    <2>5. /\ DOMAIN srv' = DOMAIN srv /\ events' \in 0..MaxEvents
          /\ \A j \in DOMAIN srv :
               /\ srv'[j] \in SrvFields /\ srv'[j].chan = srv[j].chan /\ srv'[j].kept = srv[j].kept
               /\ j # i => srv'[j] = srv[j]
               /\ j = i => srv'[j].stale \/ srv'[j].weight = w
      <3>1. \A j \in DOMAIN srv : srv[j] \in SrvFields
        BY DEF Books
      <3>2. CASE /\ srv' = [j \in DOMAIN srv |-> IF j = i THEN [srv[j] EXCEPT !.weight = w, !.stale = FALSE]
                                                ELSE srv[j]]
                 /\ UNCHANGED events
        BY <3>1, <3>2 DEF SrvFields
      <3>3. CASE i \in DOMAIN srv /\ Event /\ srv' = [srv EXCEPT ![i].stale = TRUE]
        <4>1. events' \in 0..MaxEvents
          BY <3>3, TuningAssumption DEF Event
        <4>2. DOMAIN srv' = DOMAIN srv /\ srv'[i] = [srv[i] EXCEPT !.stale = TRUE]
              /\ \A j \in DOMAIN srv : j # i => srv'[j] = srv[j]
          BY <3>3
        <4>3. srv'[i] \in SrvFields /\ srv'[i].chan = srv[i].chan /\ srv'[i].kept = srv[i].kept /\ srv'[i].stale
          BY <3>1, <3>3, <4>2 DEF SrvFields
        <4> QED BY <3>1, <4>1, <4>2, <4>3
      <3> QED BY <1>2, <3>2, <3>3 DEF Weight
    <2>6. \A e \in Demuxers : Held(e)' = Held(e) /\ (Held(e) /\ e # d => dmx[e].id # i)
      BY <2>1 DEF Held, Books, IdsDiffer
    <2> HIDE DEF i
    <2>7. ASSUME NEW e \in Demuxers, Held(e)' PROVE Has(e)'
      <3>1. Has(e)
        BY <2>6, <2>7 DEF Books, ServerHas
      <3>2. CASE e = d
        BY <3>1, <3>2, <2>3, <2>5 DEF Has, i
      <3>3. CASE e # d
        BY <3>1, <3>3, <2>3, <2>5, <2>6, <2>7 DEF Has
      <3> QED BY <3>2, <3>3
    <2>8. ServerHas'
      BY <2>3, <2>5, <2>6, <2>7 DEF Books, ServerHas
    <2> QED BY <1>2, <2>1, <2>2, <2>3, <2>4, <2>5, <2>8 DEF Books
  <1>3. CASE ~(dmx[d].on /\ dmx[d].weight # w)
    <2>1. UNCHANGED <<dmx, hist, ids, srv, events>>
      BY <1>3 DEF Weight, dmxVars, srvVars
    <2> QED BY <1>1, <1>3, <2>1, SameBooks
  <1> QED BY <1>2, <1>3

\* An unsubscribe ends what one demuxer holds, and, unless the request fails,
\* its subscription.
LEMMA Ends ==
  ASSUME Books, events \in 0..MaxEvents, NEW d \in Demuxers, Unsubscribe(d)
  PROVE  /\ Books' /\ events' \in 0..MaxEvents /\ hist'[d].ended
         /\ \A e \in Demuxers :
              /\ (dmx'[e].on <=> e # d /\ dmx[e].on)
              /\ dmx'[e].chan = dmx[e].chan /\ dmx'[e].weight = dmx[e].weight
              /\ e # d => hist'[e] = hist[e]
  <1> DEFINE i == dmx[d].id
  <1>1. /\ dmx \in [Demuxers -> Fields] /\ hist \in [Demuxers -> HistFields]
        /\ dmx' = [dmx EXCEPT ![d].on = FALSE] /\ hist' = [hist EXCEPT ![d].ended = TRUE] /\ ids' = ids
    BY DEF Books, Unsubscribe
  <1>2. dmx' \in [Demuxers -> Fields]
    BY <1>1, FieldSet
  <1>3. \A e \in Demuxers :
          /\ (dmx'[e].on <=> e # d /\ dmx[e].on) /\ dmx'[e].id = dmx[e].id
          /\ dmx'[e].chan = dmx[e].chan /\ dmx'[e].weight = dmx[e].weight
    BY <1>1 DEF Fields
  <1>4. /\ hist' \in [Demuxers -> HistFields] /\ hist'[d].ended /\ hist'[d].taken = hist[d].taken
        /\ \A e \in Demuxers : e # d => hist'[e] = hist[e]
    BY <1>1 DEF HistFields
  <1>5. \A e \in Demuxers : (Held(e)' <=> Held(e) /\ e # d) /\ (Held(e) /\ e # d => dmx[e].id # i)
    BY <1>4 DEF Held, Books, IdsDiffer
  <1>6. IdsDiffer'
    BY <1>1, <1>3, <1>4 DEF Books, IdsDiffer
  <1>7. /\ DOMAIN srv' \subseteq DOMAIN srv /\ DOMAIN srv \ {i} \subseteq DOMAIN srv'
        /\ \A j \in DOMAIN srv' : srv'[j] \in SrvFields /\ (j # i => srv'[j] = srv[j]) /\ (j = i => srv'[j].kept)
        /\ events' \in 0..MaxEvents
    <2>1. \A j \in DOMAIN srv : srv[j] \in SrvFields
      BY DEF Books
    <2>2. CASE srv' = [j \in DOMAIN srv \ {i} |-> srv[j]] /\ UNCHANGED events
      BY <2>1, <2>2
    <2>3. CASE i \in DOMAIN srv /\ Event /\ srv' = [srv EXCEPT ![i].kept = TRUE]
      <3>1. events' \in 0..MaxEvents
        BY <2>3, TuningAssumption DEF Event
      <3>2. DOMAIN srv' = DOMAIN srv /\ srv'[i] = [srv[i] EXCEPT !.kept = TRUE]
            /\ \A j \in DOMAIN srv : j # i => srv'[j] = srv[j]
        BY <2>3
      <3>3. srv'[i] \in SrvFields /\ srv'[i].kept
        BY <2>1, <2>3, <3>2 DEF SrvFields
      <3> QED BY <2>1, <3>1, <3>2, <3>3
    <2> QED BY <2>2, <2>3 DEF Unsubscribe
  <1> HIDE DEF i
  <1>8. ASSUME NEW e \in Demuxers, Held(e)' PROVE Has(e)'
    <2>1. Has(e) /\ dmx[e].id # i
      BY <1>5, <1>8 DEF Books, ServerHas
    <2> QED BY <2>1, <1>3, <1>7 DEF Has
  <1>9. ASSUME NEW j \in DOMAIN srv' PROVE srv'[j].kept \/ \E e \in Demuxers : Held(e)' /\ dmx'[e].id = j
    <2>1. CASE j = i
      BY <2>1, <1>7
    <2>2. CASE j # i
      <3>1. srv'[j] = srv[j] /\ j \in DOMAIN srv
        BY <2>2, <1>7
      <3>2. srv[j].kept \/ \E e \in Demuxers : Held(e) /\ dmx[e].id = j
        BY <3>1 DEF Books, ServerHas
      <3>3. \A e \in Demuxers : Held(e) /\ dmx[e].id = j => e # d
        BY <2>2 DEF i
      <3> QED BY <3>1, <3>2, <3>3, <1>3, <1>5
    <2> QED BY <2>1, <2>2
  <1>10. ServerHas'
    BY <1>8, <1>9 DEF ServerHas
  <1>11. DOMAIN srv' \subseteq 1..ids' /\ \A j \in DOMAIN srv' : srv'[j] \in SrvFields
    BY <1>1, <1>7 DEF Books
  <1>12. Books'
    BY <1>1, <1>2, <1>4, <1>6, <1>10, <1>11 DEF Books
  <1> QED BY <1>3, <1>4, <1>7, <1>12

\* Close0 leaves a demuxer that has ended what it held.
LEMMA Closing ==
  ASSUME Books, events \in 0..MaxEvents, NEW d \in Demuxers, Close0(d)
  PROVE  /\ Books' /\ events' \in 0..MaxEvents /\ (dmx[d].on \/ hist[d].ended => hist'[d].ended)
         /\ \A e \in Demuxers :
              /\ (dmx'[e].on <=> e # d /\ dmx[e].on)
              /\ dmx'[e].chan = dmx[e].chan /\ dmx'[e].weight = dmx[e].weight
              /\ (e # d \/ ~dmx[e].on => hist'[e] = hist[e])
              /\ (hist'[e].taken <=> hist[e].taken) /\ (hist'[e].carried <=> hist[e].carried)
  <1>1. CASE dmx[d].on
    <2>1. Unsubscribe(d)
      BY <1>1 DEF Close0
    <2>2. (hist'[d].taken <=> hist[d].taken) /\ (hist'[d].carried <=> hist[d].carried)
      BY <2>1 DEF Unsubscribe, Books, HistFields
    <2> QED BY <1>1, <2>1, <2>2, Ends
  <1>2. CASE ~dmx[d].on
    <2>1. UNCHANGED <<dmx, hist, ids, srv, events>>
      BY <1>2 DEF Close0, dmxVars, srvVars
    <2>2. dmx \in [Demuxers -> Fields]
      BY DEF Books
    <2> QED BY <1>2, <2>1, <2>2, SameBooks
  <1> QED BY <1>1, <1>2

-----------------------------------------------------------------------------
(***************************************************************************)
(* The lists and the control.                                              *)
(***************************************************************************)
\* m_channels[id] in an expression leaves what there is alone.
LEMMA Looks ==
  ASSUME Lists, NEW c \in Channels, Looked(c), UNCHANGED predictor
  PROVE  Lists'
  <1>1. CASE c \in DOMAIN channels
    BY <1>1 DEF Looked, Lists, ListsType, ListsAgree
  <1>2. CASE c \notin DOMAIN channels
    <2>1. channels' = [x \in DOMAIN channels \cup {c} |-> IF x = c THEN 0 ELSE channels[x]]
      BY <1>2 DEF Looked
    <2> QED BY <1>2, <2>1 DEF Lists, ListsType, ListsAgree
  <1> QED BY <1>1, <1>2

\* The weights differ, and NONE is no channel.
LEMMA Distinct == /\ NORMAL # PRETUNING /\ NORMAL # POSTTUNING /\ NONE \notin Channels
                  /\ {NORMAL, PRETUNING, POSTTUNING} = Weights
  BY TuningAssumption DEF NORMAL, PRETUNING, POSTTUNING, NONE, Weights

\* Kodi's thread does not move, and subscriptions only end.
LEMMA SameControl ==
  ASSUME Control, UNCHANGED <<kodi, active, asked>>, (playing' => playing),
         \A e \in Demuxers :
           /\ Live(e)' => Live(e)
           /\ dmx'[e].chan = dmx[e].chan /\ dmx'[e].weight = dmx[e].weight
           /\ dmx[e].on \/ hist[e].ended => dmx'[e].on \/ hist'[e].ended
           /\ hist[e].ended => hist'[e].ended
           /\ (hist'[e].taken <=> hist[e].taken) /\ (hist'[e].carried <=> hist[e].carried),
         kodi.d \in Demuxers, active \in Demuxers
  PROVE  Control'
  <1>1. ActiveOrEnded'
    BY DEF Control, ActiveOrEnded
  <1>2. NoDuplicates'
    BY DEF Control, NoDuplicates
  <1>3. OpeningAlone'
    BY DEF Control, OpeningAlone, Opening
  <1>4. /\ OnlyNormal(active) => OnlyNormal(active)'
        /\ OnlyNormal(kodi.d) => OnlyNormal(kodi.d)'
        /\ NoOtherNormal(kodi.d) => NoOtherNormal(kodi.d)'
        /\ NoneNormal => NoneNormal'
        /\ IsOn(active, asked) => IsOn(active, asked)'
        /\ IsOn(kodi.d, asked) => IsOn(kodi.d, asked)'
    BY DEF OnlyNormal, NoOtherNormal, NoneNormal, IsOn
  <1>5. Playing'
    <2>1. Playing
      BY DEF Control
    <2>2. kodi' = kodi /\ asked' = asked /\ (playing' => playing)
      OBVIOUS
    <2>3. Opening' = Opening
      BY <2>2 DEF Opening
    <2>4. (kodi.at = "idle" => OnlyNormal(active)' /\ (playing' => IsOn(active, asked)'))
      BY <1>4, <2>1, <2>2 DEF Playing
    <2> QED BY <1>4, <2>1, <2>2, <2>3, <2>4 DEF Playing
  <1> QED BY <1>1, <1>2, <1>3, <1>5 DEF Control

\* The same, when no demuxer changes either.
LEMMA StillControl ==
  ASSUME Control, UNCHANGED <<kodi, active, asked, dmx, hist>>, (playing' => playing),
         kodi.d \in Demuxers, active \in Demuxers
  PROVE  Control'
  <1>1. \A e \in Demuxers : Live(e)' = Live(e)
    BY DEF Live
  <1> QED BY <1>1, SameControl

\* The initial values have their types.
LEMMA FirstValues == Stopped \in Fields /\ Idle \in CallFields /\ Rest \in ExpiryFields
  <1>1. 1 \in Demuxers /\ 0 \in 0..MaxTime
    BY TuningAssumption DEF Demuxers
  <1> QED BY <1>1, Distinct DEF Stopped, Idle, Rest, Fields, CallFields, ExpiryFields, Steps

\* The loop over the demuxers goes on to a demuxer.
LEMMA GoesOn == \A d \in Demuxers : Onward(d) \in ExpiryFields
  BY TuningAssumption DEF Onward, ExpiryFields, Demuxers

\* The type invariant is part of the invariant.
LEMMA InvTypes == IInv => TypeOK
  BY DEF IInv, Lists, Books, Others, TypeOK, ListsType, Fields, HistFields, CallFields, ExpiryFields,
     SrvFields, Weights

-----------------------------------------------------------------------------
(***************************************************************************)
(* The invariant holds at first, and every step keeps it.                  *)
(***************************************************************************)
LEMMA InitInv == Init => IInv
  <1> SUFFICES ASSUME Init PROVE IInv
    OBVIOUS
  <1>1. Lists
    BY TuningAssumption DEF Init, Lists, ListsType, ListsAgree
  <1>2. /\ dmx \in [Demuxers -> Fields] /\ hist \in [Demuxers -> HistFields]
        /\ \A d \in Demuxers : /\ dmx[d].id = 0 /\ ~dmx[d].on
                               /\ ~hist[d].taken /\ hist[d].ended
    BY FirstValues DEF Init, HistFields, Stopped
  <1>3. Books
    BY <1>2 DEF Init, Books, IdsDiffer, ServerHas, Held
  <1>4. Control
    BY <1>2 DEF Init, Control, ActiveOrEnded, NoDuplicates, OpeningAlone, Opening, Playing, OnlyNormal,
       Live, Idle
  <1>5. Others
    <2>1. 1 \in Demuxers /\ 1 \in 1..MaxTime /\ 0 \in 0..MaxTunes /\ 0 \in 0..MaxEvents
      BY TuningAssumption DEF Demuxers
    <2> QED BY <2>1, FirstValues DEF Init, Others
  <1> QED BY <1>1, <1>3, <1>4, <1>5 DEF IInv

\* The lingering demuxer, which now has the normal weight, becomes active.
LEMMA InvRetuned ==
  ASSUME IInv, Retuned
  PROVE  IInv'
  <1> USE DEF IInv
  <1>1. UNCHANGED <<listVars, dmxVars, srvVars>> /\ dmx \in [Demuxers -> Fields]
    BY DEF Retuned, Books
  <1>2. Lists' /\ Books'
    BY <1>1, SameBooks DEF listVars, dmxVars, srvVars, Lists, ListsType, ListsAgree
  <1>3. Others'
    BY <1>1 DEF Retuned, srvVars, Others, CallFields, Steps
  <1>4. Control'
    BY <1>1 DEF Retuned, Others, CallFields, dmxVars, Control, ActiveOrEnded, NoDuplicates, OpeningAlone,
       Opening, Playing, OnlyNormal, NoneNormal, NoOtherNormal, IsOn, Live
  <1> QED BY <1>2, <1>3, <1>4

\* The demuxer that was opened becomes active; if that failed nothing plays.
LEMMA InvOpened ==
  ASSUME IInv, Opened
  PROVE  IInv'
  <1> USE DEF IInv
  <1>1. UNCHANGED <<listVars, dmxVars, srvVars>> /\ dmx \in [Demuxers -> Fields]
    BY DEF Opened, Books
  <1>2. Lists' /\ Books'
    BY <1>1, SameBooks DEF listVars, dmxVars, srvVars, Lists, ListsType, ListsAgree
  <1>3. Others'
    BY <1>1, FirstValues DEF Opened, srvVars, Others, CallFields, Steps
  <1>4. Control'
    BY <1>1 DEF Opened, Idle, Others, CallFields, dmxVars, Control, ActiveOrEnded, NoDuplicates,
       OpeningAlone, Opening, Playing, OnlyNormal, NoneNormal, NoOtherNormal, IsOn, Live
  <1> QED BY <1>2, <1>3, <1>4

\* What was prepared is played, with or without a prediction.
LEMMA InvFinishes ==
  ASSUME IInv, PredictsNothing \/ OpenReturns
  PROVE  IInv'
  <1> USE DEF IInv
  <1>1. /\ UNCHANGED <<listVars, dmxVars, srvVars, active, expiry, asked, now, tunes>>
        /\ kodi.at \in {"predict", "retunes"} /\ kodi' = Idle /\ dmx \in [Demuxers -> Fields]
    BY DEF PredictsNothing, OpenReturns, Books
  <1>2. Lists' /\ Books'
    BY <1>1, SameBooks DEF listVars, dmxVars, srvVars, Lists, ListsType, ListsAgree
  <1>3. playing' \in BOOLEAN /\ streamchange' \in BOOLEAN
    BY Zenon DEF PredictsNothing, OpenReturns, Finished, Others
  <1>4. Others'
    BY <1>1, <1>3, FirstValues DEF srvVars, Others
  <1>5. Control'
    BY <1>1 DEF Idle, dmxVars, Control, ActiveOrEnded, NoDuplicates,
       OpeningAlone, Opening, Playing, OnlyNormal, NoneNormal, NoOtherNormal, IsOn, Live
  <1> QED BY <1>2, <1>4, <1>5

\* The subscription lingers.
LEMMA InvCloseLiveStream ==
  ASSUME IInv, CloseLiveStream
  PROVE  IInv'
  <1> USE DEF IInv
  <1>1. UNCHANGED <<listVars, dmxVars, srvVars, kodi, active, asked>> /\ ~playing'
        /\ dmx \in [Demuxers -> Fields] /\ kodi.d \in Demuxers
    BY DEF CloseLiveStream, Books, Others, CallFields
  <1>2. Lists' /\ Books'
    BY <1>1, SameBooks DEF listVars, dmxVars, srvVars, Lists, ListsType, ListsAgree
  <1>3. Others'
    BY <1>1 DEF CloseLiveStream, srvVars, Others
  <1>4. Control'
    BY <1>1, StillControl DEF CloseLiveStream, dmxVars, Others
  <1> QED BY <1>2, <1>3, <1>4

\* The test that a subscription has expired, the end of the wait behind the
\* unsubscribe, and time.
LEMMA InvWaits ==
  ASSUME IInv, CloseExpiredSubscriptions \/ Closed \/ Tick
  PROVE  IInv'
  <1> USE DEF IInv
  <1>1. UNCHANGED <<listVars, dmxVars, srvVars, kodiVars>> /\ dmx \in [Demuxers -> Fields] /\ kodi.d \in Demuxers
    BY DEF CloseExpiredSubscriptions, Closed, Tick, Books, Others, CallFields
  <1>2. Lists' /\ Books'
    BY <1>1, SameBooks DEF listVars, dmxVars, srvVars, Lists, ListsType, ListsAgree
  <1>3. expiry' \in ExpiryFields /\ now' \in 1..MaxTime
    <2>1. [expiry EXCEPT !.at = "close"] \in ExpiryFields /\ Onward(expiry.d) \in ExpiryFields
      BY GoesOn DEF Others, ExpiryFields
    <2>2. now < MaxTime => now + 1 \in 1..MaxTime
      BY TuningAssumption DEF Others
    <2> QED BY <2>1, <2>2 DEF CloseExpiredSubscriptions, Closed, Tick, Others
  <1>4. Others'
    BY <1>1, <1>3 DEF kodiVars, srvVars, Others
  <1>5. Control'
    BY <1>1, StillControl DEF kodiVars, dmxVars, Others
  <1> QED BY <1>2, <1>4, <1>5

\* Reading is a use.
LEMMA InvDemuxRead ==
  ASSUME IInv, DemuxRead
  PROVE  IInv'
  <1> USE DEF IInv
  <1>1. /\ UNCHANGED <<listVars, hist, ids, srvVars, kodi, active, playing, asked, expiry, now, tunes>>
        /\ dmx \in [Demuxers -> Fields] /\ kodi.d \in Demuxers /\ active \in Demuxers /\ now \in 0..MaxTime
        /\ dmx' = dmx \/ dmx' = [dmx EXCEPT ![active].lastUse = now]
    BY DEF DemuxRead, Books, Others, CallFields
  <1>2. dmx' \in [Demuxers -> Fields]
    BY <1>1, FieldSet
  <1>3. \A e \in Demuxers : /\ dmx'[e].id = dmx[e].id /\ dmx'[e].on = dmx[e].on
                            /\ dmx'[e].chan = dmx[e].chan /\ dmx'[e].weight = dmx[e].weight
    BY <1>1 DEF Fields
  <1>4. Lists' /\ Books'
    BY <1>1, <1>2, <1>3, SameBooks DEF listVars, srvVars, Lists, ListsType, ListsAgree
  <1>5. Others'
    <2>1. streamchange' \in BOOLEAN
      BY Zenon DEF DemuxRead, Others
    <2> QED BY <1>1, <2>1 DEF srvVars, Others
  <1>6. Control'
    BY <1>1, <1>3, SameControl DEF Live
  <1> QED BY <1>4, <1>5, <1>6

\* Pausing changes no subscription.
LEMMA InvSetSpeed ==
  ASSUME IInv, SetSpeed
  PROVE  IInv'
  <1> USE DEF IInv
  <1>1. /\ UNCHANGED <<listVars, hist, ids, srvVars, kodiVars, expiry, now>>
        /\ dmx \in [Demuxers -> Fields] /\ kodi.d \in Demuxers /\ active \in Demuxers
        /\ dmx' = [dmx EXCEPT ![active].paused = ~dmx[active].paused]
    BY DEF SetSpeed, Books, Others, CallFields
  <1>2. dmx' \in [Demuxers -> Fields]
    <2>1. (~dmx[active].paused) \in BOOLEAN
      OBVIOUS
    <2> QED BY <1>1, <2>1, FieldSet
  <1>3. \A e \in Demuxers : /\ dmx'[e].id = dmx[e].id /\ dmx'[e].on = dmx[e].on
                            /\ dmx'[e].chan = dmx[e].chan /\ dmx'[e].weight = dmx[e].weight
    BY <1>1 DEF Fields
  <1>4. Lists' /\ Books'
    BY <1>1, <1>2, <1>3, SameBooks DEF listVars, srvVars, Lists, ListsType, ListsAgree
  <1>5. Others'
    BY <1>1 DEF srvVars, kodiVars, Others
  <1>6. Control'
    BY <1>1, <1>3, SameControl DEF Live, kodiVars
  <1> QED BY <1>4, <1>5, <1>6

\* A status makes a demuxer active: one that holds a subscription, while Open
\* waits for its response, or one that has ended it.
LEMMA InvStatus ==
  ASSUME IInv, NEW d \in Demuxers, ParseSubscriptionStatus(d)
  PROVE  IInv'
  <1> USE DEF IInv
  <1>1. /\ UNCHANGED <<listVars, hist, ids, srv, kodiVars, expiry, now>>
        /\ dmx \in [Demuxers -> Fields] /\ kodi.d \in Demuxers /\ active \in Demuxers
        /\ dmx' = [dmx EXCEPT ![d].on = TRUE] /\ hist[d].taken /\ ~dmx[d].on
    BY DEF ParseSubscriptionStatus, Books, Others, CallFields
  <1>2. dmx' \in [Demuxers -> Fields]
    BY <1>1, FieldSet
  <1>3. \A e \in Demuxers : /\ dmx'[e].id = dmx[e].id /\ (dmx'[e].on <=> e = d \/ dmx[e].on)
                            /\ dmx'[e].chan = dmx[e].chan /\ dmx'[e].weight = dmx[e].weight
    BY <1>1 DEF Fields
  <1>4. Lists' /\ Books'
    BY <1>1, <1>2, <1>3, SameBooks DEF listVars, Lists, ListsType, ListsAgree
  <1>5. Others'
    <2>1. events' \in 0..MaxEvents
      BY TuningAssumption DEF ParseSubscriptionStatus, Event, Others
    <2> QED BY <1>1, <2>1 DEF kodiVars, Others
  <1>6. Control'
    <2>1. CASE hist[d].ended
      <3>1. \A e \in Demuxers : Live(e)' => Live(e)
        BY <1>1, <1>3, <2>1 DEF Live
      <3> QED BY <1>1, <1>3, <3>1, SameControl DEF kodiVars
    <2>2. CASE ~hist[d].ended
      <3>1. kodi.at = "subscribed" /\ kodi.d = d
        BY <1>1, <2>2 DEF Control, ActiveOrEnded
      <3>2. \A e \in Demuxers : Live(e)' <=> e = d \/ Live(e)
        BY <1>1, <1>3, <2>2 DEF Live
      <3> HIDE DEF IInv
      <3>3. Control
        BY DEF IInv
      <3>4. ActiveOrEnded'
        BY <1>1, <1>3, <3>2, <3>3 DEF kodiVars, Control, ActiveOrEnded
      <3>5. NoDuplicates' /\ OpeningAlone'
        BY <1>1, <1>3, <3>1, <3>2, <3>3 DEF kodiVars, Control, NoDuplicates, OpeningAlone, Opening
      <3>6. Playing'
        BY <1>1, <1>3, <3>1, <3>2, <3>3, Distinct DEF kodiVars, Control, OpeningAlone, Opening, Playing,
           OnlyNormal, NoneNormal, NoOtherNormal, IsOn
      <3> QED BY <3>4, <3>5, <3>6 DEF Control
    <2> QED BY <2>1, <2>2
  <1> QED BY <1>4, <1>5, <1>6

\* Open closes what kodi.d was subscribed to.
LEMMA InvOpenCloses ==
  ASSUME IInv, OpenCloses
  PROVE  IInv'
  <1> USE DEF IInv
  <1>1. /\ kodi.at = "open" /\ kodi' = [kodi EXCEPT !.at = "subscribe"] /\ kodi.d \in Demuxers
        /\ Close0(kodi.d) /\ UNCHANGED <<listVars, active, playing, streamchange, expiry, asked, now, tunes>>
    BY DEF OpenCloses, Others, CallFields
  <1>2. /\ Books' /\ events' \in 0..MaxEvents /\ hist'[kodi.d].ended
        /\ \A e \in Demuxers :
             /\ (dmx'[e].on <=> e # kodi.d /\ dmx[e].on)
             /\ dmx'[e].chan = dmx[e].chan /\ dmx'[e].weight = dmx[e].weight
             /\ e # kodi.d => hist'[e] = hist[e]
    <2>1. dmx[kodi.d].on \/ hist[kodi.d].ended
      BY <1>1 DEF Control, ActiveOrEnded
    <2> QED BY <1>1, <2>1, Closing DEF Others
  <1>3. Lists'
    BY <1>1 DEF listVars, Lists, ListsType, ListsAgree
  <1>4. Others'
    BY <1>1, <1>2 DEF Others, CallFields, Steps
  <1>5. /\ kodi'.at = "subscribe"
        /\ kodi'.d = kodi.d /\ kodi'.to = kodi.to /\ kodi'.want = kodi.want
        /\ kodi'.w = kodi.w /\ (kodi'.pre <=> kodi.pre)
    BY <1>1 DEF Others, CallFields
  <1>6. \A e \in Demuxers : Live(e)' <=> e # kodi.d /\ Live(e)
    BY <1>2 DEF Live
  <1>7. Control'
    <2> HIDE DEF IInv
    <2>1. Control
      BY DEF IInv
    <2>2. ActiveOrEnded'
      BY <1>1, <1>2, <1>5, <1>6, <2>1 DEF Control, ActiveOrEnded
    <2>3. NoDuplicates' /\ OpeningAlone'
      BY <1>1, <1>2, <1>5, <1>6, <2>1 DEF Control, NoDuplicates, OpeningAlone, Opening
    <2>4. kodi.at = "open" /\ active' = active /\ asked' = asked /\ (playing' <=> playing)
          /\ active \in Demuxers /\ kodi.d \in Demuxers
      BY <1>1 DEF IInv, Others
    <2>5. \A e \in Demuxers : dmx'[e].chan = dmx[e].chan /\ dmx'[e].weight = dmx[e].weight
      BY <1>2
    <2>6. Playing
      BY <2>1 DEF Control
    <2>7. Playing'
      BY <1>5, <1>6, <2>4, <2>5, <2>6 DEF Opening, Playing, OnlyNormal, NoneNormal, NoOtherNormal, IsOn
    <2> QED BY <2>2, <2>3, <2>7 DEF Control
  <1> QED BY <1>2, <1>3, <1>4, <1>7

\* A subscription that has expired is closed, whatever Kodi's thread is doing.
LEMMA InvCloses ==
  ASSUME IInv, Closes
  PROVE  IInv'
  <1> USE DEF IInv
  <1>1. /\ expiry.d \in Demuxers /\ kodi.d \in Demuxers /\ Close0(expiry.d)
        /\ UNCHANGED <<listVars, kodiVars, now>>
    BY DEF Closes, Others, CallFields, ExpiryFields
  <1>2. /\ Books' /\ events' \in 0..MaxEvents
        /\ (dmx[expiry.d].on \/ hist[expiry.d].ended => hist'[expiry.d].ended)
        /\ \A e \in Demuxers :
             /\ (dmx'[e].on <=> e # expiry.d /\ dmx[e].on)
             /\ dmx'[e].chan = dmx[e].chan /\ dmx'[e].weight = dmx[e].weight
             /\ (e # expiry.d \/ ~dmx[e].on => hist'[e] = hist[e])
             /\ (hist'[e].taken <=> hist[e].taken) /\ (hist'[e].carried <=> hist[e].carried)
    BY <1>1, Closing DEF Others
  <1>3. Lists'
    BY <1>1 DEF listVars, Lists, ListsType, ListsAgree
  <1>4. Others'
    <2>1. expiry' \in ExpiryFields
      <3>1. [expiry EXCEPT !.at = "closing"] \in ExpiryFields /\ Onward(expiry.d) \in ExpiryFields
        BY <1>1, GoesOn DEF Others, ExpiryFields
      <3> QED BY <3>1 DEF Closes
    <2> QED BY <1>1, <1>2, <2>1 DEF kodiVars, Others
  <1>5. \A e \in Demuxers : /\ Live(e)' => Live(e)
                            /\ dmx[e].on \/ hist[e].ended => dmx'[e].on \/ hist'[e].ended
                            /\ hist[e].ended => hist'[e].ended
    BY <1>2 DEF Live
  <1>6. Control'
    BY <1>1, <1>2, <1>5, SameControl DEF kodiVars, Others
  <1> QED BY <1>2, <1>3, <1>4, <1>6

\* Open puts m_lastUse back.
LEMMA InvOpenFailed ==
  ASSUME IInv, OpenFailed
  PROVE  IInv'
  <1> USE DEF IInv
  <1>1. /\ kodi.at = "unsubscribed" /\ kodi' = Returns(FALSE) /\ kodi.d \in Demuxers /\ kodi.saved \in 0..MaxTime
        /\ UNCHANGED <<listVars, hist, ids, active, playing, streamchange, expiry, srvVars, asked, now, tunes>>
        /\ dmx \in [Demuxers -> Fields] /\ dmx' = [dmx EXCEPT ![kodi.d].lastUse = kodi.saved]
    BY DEF OpenFailed, Books, Others, CallFields
  <1>2. dmx' \in [Demuxers -> Fields]
    BY <1>1, FieldSet
  <1>3. \A e \in Demuxers : /\ dmx'[e].id = dmx[e].id /\ (dmx'[e].on <=> dmx[e].on)
                            /\ dmx'[e].chan = dmx[e].chan /\ dmx'[e].weight = dmx[e].weight
    BY <1>1 DEF Fields
  <1>4. Lists' /\ Books'
    BY <1>1, <1>2, <1>3, SameBooks DEF listVars, srvVars, Lists, ListsType, ListsAgree
  <1>5. Others'
    BY <1>1 DEF srvVars, Returns, Others, CallFields, Steps
  <1>6. /\ kodi'.at = (IF kodi.pre THEN "retunes" ELSE "opened") /\ kodi'.want = NONE
        /\ kodi'.d = kodi.d /\ kodi'.to = kodi.to /\ kodi'.w = kodi.w /\ (kodi'.pre <=> kodi.pre)
    BY <1>1 DEF Returns, Others, CallFields
  <1>7. \A e \in Demuxers : Live(e)' <=> Live(e)
    BY <1>1, <1>3 DEF Live
  <1>8. ~Live(kodi.d)
    BY <1>1 DEF Control, OpeningAlone, Opening, Live
  <1>9. Control'
    <2> HIDE DEF IInv
    <2>1. Control
      BY DEF IInv
    <2>2. kodi.at = "unsubscribed" /\ active' = active /\ asked' = asked /\ (playing' <=> playing)
          /\ hist' = hist /\ active \in Demuxers /\ kodi.d \in Demuxers
      BY <1>1 DEF IInv, Others
    <2>3. ActiveOrEnded'
      BY <1>3, <1>6, <1>7, <2>1, <2>2 DEF Control, ActiveOrEnded
    <2>4. NoDuplicates'
      BY <1>3, <1>7, <2>1 DEF Control, NoDuplicates
    <2>5. OpeningAlone'
      BY <1>6 DEF OpeningAlone, Opening
    <2>6. Playing
      BY <2>1 DEF Control
    <2>7. Playing'
      BY <1>3, <1>6, <1>7, <1>8, <2>2, <2>6 DEF Opening, Playing, OnlyNormal, NoneNormal, NoOtherNormal, IsOn
    <2> QED BY <2>3, <2>4, <2>5, <2>7 DEF Control
  <1> QED BY <1>4, <1>5, <1>9

\* The books with a new subscription, which the server takes or not.
LEMMA Subscribes ==
  ASSUME IInv, OpenSubscribes
  PROVE  /\ Books'
         /\ \A e \in Demuxers :
              /\ (dmx'[e].on <=> dmx[e].on)
              /\ dmx'[e].chan = (IF e = kodi.d THEN kodi.want ELSE dmx[e].chan)
              /\ dmx'[e].weight = (IF e = kodi.d THEN kodi.w ELSE dmx[e].weight)
              /\ e # kodi.d => hist'[e] = hist[e]
         /\ ~hist'[kodi.d].ended /\ (hist'[kodi.d].carried <=> dmx[kodi.d].on)
  <1> DEFINE d == kodi.d
  <1> DEFINE n == ids + 1
  <1>1. /\ kodi.at = "subscribe" /\ d \in Demuxers /\ kodi.want \in Channels /\ kodi.w \in Weights
        /\ hist[d].ended /\ now \in 0..MaxTime /\ ids \in Nat
        /\ dmx \in [Demuxers -> Fields] /\ hist \in [Demuxers -> HistFields]
    BY DEF OpenSubscribes, IInv, Books, Control, OpeningAlone, Opening, Others, CallFields, Weights
  <1>2. PICK taken \in BOOLEAN :
          /\ hist' = [hist EXCEPT ![d] = [taken |-> taken, ended |-> FALSE, carried |-> dmx[d].on]]
          /\ srv' = [i \in DOMAIN srv \cup {x \in {n} : taken} |->
                      IF i = n THEN [chan |-> kodi.want, weight |-> kodi.w, stale |-> FALSE, kept |-> FALSE]
                      ELSE srv[i]]
    BY DEF OpenSubscribes
  <1>3. /\ ids' = n /\ n \in Nat
        /\ dmx' = [dmx EXCEPT ![d].id = n, ![d].chan = kodi.want, ![d].weight = kodi.w,
                              ![d].paused = FALSE, ![d].lastUse = now]
    BY <1>1 DEF OpenSubscribes
  <1>4. /\ dmx'[d] = [dmx[d] EXCEPT !.id = n, !.chan = kodi.want, !.weight = kodi.w,
                                    !.paused = FALSE, !.lastUse = now]
        /\ dmx'[d] \in Fields
        /\ \A e \in Demuxers : e # d => dmx'[e] = dmx[e]
        /\ dmx' \in [Demuxers -> Fields]
    <2>1. dmx'[d] = [dmx[d] EXCEPT !.id = n, !.chan = kodi.want, !.weight = kodi.w,
                                   !.paused = FALSE, !.lastUse = now]
      BY <1>1, <1>3
    <2>2. dmx'[d] \in Fields
      <3>1. dmx[d] \in Fields
        BY <1>1
      <3> QED BY <1>1, <1>3, <2>1, <3>1 DEF Fields
    <2>3. DOMAIN dmx' = Demuxers /\ \A e \in Demuxers : e # d => dmx'[e] = dmx[e]
      BY <1>1, <1>3
    <2>4. dmx' = [e \in Demuxers |-> dmx'[e]]
      BY <1>1, <1>3
    <2>5. \A e \in Demuxers : dmx'[e] \in Fields
      BY <1>1, <2>2, <2>3
    <2> QED BY <2>1, <2>2, <2>3, <2>4, <2>5
  <1>5. \A e \in Demuxers :
          /\ (dmx'[e].on <=> dmx[e].on)
          /\ dmx'[e].id = (IF e = d THEN n ELSE dmx[e].id)
          /\ dmx'[e].chan = (IF e = d THEN kodi.want ELSE dmx[e].chan)
          /\ dmx'[e].weight = (IF e = d THEN kodi.w ELSE dmx[e].weight)
    <2>1. dmx[d] \in Fields
      BY <1>1
    <2>2. /\ (dmx'[d].on <=> dmx[d].on) /\ dmx'[d].id = n
          /\ dmx'[d].chan = kodi.want /\ dmx'[d].weight = kodi.w
      <3> HIDE DEF d, n
      <3> QED BY <1>4, <2>1 DEF Fields
    <2>3. \A e \in Demuxers : e # d => dmx'[e] = dmx[e]
      BY <1>4
    <2> HIDE DEF d, n
    <2> QED BY <2>2, <2>3
  <1>6. /\ hist' \in [Demuxers -> HistFields] /\ \A e \in Demuxers : e # d => hist'[e] = hist[e]
        /\ ~hist'[d].ended /\ (hist'[d].carried <=> dmx[d].on) /\ (hist'[d].taken <=> taken)
    <2>1. dmx[d].on \in BOOLEAN
      BY <1>1 DEF Fields
    <2>2. hist'[d] = [taken |-> taken, ended |-> FALSE, carried |-> dmx[d].on]
      BY <1>1, <1>2
    <2>3. hist'[d] \in HistFields
      BY <2>1, <2>2 DEF HistFields
    <2> QED BY <1>1, <1>2, <2>1, <2>2, <2>3
  <1> HIDE DEF d, n
  <1>7. \A e \in Demuxers : dmx[e].id <= ids /\ dmx[e].id \in Nat
    BY <1>1 DEF IInv, Books, IdsDiffer, Fields
  <1>8. IdsDiffer'
    <2>1. n > ids /\ n # 0
      BY <1>1 DEF n
    <2>2. IdsDiffer
      BY DEF IInv, Books
    <2> QED BY <1>1, <1>3, <1>5, <1>6, <1>7, <2>1, <2>2 DEF IdsDiffer
  <1>9. /\ DOMAIN srv' = DOMAIN srv \cup {x \in {n} : taken} /\ n \notin DOMAIN srv
        /\ \A i \in DOMAIN srv : srv'[i] = srv[i] /\ srv[i] \in SrvFields
        /\ taken => /\ srv'[n] \in SrvFields
                    /\ srv'[n].chan = kodi.want /\ srv'[n].weight = kodi.w
    <2>1. n \notin DOMAIN srv /\ \A i \in DOMAIN srv : srv[i] \in SrvFields
      BY <1>1 DEF IInv, Books, n
    <2>2. DOMAIN srv' = DOMAIN srv \cup {x \in {n} : taken} /\ \A i \in DOMAIN srv : srv'[i] = srv[i]
      BY <1>2, <2>1
    <2>3. taken => srv'[n] = [chan |-> kodi.want, weight |-> kodi.w, stale |-> FALSE, kept |-> FALSE]
      BY <1>2
    <2>4. [chan |-> kodi.want, weight |-> kodi.w, stale |-> FALSE, kept |-> FALSE] \in SrvFields
      BY <1>1 DEF SrvFields
    <2> QED BY <2>1, <2>2, <2>3, <2>4
  <1>10. DOMAIN srv' \subseteq 1..ids' /\ \A i \in DOMAIN srv' : srv'[i] \in SrvFields
    <2>1. DOMAIN srv \subseteq 1..ids
      BY DEF IInv, Books
    <2> QED BY <1>1, <1>3, <1>9, <2>1 DEF n
  <1>11. \A e \in Demuxers : (Held(e)' <=> IF e = d THEN taken ELSE Held(e))
    BY <1>1, <1>6 DEF Held
  <1>12. ASSUME NEW e \in Demuxers, Held(e)' PROVE Has(e)'
    <2>1. CASE e = d
      BY <1>5, <1>9, <1>11, <1>12, <2>1 DEF Has
    <2>2. CASE e # d
      <3>1. Has(e)
        BY <1>11, <1>12, <2>2 DEF IInv, Books, ServerHas
      <3> QED BY <1>5, <1>9, <2>2, <3>1 DEF Has
    <2> QED BY <2>1, <2>2
  <1>13. ASSUME NEW i \in DOMAIN srv' PROVE srv'[i].kept \/ \E e \in Demuxers : Held(e)' /\ dmx'[e].id = i
    <2>1. CASE i \in DOMAIN srv
      <3>1. srv[i].kept \/ \E e \in Demuxers : Held(e) /\ dmx[e].id = i
        BY <2>1 DEF IInv, Books, ServerHas
      <3>2. ~Held(d)
        BY <1>1 DEF Held
      <3> QED BY <2>1, <3>1, <3>2, <1>5, <1>9, <1>11
    <2>2. CASE i \notin DOMAIN srv
      BY <2>2, <1>1, <1>5, <1>9, <1>11
    <2> QED BY <2>1, <2>2
  <1>14. Books'
    BY <1>1, <1>3, <1>4, <1>6, <1>8, <1>10, <1>12, <1>13 DEF Books, ServerHas
  <1> QED BY <1>5, <1>6, <1>14 DEF d

\* Open fills in what it subscribes to.
LEMMA InvOpenSubscribes ==
  ASSUME IInv, OpenSubscribes
  PROVE  IInv'
  <1>1. /\ kodi.at = "subscribe" /\ kodi' = [kodi EXCEPT !.at = "subscribed", !.saved = dmx[kodi.d].lastUse]
        /\ UNCHANGED <<listVars, active, playing, streamchange, expiry, events, asked, now, tunes>>
        /\ kodi.d \in Demuxers /\ dmx[kodi.d].lastUse \in 0..MaxTime
    BY DEF OpenSubscribes, IInv, Books, Fields, Others, CallFields
  <1>2. Lists'
    BY <1>1 DEF listVars, IInv, Lists, ListsType, ListsAgree
  <1>3. Others'
    BY <1>1 DEF IInv, Others, CallFields, Steps
  <1>4. /\ kodi'.at = "subscribed"
        /\ kodi'.d = kodi.d /\ kodi'.to = kodi.to /\ kodi'.want = kodi.want
        /\ kodi'.w = kodi.w /\ (kodi'.pre <=> kodi.pre)
    BY <1>1 DEF IInv, Others, CallFields
  <1>5. /\ \A e \in Demuxers :
             /\ (dmx'[e].on <=> dmx[e].on)
             /\ dmx'[e].chan = (IF e = kodi.d THEN kodi.want ELSE dmx[e].chan)
             /\ dmx'[e].weight = (IF e = kodi.d THEN kodi.w ELSE dmx[e].weight)
             /\ e # kodi.d => hist'[e] = hist[e]
        /\ (hist'[kodi.d].carried <=> dmx[kodi.d].on)
    BY Subscribes
  <1>6. \A e \in Demuxers : e # kodi.d => (Live(e)' <=> Live(e))
    BY <1>5 DEF Live
  <1>7. ActiveOrEnded'
    <2>1. Live(kodi.d)' => hist'[kodi.d].carried
      BY <1>1, <1>5 DEF Live
    <2>2. ActiveOrEnded
      BY DEF IInv, Control
    <2> QED BY <1>1, <1>4, <1>5, <1>6, <2>1, <2>2 DEF ActiveOrEnded
  <1>8. Control
    BY DEF IInv
  <1>9. OpeningAlone'
    BY <1>1, <1>4, <1>5, <1>6, <1>8 DEF Control, OpeningAlone, Opening
  <1>10. NoDuplicates'
    <2>1. \A e \in Demuxers : e # kodi.d /\ Live(e)' => dmx'[e].chan # kodi.want
      BY <1>1, <1>5, <1>6, <1>8 DEF Control, OpeningAlone, Opening
    <2>2. \A e, f \in Demuxers : e # f /\ e # kodi.d /\ f # kodi.d /\ Live(e)' /\ Live(f)'
             => dmx'[e].chan # dmx'[f].chan
      BY <1>5, <1>6, <1>8 DEF Control, NoDuplicates
    <2>3. dmx'[kodi.d].chan = kodi.want
      BY <1>1, <1>5
    <2> QED BY <2>1, <2>2, <2>3 DEF NoDuplicates
  <1>11. Playing'
    <2>1. active' = active /\ asked' = asked /\ active \in Demuxers
          /\ \A e \in Demuxers : e # kodi.d => dmx'[e].chan = dmx[e].chan /\ dmx'[e].weight = dmx[e].weight
      BY <1>1, <1>5 DEF IInv, Others
    <2>2. kodi.pre => dmx'[kodi.d].weight # NORMAL
      BY <1>1, <1>5, <1>8, Distinct DEF Control, OpeningAlone, Opening
    <2>3. Playing
      BY <1>8 DEF Control
    <2> QED BY <1>1, <1>4, <1>6, <2>1, <2>2, <2>3 DEF Opening, Playing, OnlyNormal, NoneNormal, NoOtherNormal, IsOn
  <1> QED BY <1>2, <1>3, <1>7, <1>8, <1>9, <1>10, <1>11, Subscribes DEF IInv, Control

\* Where Open returns to when kodi.d is active: nobody else is on its channel.
LEMMA OpenIsOn ==
  ASSUME IInv, kodi.at = "subscribed", kodi' = Returns(TRUE),
         UNCHANGED <<active, asked, hist>>,
         \A e \in Demuxers :
           /\ (dmx'[e].on <=> e = kodi.d \/ dmx[e].on)
           /\ dmx'[e].chan = dmx[e].chan /\ dmx'[e].weight = dmx[e].weight,
         dmx[kodi.d].on \/ hist[kodi.d].taken
  PROVE  Control' /\ kodi' \in CallFields
  <1>1. kodi.d \in Demuxers /\ active \in Demuxers /\ kodi \in CallFields
    BY DEF IInv, Others, CallFields
  <1>2. kodi' \in CallFields
    BY <1>1 DEF Returns, CallFields, Steps
  <1>3. /\ kodi'.at = (IF kodi.pre THEN "retunes" ELSE "opened") /\ kodi'.want = kodi.want
        /\ kodi'.d = kodi.d /\ kodi'.to = kodi.to /\ kodi'.w = kodi.w /\ (kodi'.pre <=> kodi.pre)
    BY <1>1 DEF Returns, CallFields
  <1>4. \A e \in Demuxers : e # kodi.d => (Live(e)' <=> Live(e))
    BY DEF Live
  <1>5. Control
    BY DEF IInv
  <1>6. ActiveOrEnded'
    <2>1. ActiveOrEnded
      BY <1>5 DEF Control
    <2> QED BY <1>1, <1>4, <2>1 DEF ActiveOrEnded, Live
  <1>7. OpeningAlone'
    BY <1>3 DEF OpeningAlone, Opening
  <1>8. /\ dmx[kodi.d].chan = kodi.want /\ dmx[kodi.d].weight = (IF kodi.pre THEN PRETUNING ELSE NORMAL)
        /\ \A e \in Demuxers : e # kodi.d /\ Live(e) => dmx[e].chan # kodi.want
    BY <1>5 DEF Control, OpeningAlone, Opening
  <1>9. NoDuplicates'
    <2>1. NoDuplicates
      BY <1>5 DEF Control
    <2> QED BY <1>1, <1>4, <1>8, <2>1 DEF NoDuplicates
  <1>10. Playing'
    <2>1. Playing
      BY <1>5 DEF Control
    <2>2. \A e \in Demuxers : dmx'[e].chan = dmx[e].chan /\ dmx'[e].weight = dmx[e].weight
      OBVIOUS
    <2>3. CASE kodi.pre
      <3>1. OnlyNormal(active)
        BY <2>1, <2>3 DEF Playing
      <3>2. OnlyNormal(active)'
        BY <1>1, <1>4, <1>8, <2>1, <2>2, <2>3, <3>1, Distinct DEF Playing, Opening, OnlyNormal
      <3> QED BY <1>1, <1>3, <2>1, <2>2, <2>3, <3>2 DEF Opening, Playing, IsOn
    <2>4. CASE ~kodi.pre
      <3>1. NoOtherNormal(kodi.d)
        BY <2>1, <2>4 DEF Playing, Opening
      <3>2. \A e \in Demuxers : e # kodi.d => (Live(e)' => dmx'[e].weight # NORMAL)
        BY <1>4, <2>2, <3>1 DEF NoOtherNormal
      <3>3. dmx'[kodi.d].weight = NORMAL
        BY <1>1, <1>8, <2>2, <2>4
      <3>4. OnlyNormal(kodi.d)'
        BY <1>3, <3>2, <3>3 DEF OnlyNormal
      <3> QED BY <1>1, <1>3, <1>8, <2>1, <2>2, <2>4, <3>4 DEF Opening, Playing, IsOn
    <2> QED BY <2>3, <2>4
  <1> QED BY <1>2, <1>6, <1>7, <1>9, <1>10 DEF Control

\* The response to the subscribe makes kodi.d active.
LEMMA InvOpenSubscribed ==
  ASSUME IInv, OpenSubscribed
  PROVE  IInv'
  <1>1. /\ kodi.at = "subscribed" /\ hist[kodi.d].taken /\ kodi' = Returns(TRUE)
        /\ dmx' = [dmx EXCEPT ![kodi.d].on = TRUE] /\ dmx \in [Demuxers -> Fields] /\ kodi.d \in Demuxers
        /\ UNCHANGED <<listVars, hist, ids, active, playing, streamchange, expiry, srv, events, asked, now, tunes>>
    BY DEF OpenSubscribed, srvVars, IInv, Books, Others, CallFields
  <1>2. dmx' \in [Demuxers -> Fields]
    BY <1>1, FieldSet
  <1>3. \A e \in Demuxers : /\ dmx'[e].id = dmx[e].id /\ (dmx'[e].on <=> e = kodi.d \/ dmx[e].on)
                            /\ dmx'[e].chan = dmx[e].chan /\ dmx'[e].weight = dmx[e].weight
    BY <1>1 DEF Fields
  <1>4. Lists' /\ Books'
    BY <1>1, <1>2, <1>3, SameBooks DEF listVars, IInv, Lists, ListsType, ListsAgree
  <1>5. Control' /\ kodi' \in CallFields
    BY <1>1, <1>3, OpenIsOn
  <1>6. Others'
    BY <1>1, <1>5 DEF IInv, Others
  <1> QED BY <1>4, <1>5, <1>6 DEF IInv

\* There is no response: either a status has made kodi.d active, or it is ended.
LEMMA InvOpenFails ==
  ASSUME IInv, OpenFails
  PROVE  IInv'
  <1>1. /\ kodi.at = "subscribed" /\ kodi.d \in Demuxers /\ active \in Demuxers /\ dmx \in [Demuxers -> Fields]
        /\ kodi \in CallFields
        /\ UNCHANGED <<listVars, active, playing, streamchange, expiry, asked, now, tunes>>
    BY DEF OpenFails, IInv, Books, Others, CallFields
  <1>2. Lists'
    BY <1>1 DEF listVars, IInv, Lists, ListsType, ListsAgree
  <1>3. CASE dmx[kodi.d].on
    <2>1. kodi' = Returns(TRUE) /\ UNCHANGED <<dmx, hist, ids, srv, events>>
      BY <1>3 DEF OpenFails, dmxVars, srvVars
    <2>2. Books'
      BY <1>1, <2>1, SameBooks DEF IInv
    <2>3. Control' /\ kodi' \in CallFields
      BY <1>1, <1>3, <2>1, OpenIsOn
    <2> QED BY <1>1, <1>2, <2>1, <2>2, <2>3 DEF IInv, Others
  <1>4. CASE ~dmx[kodi.d].on
    <2>1. kodi' = [kodi EXCEPT !.at = "unsubscribed"] /\ Unsubscribe(kodi.d)
      BY <1>4 DEF OpenFails
    <2>2. /\ Books' /\ events' \in 0..MaxEvents /\ hist'[kodi.d].ended
          /\ \A e \in Demuxers :
               /\ (dmx'[e].on <=> e # kodi.d /\ dmx[e].on)
               /\ dmx'[e].chan = dmx[e].chan /\ dmx'[e].weight = dmx[e].weight
               /\ e # kodi.d => hist'[e] = hist[e]
      BY <1>1, <2>1, Ends DEF IInv, Others
    <2>3. Others'
      BY <1>1, <2>1, <2>2 DEF IInv, Others, CallFields, Steps
    <2>4. /\ kodi'.at = "unsubscribed"
          /\ kodi'.d = kodi.d /\ kodi'.to = kodi.to /\ kodi'.want = kodi.want
          /\ kodi'.w = kodi.w /\ (kodi'.pre <=> kodi.pre)
      BY <1>1, <2>1 DEF CallFields
    <2>5. \A e \in Demuxers : Live(e)' <=> e # kodi.d /\ Live(e)
      BY <2>2 DEF Live
    <2>6. Control
      BY DEF IInv
    <2>7. ActiveOrEnded'
      <3>1. ActiveOrEnded
        BY <2>6 DEF Control
      <3> QED BY <2>2, <2>4, <2>5, <3>1 DEF ActiveOrEnded
    <2>8. NoDuplicates'
      BY <2>2, <2>5, <2>6 DEF Control, NoDuplicates
    <2>9. OpeningAlone'
      BY <1>1, <2>2, <2>4, <2>5, <2>6 DEF Control, OpeningAlone, Opening
    <2>10. Playing'
      <3>1. active' = active /\ asked' = asked
            /\ \A e \in Demuxers : dmx'[e].chan = dmx[e].chan /\ dmx'[e].weight = dmx[e].weight
        BY <1>1, <2>2
      <3>2. Playing
        BY <2>6 DEF Control
      <3> QED BY <1>1, <2>4, <2>5, <3>1, <3>2 DEF Opening, Playing, OnlyNormal, NoneNormal, NoOtherNormal, IsOn
    <2> QED BY <1>2, <2>2, <2>3, <2>7, <2>8, <2>9, <2>10 DEF IInv, Control
  <1> QED BY <1>3, <1>4

\* The lingering demuxer gets the normal weight back.
LEMMA InvRetune ==
  ASSUME IInv, Retune
  PROVE  IInv'
  <1>1. /\ kodi.at = "retune" /\ kodi' = [kodi EXCEPT !.at = "retuned", !.from = GetChannelId(active)]
        /\ Weight(kodi.d, NORMAL) /\ kodi.d \in Demuxers /\ active \in Demuxers
        /\ UNCHANGED <<listVars, active, playing, streamchange, expiry, asked, now, tunes>>
    BY DEF Retune, IInv, Others, CallFields
  <1>2. /\ Books' /\ hist' = hist /\ events' \in 0..MaxEvents
        /\ \A e \in Demuxers :
             /\ dmx'[e].on = dmx[e].on /\ dmx'[e].chan = dmx[e].chan
             /\ dmx'[e].weight = IF e = kodi.d /\ dmx[e].on THEN NORMAL ELSE dmx[e].weight
    BY <1>1, Weighs DEF IInv, Others, Weights
  <1>3. Lists'
    BY <1>1 DEF listVars, IInv, Lists, ListsType, ListsAgree
  <1>4. Others'
    <2>1. GetChannelId(active) \in Channels \cup {NONE}
      BY <1>1 DEF GetChannelId, IInv, Books, Fields
    <2> QED BY <1>1, <1>2, <2>1 DEF IInv, Others, CallFields, Steps
  <1>5. kodi'.at = "retuned" /\ kodi'.d = kodi.d /\ kodi'.to = kodi.to /\ (kodi'.pre <=> kodi.pre)
    BY <1>1 DEF IInv, Others, CallFields
  <1>6. (\A e \in Demuxers : Live(e)' <=> Live(e)) /\ \A e \in Demuxers : Live(e) => dmx[e].on
    BY <1>2 DEF Live
  <1>7. ActiveOrEnded /\ NoDuplicates /\ Playing
    BY DEF IInv, Control
  <1>8. ActiveOrEnded' /\ NoDuplicates' /\ OpeningAlone'
    BY <1>1, <1>2, <1>5, <1>6, <1>7 DEF ActiveOrEnded, NoDuplicates, OpeningAlone, Opening
  <1>9. Playing'
    <2>1. active' = active /\ asked' = asked
      BY <1>1
    <2> QED BY <1>1, <1>2, <1>5, <1>6, <1>7, <2>1 DEF Opening, Playing, OnlyNormal, NoneNormal, IsOn
  <1> QED BY <1>2, <1>3, <1>4, <1>8, <1>9 DEF IInv, Control

\* A demuxer that lingers on a channel is subscribed to it.
LEMMA LingersOn ==
  ASSUME NEW c \in Channels, Lingering(c) # {}
  PROVE  FirstOf(Lingering(c)) \in Demuxers /\ dmx[FirstOf(Lingering(c))].on
           /\ dmx[FirstOf(Lingering(c))].chan = c
  <1>1. FirstOf(Lingering(c)) \in Lingering(c)
    BY Searches DEF Lingering
  <1> QED BY <1>1, Distinct DEF Lingering, GetChannelId

\* Nobody else is subscribed to a channel that no demuxer lingers on.
LEMMA NobodyOn ==
  ASSUME NEW c \in Channels, Lingering(c) = {}, NEW d \in Demuxers, Live(d)
  PROVE  dmx[d].chan # c
  BY DEF Lingering, GetChannelId, Live

\* The channel that plays is opened again.
LEMMA InvOpenSame ==
  ASSUME IInv, NEW c \in Channels, OpenSame(c)
  PROVE  IInv'
  <1>1. /\ kodi.at = "idle" /\ kodi' = kodi /\ asked' = c /\ active' = active /\ active \in Demuxers
        /\ UNCHANGED <<predictor, dmx, hist, ids, streamchange, expiry, srv, events, now>>
        /\ Looked(c) /\ dmx \in [Demuxers -> Fields] /\ tunes' \in 0..MaxTunes /\ playing' \in BOOLEAN
    BY TuningAssumption DEF OpenSame, Calling, dmxVars, srvVars, IInv, Books, Others
  <1>2. Lists' /\ Books'
    BY <1>1, Looks, SameBooks DEF IInv
  <1>3. Others'
    BY <1>1 DEF IInv, Others
  <1>4. dmx[active].chan = c
    BY LingersOn DEF OpenSame
  <1>5. \A e \in Demuxers : Live(e)' <=> Live(e)
    BY <1>1 DEF Live
  <1>6. ActiveOrEnded /\ NoDuplicates /\ Playing
    BY DEF IInv, Control
  <1>7. ActiveOrEnded' /\ NoDuplicates' /\ OpeningAlone'
    BY <1>1, <1>5, <1>6 DEF ActiveOrEnded, NoDuplicates, OpeningAlone, Opening
  <1>8. Playing'
    BY <1>1, <1>4, <1>5, <1>6 DEF Opening, Playing, OnlyNormal, IsOn
  <1> QED BY <1>2, <1>3, <1>7, <1>8 DEF IInv, Control

\* What OpenLiveStream does at first when the channel is not the active one: the
\* active demuxer loses its weight, and kodi.d is about to be tuned.
LEMMA Leaves ==
  ASSUME IInv, NEW c \in Channels, Calling(c), Weight(active, POSTTUNING), Looked(c),
         UNCHANGED <<predictor, active, playing, streamchange, expiry, now>>, kodi' \in CallFields
  PROVE  /\ Lists' /\ Books' /\ Others' /\ hist' = hist
         /\ \A e \in Demuxers :
              /\ (dmx'[e].on <=> dmx[e].on) /\ dmx'[e].chan = dmx[e].chan
              /\ (Live(e)' <=> Live(e)) /\ (Live(e) => dmx'[e].weight # NORMAL)
  <1>1. active \in Demuxers /\ kodi.at = "idle" /\ asked' = c /\ tunes' \in 0..MaxTunes
    BY TuningAssumption DEF Calling, IInv, Others
  <1>2. /\ Books' /\ hist' = hist /\ events' \in 0..MaxEvents
        /\ \A e \in Demuxers :
             /\ dmx'[e].on = dmx[e].on /\ dmx'[e].chan = dmx[e].chan
             /\ dmx'[e].weight = IF e = active /\ dmx[e].on THEN POSTTUNING ELSE dmx[e].weight
    BY <1>1, Weighs DEF IInv, Others, Weights
  <1>3. Lists' /\ Others'
    BY <1>1, <1>2, Looks DEF IInv, Others
  <1>4. \A e \in Demuxers : (Live(e)' <=> Live(e)) /\ (Live(e) => dmx[e].on)
    BY <1>2 DEF Live
  <1>5. OnlyNormal(active)
    BY <1>1 DEF IInv, Control, Playing
  <1>6. \A e \in Demuxers : Live(e) => dmx'[e].weight # NORMAL
    BY <1>2, <1>4, <1>5, Distinct DEF OnlyNormal
  <1> QED BY <1>2, <1>3, <1>4, <1>6

\* Kodi asks for a channel that a demuxer lingers on.
LEMMA InvOpenLingering ==
  ASSUME IInv, NEW c \in Channels, OpenLingering(c)
  PROVE  IInv'
  <1> DEFINE l == FirstOf(Lingering(c))
  <1>1. l \in Demuxers /\ dmx[l].chan = c
    BY LingersOn DEF OpenLingering
  <1>2. kodi' = [Idle EXCEPT !.at = "retune", !.d = l, !.to = c, !.retune = TRUE] /\ kodi.at = "idle"
    BY DEF OpenLingering, Calling
  <1> HIDE DEF l
  <1>3. /\ kodi' \in CallFields /\ kodi'.at = "retune" /\ kodi'.d = l /\ kodi'.to = c /\ ~kodi'.pre
    BY <1>1, <1>2, FirstValues DEF Idle, CallFields, Steps
  <1>4. /\ Lists' /\ Books' /\ Others' /\ hist' = hist /\ asked' = c
        /\ \A e \in Demuxers :
              /\ (dmx'[e].on <=> dmx[e].on) /\ dmx'[e].chan = dmx[e].chan
              /\ (Live(e)' <=> Live(e)) /\ (Live(e) => dmx'[e].weight # NORMAL)
    BY <1>3, Leaves DEF OpenLingering, Calling
  <1>5. ActiveOrEnded /\ NoDuplicates
    BY DEF IInv, Control
  <1>6. ActiveOrEnded' /\ NoDuplicates' /\ OpeningAlone'
    BY <1>2, <1>3, <1>4, <1>5 DEF ActiveOrEnded, NoDuplicates, OpeningAlone, Opening
  <1>7. Playing'
    BY <1>1, <1>3, <1>4, Distinct DEF Opening, Playing, NoneNormal, IsOn
  <1> QED BY <1>4, <1>6, <1>7 DEF IInv, Control

\* Kodi asks for a channel nobody is on: the demuxer used longest ago, which may
\* be the active one, is opened.
LEMMA InvOpenOldest ==
  ASSUME IInv, NEW c \in Channels, OpenOldest(c)
  PROVE  IInv'
  <1> DEFINE o == FirstOf(OldestOf(Demuxers))
  <1>1. o \in Demuxers /\ active \in Demuxers
    <2>1. Books /\ active \in Demuxers /\ Demuxers # {}
      BY DEF IInv, Others
    <2> QED BY <2>1, OldestExists, Searches
  <1>2. /\ kodi' = [Idle EXCEPT !.at = "open", !.d = o, !.to = c, !.from = GetChannelId(active), !.want = c]
        /\ kodi.at = "idle"
    BY DEF OpenOldest, Calling
  <1> HIDE DEF o
  <1>3. /\ kodi' \in CallFields /\ kodi'.at = "open" /\ kodi'.d = o /\ kodi'.to = c /\ kodi'.want = c
        /\ kodi'.w = NORMAL /\ ~kodi'.pre
    <2>1. GetChannelId(active) \in Channels \cup {NONE}
      BY <1>1 DEF GetChannelId, IInv, Books, Fields
    <2> QED BY <1>1, <1>2, <2>1, FirstValues DEF Idle, CallFields, Steps
  <1>4. /\ Lists' /\ Books' /\ Others' /\ hist' = hist /\ asked' = c
        /\ \A e \in Demuxers :
              /\ (dmx'[e].on <=> dmx[e].on) /\ dmx'[e].chan = dmx[e].chan
              /\ (Live(e)' <=> Live(e)) /\ (Live(e) => dmx'[e].weight # NORMAL)
    BY <1>3, Leaves DEF OpenOldest, Calling
  <1>5. ActiveOrEnded /\ NoDuplicates
    BY DEF IInv, Control
  <1>6. \A e \in Demuxers : Live(e) => dmx[e].chan # c
    BY NobodyOn DEF OpenOldest
  <1>7. ActiveOrEnded' /\ NoDuplicates'
    BY <1>2, <1>3, <1>4, <1>5 DEF ActiveOrEnded, NoDuplicates
  <1>8. OpeningAlone'
    BY <1>3, <1>4, <1>6 DEF OpeningAlone, Opening
  <1>9. Playing'
    BY <1>1, <1>3, <1>4, Distinct DEF Opening, Playing, NoOtherNormal, IsOn
  <1> QED BY <1>4, <1>7, <1>8, <1>9 DEF IInv, Control

\* Before a prediction the active demuxer is on the channel asked for, which is
\* not the one predicted.
LEMMA Predicts ==
  ASSUME IInv, PredictiveTune, NEW p \in PredictNextChannelId(kodi.from, kodi.to) \ {NONE}
  PROVE  /\ kodi.at = "predict" /\ ~kodi.pre /\ kodi.to = asked /\ asked # NONE
         /\ dmx[active].chan = asked /\ OnlyNormal(active) /\ active \in Demuxers
         /\ p \in Channels /\ p # asked
  <1>1. /\ kodi.at = "predict" /\ ~kodi.pre /\ kodi.to = asked /\ asked # NONE /\ kodi.to \in Channels
        /\ dmx[active].chan = asked /\ OnlyNormal(active) /\ active \in Demuxers
    BY DEF PredictiveTune, IInv, Control, Playing, IsOn, Opening, Others, CallFields
  <1>2. Lists
    BY DEF IInv
  <1> QED BY <1>1, <1>2, PredictsAnother

\* A predicted channel that a demuxer lingers on keeps a low weight; it is not the
\* one that plays.
LEMMA InvPredictLingering ==
  ASSUME IInv, PredictiveTune, NEW p \in PredictNextChannelId(kodi.from, kodi.to) \ {NONE},
         TuneOnOldest(p), Lingering(p) # {}
  PROVE  IInv'
  <1> DEFINE l == FirstOf(Lingering(p))
  <1>1. /\ kodi.at = "predict" /\ ~kodi.pre /\ kodi.to = asked /\ asked # NONE
        /\ dmx[active].chan = asked /\ OnlyNormal(active) /\ active \in Demuxers
        /\ p \in Channels /\ p # asked
    BY Predicts
  <1>2. l \in Demuxers /\ dmx[l].chan = p /\ l # active
    BY <1>1, LingersOn
  <1>3. /\ Weight(l, PRETUNING) /\ UNCHANGED channels /\ kodi' = [kodi EXCEPT !.at = "retunes", !.pre = TRUE]
        /\ UNCHANGED <<predictor, active, playing, streamchange, expiry, asked, now, tunes>>
    BY DEF TuneOnOldest, PredictiveTune
  <1> HIDE DEF l
  <1>4. /\ Books' /\ hist' = hist /\ events' \in 0..MaxEvents
        /\ \A e \in Demuxers :
             /\ dmx'[e].on = dmx[e].on /\ dmx'[e].chan = dmx[e].chan
             /\ dmx'[e].weight = IF e = l /\ dmx[e].on THEN PRETUNING ELSE dmx[e].weight
    BY <1>2, <1>3, Weighs DEF IInv, Others, Weights
  <1>5. Lists'
    BY <1>3 DEF IInv, Lists, ListsType, ListsAgree
  <1>6. Others'
    BY <1>3, <1>4 DEF IInv, Others, CallFields, Steps
  <1>7. kodi'.at = "retunes" /\ kodi'.to = kodi.to /\ kodi'.pre
    BY <1>3 DEF IInv, Others, CallFields
  <1>8. \A e \in Demuxers : (Live(e)' <=> Live(e)) /\ (Live(e) => dmx[e].on)
    BY <1>4 DEF Live
  <1>9. ActiveOrEnded /\ NoDuplicates
    BY DEF IInv, Control
  <1>10. ActiveOrEnded' /\ NoDuplicates' /\ OpeningAlone'
    BY <1>1, <1>4, <1>7, <1>8, <1>9 DEF ActiveOrEnded, NoDuplicates, OpeningAlone, Opening
  <1>11. OnlyNormal(active)'
    BY <1>1, <1>2, <1>3, <1>4, <1>8, Distinct DEF OnlyNormal
  <1>12. Playing'
    BY <1>1, <1>3, <1>4, <1>7, <1>11 DEF Opening, Playing, IsOn
  <1> QED BY <1>4, <1>5, <1>6, <1>10, <1>12 DEF IInv, Control

\* A predicted channel that nobody is on is opened on a demuxer that does not play.
LEMMA InvPredictOpens ==
  ASSUME IInv, PredictiveTune, NEW p \in PredictNextChannelId(kodi.from, kodi.to) \ {NONE},
         TuneOnOldest(p), Lingering(p) = {}
  PROVE  IInv'
  <1> DEFINE o == LastOf(OldestOf(Candidates))
  <1>1. /\ kodi.at = "predict" /\ ~kodi.pre /\ kodi.to = asked /\ asked # NONE
        /\ dmx[active].chan = asked /\ OnlyNormal(active) /\ active \in Demuxers
        /\ p \in Channels /\ p # asked
    BY Predicts
  <1>2. o \in Demuxers /\ o # active
    <2>1. Candidates # {} /\ Candidates \subseteq Demuxers
      <3>1. 1 \in Demuxers /\ 2 \in Demuxers
        BY TuningAssumption DEF Demuxers
      <3> QED BY <3>1 DEF Candidates
    <2>2. Books
      BY DEF IInv
    <2>3. o \in OldestOf(Candidates) /\ OldestOf(Candidates) \subseteq Candidates
      BY <2>1, <2>2, OldestExists, Searches
    <2> QED BY <2>3 DEF Candidates
  <1>3. /\ kodi' = [kodi EXCEPT !.at = "open", !.d = o, !.want = p, !.w = PRETUNING, !.pre = TRUE]
        /\ Looked(p) /\ UNCHANGED <<dmx, hist, ids, srv, events, predictor>>
        /\ UNCHANGED <<active, playing, streamchange, expiry, asked, now, tunes>>
        /\ dmx \in [Demuxers -> Fields]
    BY DEF TuneOnOldest, PredictiveTune, dmxVars, srvVars, IInv, Books
  <1> HIDE DEF o
  <1>4. Lists' /\ Books'
    BY <1>1, <1>3, Looks, SameBooks DEF IInv
  <1>5. Others'
    BY <1>1, <1>2, <1>3 DEF IInv, Others, CallFields, Steps
  <1>6. /\ kodi'.at = "open" /\ kodi'.d = o /\ kodi'.want = p /\ kodi'.w = PRETUNING /\ kodi'.pre
        /\ kodi'.to = kodi.to
    BY <1>3 DEF IInv, Others, CallFields
  <1>7. \A e \in Demuxers : (Live(e)' <=> Live(e)) /\ (Live(e) => dmx[e].chan # p)
    BY <1>1, <1>3, NobodyOn DEF Live
  <1>8. ActiveOrEnded /\ NoDuplicates
    BY DEF IInv, Control
  <1>9. ActiveOrEnded' /\ NoDuplicates'
    BY <1>1, <1>3, <1>6, <1>7, <1>8 DEF ActiveOrEnded, NoDuplicates
  <1>10. OpeningAlone'
    BY <1>1, <1>3, <1>6, <1>7 DEF OpeningAlone, Opening
  <1>11. OnlyNormal(active)'
    BY <1>1, <1>3, <1>7 DEF OnlyNormal
  <1>12. Playing'
    BY <1>1, <1>2, <1>3, <1>6, <1>11 DEF Opening, Playing, IsOn
  <1> QED BY <1>4, <1>5, <1>9, <1>10, <1>12 DEF IInv, Control

\* The channel list changes; the predictor follows.
LEMMA InvChannels ==
  ASSUME IInv, ChannelAdd \/ ChannelUpdate \/ ChannelDelete
  PROVE  IInv'
  <1> USE DEF IInv
  <1>1. /\ UNCHANGED <<dmx, hist, ids, kodiVars, expiry, srv, now>> /\ Handling
        /\ dmx \in [Demuxers -> Fields] /\ kodi.d \in Demuxers
    BY DEF ChannelAdd, ChannelUpdate, ChannelDelete, dmxVars, Books, Others, CallFields
  <1>2. Lists'
    <2>1. \A p \in predictor : p[1] \in Numbers /\ p[2] \in Channels /\ p = <<p[1], p[2]>>
      BY DEF Lists
    <2>2. CASE ChannelAdd
      <3>1. PICK c \in Channels \ {p[2] : p \in predictor}, n \in Numbers :
              /\ channels' = [x \in DOMAIN channels \cup {c} |-> IF x = c THEN n ELSE channels[x]]
              /\ predictor' = predictor \cup {<<n, c>>}
        BY <2>2 DEF ChannelAdd
      <3> QED BY <2>1, <3>1 DEF Lists, ListsType, ListsAgree
    <2>3. CASE ChannelUpdate
      <3>1. PICK p \in predictor, n \in Numbers :
              /\ channels' = [channels EXCEPT ![p[2]] = n]
              /\ predictor' = (predictor \ {<<channels[p[2]], p[2]>>}) \cup {<<n, p[2]>>}
        BY <2>3 DEF ChannelUpdate
      <3>2. p[2] \in DOMAIN channels /\ channels[p[2]] = p[1]
        BY <3>1 DEF Lists, ListsAgree
      <3>3. \A q \in predictor \ {p} : q[2] # p[2]
        BY <2>1, <3>1 DEF Lists, ListsAgree
      <3>4. predictor' = (predictor \ {p}) \cup {<<n, p[2]>>}
        BY <2>1, <3>1, <3>2
      <3> QED BY <2>1, <3>1, <3>2, <3>3, <3>4 DEF Lists, ListsType, ListsAgree
    <2>4. CASE ChannelDelete
      <3>1. PICK p \in predictor :
              /\ channels' = [x \in DOMAIN channels \ {p[2]} |-> channels[x]]
              /\ predictor' = predictor \ {p}
        BY <2>4 DEF ChannelDelete
      <3>2. \A q \in predictor \ {p} : q[2] # p[2]
        BY <2>1, <3>1 DEF Lists, ListsAgree
      <3> QED BY <2>1, <3>1, <3>2 DEF Lists, ListsType, ListsAgree
    <2> QED BY <2>2, <2>3, <2>4
  <1>3. Books'
    BY <1>1, SameBooks
  <1>4. Others'
    BY <1>1, TuningAssumption DEF Handling, Event, kodiVars, Others
  <1>5. Control'
    BY <1>1, StillControl DEF kodiVars, Others
  <1> QED BY <1>2, <1>3, <1>4, <1>5

-----------------------------------------------------------------------------
\* The invariant holds in every state of every behaviour.
THEOREM TuningInductive == Spec => []IInv
  <1>1. IInv /\ [Next]_vars => IInv'
    <2> SUFFICES ASSUME IInv, [Next]_vars PROVE IInv'
      OBVIOUS
    <2>1. CASE UNCHANGED vars
      <3>1. UNCHANGED <<listVars, dmx, hist, ids, srv, events, kodiVars, expiry, now>>
        BY <2>1 DEF vars, dmxVars, srvVars
      <3>2. dmx \in [Demuxers -> Fields] /\ kodi.d \in Demuxers /\ active \in Demuxers
        BY DEF IInv, Books, Others, CallFields
      <3>3. Lists' /\ Books'
        BY <3>1, <3>2, SameBooks DEF listVars, IInv, Lists, ListsType, ListsAgree
      <3>4. Control'
        BY <3>1, <3>2, StillControl DEF IInv, kodiVars
      <3>5. Others'
        BY <3>1 DEF kodiVars, IInv, Others
      <3> QED BY <3>3, <3>4, <3>5 DEF IInv
    <2>2. CASE KodiCalls
      BY <2>2, InvOpenSame, InvOpenLingering, InvOpenOldest, InvDemuxRead, InvSetSpeed, InvCloseLiveStream
         DEF KodiCalls
    <2>3. CASE PredictiveTune
      <3>1. PICK p \in PredictNextChannelId(kodi.from, kodi.to) \ {NONE} : TuneOnOldest(p)
        BY <2>3 DEF PredictiveTune
      <3> QED BY <2>3, <3>1, InvPredictLingering, InvPredictOpens
    <2>4. CASE KodiSteps
      BY <2>3, <2>4, InvRetune, InvRetuned, InvOpenCloses, InvOpenSubscribes, InvOpenSubscribed,
         InvOpenFails, InvOpenFailed, InvOpened, InvFinishes DEF KodiSteps
    <2>5. CASE Process \/ Tick
      BY <2>5, InvWaits, InvCloses DEF Process
    <2>6. CASE ChannelAdd \/ ChannelUpdate \/ ChannelDelete
      BY <2>6, InvChannels
    <2>7. CASE \E d \in Demuxers : ParseSubscriptionStatus(d)
      BY <2>7, InvStatus
    <2> QED BY <2>1, <2>2, <2>4, <2>5, <2>6, <2>7 DEF Next
  <1> QED BY <1>1, InitInv, PTL DEF Spec

\* The type invariant.
THEOREM TuningTypes == Spec => []TypeOK
  BY TuningInductive, InvTypes, PTL

\* No channel is subscribed twice, whatever lingers, is predicted or expires
\* between the steps of OpenLiveStream, which requests fail and when statuses
\* come; demuxers that a late status has made active again are not counted.
THEOREM OneTunerPerChannel == Spec => []NoDuplicates
  BY TuningInductive, PTL DEF IInv, Control

\* The demuxer that plays is on the channel that Kodi asked for.
THEOREM PlaysTheRightOne == Spec => []PlaysWhatWasAsked
  <1>1. IInv => PlaysWhatWasAsked
    BY DEF IInv, Control, Playing, IsOn, PlaysWhatWasAsked
  <1> QED BY <1>1, TuningInductive, PTL

\* Only what plays has the normal weight.
THEOREM WeightsAreOrdered == Spec => []WeightOrder
  <1>1. IInv => WeightOrder
    BY DEF IInv, Control, Playing, OnlyNormal, WeightOrder
  <1> QED BY <1>1, TuningInductive, PTL

\* What an active demuxer believes of its subscription is so at the server, and
\* what the server has is an active demuxer's, but for what the failed requests
\* and the late statuses explain (ServerAgrees).
THEOREM ServerKnows == Spec => []ServerAgrees
  <1>1. ASSUME IInv PROVE ServerAgrees
    <2> SUFFICES ASSUME AtRest
                 PROVE  /\ \A d \in Demuxers : Live(d) /\ ~Phantom(d) => Has(d)
                        /\ \A i \in DOMAIN srv : srv[i].kept \/ \E d \in Demuxers : Live(d) /\ dmx[d].id = i
      BY DEF ServerAgrees, Has
    <2>1. \A d \in Demuxers : Live(d) /\ ~Phantom(d) => Held(d)
      BY <1>1 DEF IInv, Control, ActiveOrEnded, Phantom, Live, Held
    <2>2. \A d \in Demuxers : Held(d) => Live(d)
      BY <1>1 DEF AtRest, IInv, Control, ActiveOrEnded, Live, Held
    <2> QED BY <1>1, <2>1, <2>2 DEF IInv, Books, ServerHas
  <1> QED BY <1>1, TuningInductive, PTL
=============================================================================
