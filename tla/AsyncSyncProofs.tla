-------------------------- MODULE AsyncSyncProofs ---------------------------
(***************************************************************************)
(* What the mirror of the server's data promises, for any finite set of    *)
(* entities, any number of connections and changes: the types; that        *)
(* nothing is ever missed although the sync is interrupted and started     *)
(* again at any point (NothingMissed); and, on one connection that lasts,  *)
(* that nothing is kept that is gone, that Kodi is told of everything, and *)
(* that the channels are complete when GetChannels stops waiting.          *)
(***************************************************************************)
EXTENDS AsyncSync, SequenceTheorems, FiniteSetTheorems, TLAPS

(***************************************************************************)
(* What the server has sent and Process has not finished with, in order.   *)
(***************************************************************************)
Busy == at["process"] # "idle"
Stream == (IF Busy THEN <<cur["process"]>> ELSE <<>>) \o (queue \o net)

\* A message that lists e, and one that takes it away.
Lists(m, e) == m.op \in {"add", "upd"} /\ m.e = e
Drops(m, e) == m.op \in {"del", "missing"} /\ m.e = e

\* The message i of s lists e for good: it is not taken away again, and if the
\* message may be ignored, as a tagAdd for a known tag is, the sync will be over
\* then and nobody erases the tag any more.
Lasting(s, i, e) ==
  /\ Lists(s[i], e)
  /\ \A j \in (i + 1)..Len(s) : ~Drops(s[j], e)
  /\ e \in Tags /\ s[i].op = "add" => \A j \in i..Len(s) : s[j] # Completed

Over(s) == \A j \in 1..Len(s) : s[j] # Completed

\* Only a connection that is up and has been asked for mirrors anything.
Linked ==
  /\ asked => up /\ reg \notin {"check", "init", "ask"}
  /\ ~asked => net = <<>>
  /\ at["guide"] = "idle"

\* When the server's initialSyncCompleted is behind us, nothing is erased.
SyncIsOver == asked /\ Over(Stream) => async \in {NONE, DONE} /\ at["process"] # "act"

\* Whatever is about to be flagged dirty is listed again later.
AllComesAgain ==
  asked /\ (async = INIT \/ (at["process"] = "act" /\ level["process"] = INIT)) =>
    \A e \in srv \cap Mirrored : \E i \in 1..Len(Stream) :
      /\ Lasting(Stream, i, e)
      /\ i = 1 /\ Busy => at["process"] # "apply" /\ level["process"] = INIT

\* What the server has is going to be stored, or is, and then no message and no
\* Sync function takes it away.
Safe(e) == /\ e \in known /\ \A j \in 1..Len(Stream) : ~Drops(Stream[j], e)
           /\ e \in dirty => e \in Tags /\ Over(Stream)
KeptOrListed ==
  asked => \A e \in srv \cap Mirrored : Safe(e) \/ \E i \in 1..Len(Stream) : Lasting(Stream, i, e)

MInv == Linked /\ SyncIsOver /\ AllComesAgain /\ KeptOrListed

-----------------------------------------------------------------------------
(***************************************************************************)
(* One connection that lasts, and a guide that is read once the sync has   *)
(* listed the recordings.                                                  *)
(***************************************************************************)
Lasts == Events \subseteq {"guide"} /\ GuideFrom >= EPG

\* The registration goes straight on, and before it nothing happens.
Straight ==
  /\ ~up => conns = 0 /\ reg = "off" /\ ~asked /\ async = NONE
  /\ up => conns = 1
  /\ reg \in {"check", "init"} => async = NONE
  /\ asked => async >= INIT /\ reg \in {"wait", "off"}
  /\ ~asked => /\ up => reg \in {"check", "init", "ask"}
               /\ async \in {NONE, INIT} /\ Stream = <<>> /\ known = {} /\ ~Busy
  /\ reg = "ask" => async = INIT
  /\ reg # "fail"

\* The state is ahead of what Process handles, and nothing is ever dirty.
Ahead ==
  /\ dirty = {} /\ (async = INIT => known = {})
  /\ at["process"] = "rebuild" => level["process"] = INIT
  /\ at["process"] \in {"rebuild", "check"} => async >= level["process"]
  /\ at["process"] = "act" => async = level["process"]
  /\ at["process"] = "apply" => async > Target(cur["process"])
  /\ at["guide"] # "idle" => async >= EPG /\ at["guide"] # "act" /\ Target(cur["guide"]) = DVR

\* What the server does not have is not known, or about to be erased for good.
Leaving ==
  /\ known \subseteq Mirrored /\ \A i \in 1..Len(Stream) : Stream[i] # Completed => Stream[i].e \in Mirrored
  /\ \A e \in Entities \ srv :
       \/ e \notin known /\ \A j \in 1..Len(Stream) : ~Lists(Stream[j], e)
       \/ \E i \in 1..Len(Stream) : /\ Drops(Stream[i], e)
                                    /\ \A j \in (i + 1)..Len(Stream) : ~Lists(Stream[j], e)

\* Kodi has what is known of a kind or is going to fetch it.
Announced(k) == k \in trig \cup events \/ seen \cap Of[k] = known \cap Of[k]
Told ==
  /\ seen \cap Programmes = known \cap Programmes
  /\ async >= DVR => Announced("tag") /\ Announced("chn")
  /\ async >= EPG => Announced("dvr")

\* Before a message of a recording or a programme all channels are listed, and
\* nothing takes one away.
Late(m) == Target(m) \notin {NONE, INIT}
ChannelsFirst == changes = 0 =>
  /\ \A i \in 1..Len(Stream) : Stream[i].op \notin {"del", "missing"}
  /\ async >= DVR => srv \cap (Tags \cup Channels) \subseteq known
  /\ \A i \in 1..Len(Stream) : Late(Stream[i]) =>
       \A e \in srv \cap (Tags \cup Channels) : e \in known \/ \E j \in 1..(i - 1) : Lists(Stream[j], e)

SInv == Straight /\ Ahead /\ Leaving /\ Told /\ ChannelsFirst

-----------------------------------------------------------------------------
(***************************************************************************)
(* Messages and lists of them.                                              *)
(***************************************************************************)
LEMMA MessageCases ==
  /\ Completed \in Messages
  /\ \A m \in Messages : m # Completed => m.op \in {"add", "upd", "missing", "del"} /\ m.e \in Entities
  /\ \A m : m.op \in {"add", "upd", "missing", "del"} => m # Completed
  /\ Completed.op = "completed"
  BY DEF Messages, Completed

\* The four kinds of entities, and what of them is mirrored.
LEMMA KindsOfEntities ==
  /\ Of["tag"] = Tags /\ Of["chn"] = Channels /\ Of["dvr"] = Recordings /\ Of["epg"] = Programmes
  /\ \A k \in Kinds : Of[k] \subseteq Entities
  /\ \A e \in Entities : \E k \in Kinds : e \in Of[k]
  /\ \A k, l \in Kinds : k # l => Of[k] \cap Of[l] = {}
  /\ Mirrored \subseteq Entities /\ Tags \cup Channels \subseteq Mirrored
  <1>1. Of["tag"] = Tags /\ Of["chn"] = Channels /\ Of["dvr"] = Recordings /\ Of["epg"] = Programmes
    BY DEF Of
  <1>2. \A k, l \in Kinds : k # l => Of[k] \cap Of[l] = {}
    BY EntitiesAssumption
  <1>3. Tags \cap Programmes = {} /\ Channels \cap Programmes = {}
    BY <1>1, <1>2 DEF Kinds
  <1> QED BY <1>1, <1>2, <1>3 DEF Kinds, Entities, Mirrored

\* The sequence of a finite set has its elements, and all of them.
LEMMA SequenceOfSet ==
  ASSUME NEW S, IsFiniteSet(S)
  PROVE  /\ SetToSeq(S) \in Seq(S)
         /\ \A e \in S : \E i \in 1..Len(SetToSeq(S)) : SetToSeq(S)[i] = e
  <1> DEFINE n == Cardinality(S)
  <1>1. n \in Nat /\ ExistsBijection(1..n, S)
    BY FS_CardinalityType
  <1>2. PICK f \in [1..n -> S] : IsInjective(f)
    BY <1>1 DEF ExistsBijection, Bijection, Injection
  <1> DEFINE s == SetToSeq(S)
  <1>3. s \in [1..n -> S] /\ IsInjective(s)
    BY <1>2 DEF SetToSeq
  <1> HIDE DEF s
  <1>4. s \in Injection(1..n, S)
    BY <1>3 DEF Injection
  <1>5. Cardinality(1..n) = n /\ IsFiniteSet(1..n)
    BY <1>1, FS_Interval
  <1>6. s \in Surjection(1..n, S)
    BY <1>4, <1>5, FS_Injection
  <1>7. \A e \in S : \E i \in 1..n : s[i] = e
    BY <1>6 DEF Surjection
  <1>8. s \in Seq(S) /\ Len(s) = n
    <2> HIDE DEF n
    <2> QED BY <1>1, <1>3
  <1> QED BY <1>7, <1>8 DEF s

\* What the server lists of a kind.
LEMMA ListingIs ==
  ASSUME TypeOK, NEW op \in {"add", "upd"}, NEW k \in Kinds
  PROVE  /\ Listing(op, k) \in Seq(Messages)
         /\ \A i \in 1..Len(Listing(op, k)) :
              Listing(op, k)[i].op = op /\ Listing(op, k)[i].e \in srv \cap Of[k] \cap Mirrored
         /\ \A e \in srv \cap Of[k] \cap Mirrored :
              \E i \in 1..Len(Listing(op, k)) : Listing(op, k)[i] = [op |-> op, e |-> e]
  <1> DEFINE S == srv \cap Of[k] \cap Mirrored
             s == SetToSeq(S)
             l == [i \in 1..Len(s) |-> [op |-> op, e |-> s[i]]]
  <1>1. S \subseteq Entities
    BY DEF TypeOK
  <1>2. IsFiniteSet(S)
    BY <1>1, EntitiesAssumption, FS_Subset
  <1>3. s \in Seq(S) /\ \A e \in S : \E i \in 1..Len(s) : s[i] = e
    BY <1>2, SequenceOfSet
  <1>4. Listing(op, k) = l
    BY DEF Listing
  <1> HIDE DEF s, S
  <1>5. Len(s) \in Nat /\ \A i \in 1..Len(s) : s[i] \in S
    BY <1>3
  <1>6. \A i \in 1..Len(s) : [op |-> op, e |-> s[i]] \in Messages
    BY <1>1, <1>5 DEF Messages
  <1>7. l \in Seq(Messages) /\ Len(l) = Len(s)
    BY <1>5, <1>6
  <1> QED BY <1>3, <1>4, <1>5, <1>7 DEF S

\* Lasting listings in a list that goes on, at either end.
LEMMA LastsInFront ==
  ASSUME NEW s \in Seq(Messages), NEW m \in Messages, NEW e, NEW i \in 1..Len(s), Lasting(s, i, e),
         m # Completed, ~Drops(m, e)
  PROVE  Lasting(Append(s, m), i, e)
  BY DEF Lasting

\* What lasts still lasts behind other messages.
LEMMA LastsBehind ==
  ASSUME NEW s \in Seq(Messages), NEW t \in Seq(Messages), NEW e, NEW i \in 1..Len(t), Lasting(t, i, e)
  PROVE  Lasting(s \o t, Len(s) + i, e) /\ Len(s) + i \in 1..Len(s \o t)
  <1>1. Len(s \o t) = Len(s) + Len(t) /\ \A j \in 1..Len(t) : (s \o t)[Len(s) + j] = t[j]
    BY ConcatProperties
  <1>2. \A j \in i..Len(s \o t) - Len(s) : j \in 1..Len(t)
    BY <1>1
  <1>3. \A j \in (Len(s) + i)..Len(s \o t) : (s \o t)[j] = t[j - Len(s)] /\ j - Len(s) \in i..Len(t)
    BY <1>1
  <1> QED BY <1>1, <1>3 DEF Lasting

\* What lasts, and is not the first, lasts when the first is gone.
LEMMA LastsInTail ==
  ASSUME NEW s \in Seq(Messages), s # <<>>, NEW e, NEW i \in 2..Len(s), Lasting(s, i, e)
  PROVE  Lasting(Tail(s), i - 1, e) /\ i - 1 \in 1..Len(Tail(s))
  <1>1. Len(Tail(s)) = Len(s) - 1 /\ \A j \in 1..Len(Tail(s)) : Tail(s)[j] = s[j + 1]
    OBVIOUS
  <1>2. \A j \in (i - 1)..Len(Tail(s)) : Tail(s)[j] = s[j + 1] /\ j + 1 \in i..Len(s)
    BY <1>1
  <1> QED BY <1>1, <1>2 DEF Lasting

\* How far a message moves the state.
LEMMA TargetIs ==
  ASSUME NEW m \in Messages
  PROVE  /\ m = Completed => Target(m) = EPG
         /\ m.op = "del" => Target(m) = NONE
         /\ m.op \in {"add", "upd", "missing"} =>
              /\ m.e \in Tags \cup Channels => Target(m) = INIT
              /\ m.e \in Recordings => Target(m) = CHN
              /\ m.e \in Programmes => Target(m) = DVR
         /\ Target(m) \in NONE..EPG
  <1>1. /\ (Tags \cup Channels) \cap Recordings = {} /\ (Tags \cup Channels) \cap Programmes = {}
        /\ Recordings \cap Programmes = {}
    BY KindsOfEntities DEF Kinds
  <1>2. CASE m = Completed
    BY <1>2, MessageCases DEF Target, NONE, EPG
  <1>3. CASE m # Completed
    BY <1>1, <1>3, MessageCases DEF Target, NONE, INIT, CHN, DVR, EPG, Entities
  <1> QED BY <1>2, <1>3

\* What enableAsyncMetadata is answered with: nothing but what the server has,
\* all of it, and to the end.
LEMMA DumpIs ==
  ASSUME TypeOK
  PROVE  /\ Dump \in Seq(Messages) /\ Dump # <<>> /\ ~Over(Dump)
         /\ \A i \in 1..Len(Dump) : Dump[i] # Completed =>
              Dump[i].op \in {"add", "upd"} /\ Dump[i].e \in srv \cap Mirrored
         /\ \A e \in srv \cap Mirrored : \E i \in 1..Len(Dump) : Lasting(Dump, i, e)
         /\ \A i \in 1..Len(Dump) : Late(Dump[i]) =>
              \A e \in srv \cap (Tags \cup Channels) : \E j \in 1..(i - 1) : Lists(Dump[j], e)
  <1> DEFINE T == Listing("add", "tag")
             C == Listing("add", "chn")
             U == Listing("upd", "tag")
             D == Listing("add", "dvr")
             P == Listing("add", "epg")
             E == <<Completed>>
             n1 == Len(T)
             n2 == n1 + Len(C)
             n3 == n2 + Len(U)
             n4 == n3 + Len(D)
             n5 == n4 + Len(P)
  <1>1. /\ T \in Seq(Messages) /\ C \in Seq(Messages) /\ U \in Seq(Messages)
        /\ D \in Seq(Messages) /\ P \in Seq(Messages)
    BY ListingIs DEF Kinds
  <1>2. /\ \A i \in 1..Len(T) : T[i].op = "add" /\ T[i].e \in srv \cap Tags \cap Mirrored
        /\ \A i \in 1..Len(C) : C[i].op = "add" /\ C[i].e \in srv \cap Channels \cap Mirrored
        /\ \A i \in 1..Len(U) : U[i].op = "upd" /\ U[i].e \in srv \cap Tags \cap Mirrored
        /\ \A i \in 1..Len(D) : D[i].op = "add" /\ D[i].e \in srv \cap Recordings \cap Mirrored
        /\ \A i \in 1..Len(P) : P[i].op = "add" /\ P[i].e \in srv \cap Programmes \cap Mirrored
    BY ListingIs, KindsOfEntities DEF Kinds
  <1>3. /\ \A e \in srv \cap Tags \cap Mirrored : \E i \in 1..Len(T) : T[i] = [op |-> "add", e |-> e]
        /\ \A e \in srv \cap Channels \cap Mirrored : \E i \in 1..Len(C) : C[i] = [op |-> "add", e |-> e]
        /\ \A e \in srv \cap Tags \cap Mirrored : \E i \in 1..Len(U) : U[i] = [op |-> "upd", e |-> e]
        /\ \A e \in srv \cap Recordings \cap Mirrored : \E i \in 1..Len(D) : D[i] = [op |-> "add", e |-> e]
        /\ \A e \in srv \cap Programmes \cap Mirrored : \E i \in 1..Len(P) : P[i] = [op |-> "add", e |-> e]
    BY ListingIs, KindsOfEntities DEF Kinds
  <1>4. Dump = ((((T \o C) \o U) \o D) \o P) \o E
    BY DEF Dump
  <1> HIDE DEF T, C, U, D, P
  <1>5. E \in Seq(Messages) /\ Len(E) = 1 /\ E[1] = Completed
    BY MessageCases
  <1> HIDE DEF E
  <1>6. /\ Len(T) \in Nat /\ Len(C) \in Nat /\ Len(U) \in Nat /\ Len(D) \in Nat /\ Len(P) \in Nat
        /\ n1 \in Nat /\ n2 \in Nat /\ n3 \in Nat /\ n4 \in Nat /\ n5 \in Nat
    BY <1>1
  <1>13. n1 = Len(T) /\ n2 = n1 + Len(C) /\ n3 = n2 + Len(U) /\ n4 = n3 + Len(D) /\ n5 = n4 + Len(P)
    OBVIOUS
  <1> HIDE DEF n1, n2, n3, n4, n5
  <1>7. T \o C \in Seq(Messages) /\ Len(T \o C) = n2
        /\ \A i \in 1..n2 : (T \o C)[i] = IF i <= n1 THEN T[i] ELSE C[i - n1]
    BY <1>1, <1>13, ConcatProperties
  <1> DEFINE TC == T \o C
             TCU == TC \o U
             TCUD == TCU \o D
             TCUDP == TCUD \o P
  <1> HIDE DEF TC, TCU, TCUD, TCUDP
  <1>8. TCU \in Seq(Messages) /\ Len(TCU) = n3
        /\ \A i \in 1..n3 : TCU[i] = IF i <= n2 THEN TC[i] ELSE U[i - n2]
    BY <1>1, <1>7, <1>13, ConcatProperties, SMTT(30) DEF TC, TCU
  <1>9. TCUD \in Seq(Messages) /\ Len(TCUD) = n4
        /\ \A i \in 1..n4 : TCUD[i] = IF i <= n3 THEN TCU[i] ELSE D[i - n3]
    BY <1>1, <1>8, <1>13, ConcatProperties, SMTT(30) DEF TCUD
  <1>10. TCUDP \in Seq(Messages) /\ Len(TCUDP) = n5
         /\ \A i \in 1..n5 : TCUDP[i] = IF i <= n4 THEN TCUD[i] ELSE P[i - n4]
    BY <1>1, <1>9, <1>13, ConcatProperties, SMTT(30) DEF TCUDP
  <1>11. Dump \in Seq(Messages) /\ Len(Dump) = n5 + 1
         /\ \A i \in 1..(n5 + 1) : Dump[i] = IF i <= n5 THEN TCUDP[i] ELSE Completed
    <2>1. Dump = TCUDP \o E
      BY <1>4 DEF TC, TCU, TCUD, TCUDP
    <2>2. /\ TCUDP \o E \in Seq(Messages) /\ Len(TCUDP \o E) = n5 + 1
          /\ \A i \in 1..(n5 + 1) : (TCUDP \o E)[i] = IF i <= n5 THEN TCUDP[i] ELSE E[i - n5]
      BY <1>5, <1>10, ConcatProperties, SMTT(30)
    <2> QED BY <1>5, <1>6, <2>1, <2>2
  \* The six parts, by position.
  <1>12. /\ \A i \in 1..n1 : Dump[i] = T[i]
         /\ \A i \in (n1 + 1)..n2 : Dump[i] = C[i - n1] /\ i - n1 \in 1..Len(C)
         /\ \A i \in (n2 + 1)..n3 : Dump[i] = U[i - n2] /\ i - n2 \in 1..Len(U)
         /\ \A i \in (n3 + 1)..n4 : Dump[i] = D[i - n3] /\ i - n3 \in 1..Len(D)
         /\ \A i \in (n4 + 1)..n5 : Dump[i] = P[i - n4] /\ i - n4 \in 1..Len(P)
         /\ Dump[n5 + 1] = Completed
    <2>2. n1 <= n2 /\ n2 <= n3 /\ n3 <= n4 /\ n4 <= n5
      BY <1>6, <1>13
    <2>3. \A i \in 1..n5 : Dump[i] = TCUDP[i]
      BY <1>6, <1>11
    <2>4. \A i \in 1..n4 : Dump[i] = TCUD[i]
      BY <1>6, <1>10, <2>2, <2>3
    <2>5. \A i \in 1..n3 : Dump[i] = TCU[i]
      BY <1>6, <1>9, <2>2, <2>4
    <2>6. \A i \in 1..n2 : Dump[i] = TC[i]
      BY <1>6, <1>8, <2>2, <2>5
    <2>7. \A i \in 1..n2 : TC[i] = IF i <= n1 THEN T[i] ELSE C[i - n1]
      BY <1>7 DEF TC
    <2>8. \A i \in 1..n1 : Dump[i] = T[i]
      BY <1>6, <2>2, <2>6, <2>7
    <2>9. \A i \in (n1 + 1)..n2 : Dump[i] = C[i - n1] /\ i - n1 \in 1..Len(C)
      BY <1>6, <1>13, <2>6, <2>7, SMTT(30)
    <2>10. \A i \in (n2 + 1)..n3 : Dump[i] = U[i - n2] /\ i - n2 \in 1..Len(U)
      BY <1>6, <1>8, <1>13, <2>5, SMTT(30)
    <2>11. \A i \in (n3 + 1)..n4 : Dump[i] = D[i - n3] /\ i - n3 \in 1..Len(D)
      BY <1>6, <1>9, <1>13, <2>4, SMTT(30)
    <2>12. \A i \in (n4 + 1)..n5 : Dump[i] = P[i - n4] /\ i - n4 \in 1..Len(P)
      BY <1>6, <1>10, <1>13, <2>3, SMTT(30)
    <2>13. Dump[n5 + 1] = Completed
      BY <1>6, <1>11
    <2> QED BY <2>8, <2>9, <2>10, <2>11, <2>12, <2>13
  <1>20. Len(Dump) = n5 + 1
    BY <1>11
  <1>14. \A i \in 1..Len(Dump) : \/ i \in 1..n1 \/ i \in (n1 + 1)..n2 \/ i \in (n2 + 1)..n3
                                 \/ i \in (n3 + 1)..n4 \/ i \in (n4 + 1)..n5 \/ i = n5 + 1
    BY <1>6, <1>13, <1>20, SMTT(30)
  <1>15. /\ \A i \in 1..n1 : Dump[i].op = "add" /\ Dump[i].e \in srv \cap Tags \cap Mirrored
         /\ \A i \in (n1 + 1)..n2 : Dump[i].op = "add" /\ Dump[i].e \in srv \cap Channels \cap Mirrored
         /\ \A i \in (n2 + 1)..n3 : Dump[i].op = "upd" /\ Dump[i].e \in srv \cap Tags \cap Mirrored
         /\ \A i \in (n3 + 1)..n4 : Dump[i].op = "add" /\ Dump[i].e \in srv \cap Recordings \cap Mirrored
         /\ \A i \in (n4 + 1)..n5 : Dump[i].op = "add" /\ Dump[i].e \in srv \cap Programmes \cap Mirrored
    <2>1. \A i \in 1..n1 : Dump[i].op = "add" /\ Dump[i].e \in srv \cap Tags \cap Mirrored
      BY <1>2, <1>12, <1>13
    <2>2. \A i \in (n1 + 1)..n2 : Dump[i].op = "add" /\ Dump[i].e \in srv \cap Channels \cap Mirrored
      BY <1>2, <1>12
    <2>3. \A i \in (n2 + 1)..n3 : Dump[i].op = "upd" /\ Dump[i].e \in srv \cap Tags \cap Mirrored
      BY <1>2, <1>12
    <2>4. \A i \in (n3 + 1)..n4 : Dump[i].op = "add" /\ Dump[i].e \in srv \cap Recordings \cap Mirrored
      BY <1>2, <1>12
    <2>5. \A i \in (n4 + 1)..n5 : Dump[i].op = "add" /\ Dump[i].e \in srv \cap Programmes \cap Mirrored
      BY <1>2, <1>12
    <2> QED BY <2>1, <2>2, <2>3, <2>4, <2>5
  <1>21. \A i \in 1..Len(Dump) : i # n5 + 1
           => Dump[i].op \in {"add", "upd"} /\ Dump[i].e \in srv \cap Mirrored
    BY <1>14, <1>15
  <1>16. \A e \in srv \cap Mirrored : \E i \in 1..Len(Dump) :
           Lists(Dump[i], e) /\ (e \in Tags => Dump[i].op = "upd")
    <2> TAKE e \in srv \cap Mirrored
    <2>1. CASE e \in Tags
      <3>1. PICK i \in 1..Len(U) : U[i] = [op |-> "upd", e |-> e]
        BY <1>3, <2>1
      <3>2. n2 + i \in (n2 + 1)..n3 /\ n2 + i \in 1..Len(Dump) /\ (n2 + i) - n2 = i
        BY <1>6, <1>13, <1>20, SMTT(30)
      <3>3. Dump[n2 + i] = [op |-> "upd", e |-> e]
        BY <1>12, <3>1, <3>2
      <3> QED BY <3>2, <3>3 DEF Lists
    <2>2. CASE e \in Channels /\ e \notin Tags
      <3>1. PICK i \in 1..Len(C) : C[i] = [op |-> "add", e |-> e]
        BY <1>3, <2>2
      <3>2. n1 + i \in (n1 + 1)..n2 /\ n1 + i \in 1..Len(Dump) /\ (n1 + i) - n1 = i
        BY <1>6, <1>13, <1>20, SMTT(30)
      <3>3. Dump[n1 + i] = [op |-> "add", e |-> e]
        BY <1>12, <3>1, <3>2
      <3> QED BY <2>2, <3>2, <3>3 DEF Lists
    <2>3. CASE e \in Recordings /\ e \notin Tags
      <3>1. PICK i \in 1..Len(D) : D[i] = [op |-> "add", e |-> e]
        BY <1>3, <2>3
      <3>2. n3 + i \in (n3 + 1)..n4 /\ n3 + i \in 1..Len(Dump) /\ (n3 + i) - n3 = i
        BY <1>6, <1>13, <1>20, SMTT(30)
      <3>3. Dump[n3 + i] = [op |-> "add", e |-> e]
        BY <1>12, <3>1, <3>2
      <3> QED BY <2>3, <3>2, <3>3 DEF Lists
    <2>4. CASE e \in Programmes /\ e \notin Tags
      <3>1. PICK i \in 1..Len(P) : P[i] = [op |-> "add", e |-> e]
        BY <1>3, <2>4
      <3>2. n4 + i \in (n4 + 1)..n5 /\ n4 + i \in 1..Len(Dump) /\ (n4 + i) - n4 = i
        BY <1>6, <1>13, <1>20, SMTT(30)
      <3>3. Dump[n4 + i] = [op |-> "add", e |-> e]
        BY <1>12, <3>1, <3>2
      <3> QED BY <2>4, <3>2, <3>3 DEF Lists
    <2> QED BY <2>1, <2>2, <2>3, <2>4 DEF TypeOK, Entities
  <1>17. \A e : \A j \in 1..Len(Dump) : ~Drops(Dump[j], e)
    BY <1>12, <1>20, <1>21, MessageCases DEF Drops
  <1>18. \A e \in srv \cap Mirrored : \E i \in 1..Len(Dump) : Lasting(Dump, i, e)
    <2>1. \A i \in 1..Len(Dump) : \A j \in (i + 1)..Len(Dump) : j \in 1..Len(Dump)
      BY <1>6, <1>20
    <2> QED BY <1>16, <1>17, <2>1 DEF Lasting
  <1>19. \A i \in 1..Len(Dump) : Late(Dump[i]) => i > n3
    <2>1. \A i \in 1..n3 : Dump[i].op \in {"add", "upd"} /\ Dump[i].e \in Tags \cup Channels
      <3>1. \A i \in 1..n3 : i \in 1..n1 \/ i \in (n1 + 1)..n2 \/ i \in (n2 + 1)..n3
        BY <1>6, <1>13, SMTT(30)
      <3> QED BY <1>15, <3>1
    <2>2. \A i \in 1..n3 : Dump[i] \in Messages
      BY <1>6, <1>11, <1>13, <1>20, SMTT(30)
    <2>3. \A i \in 1..n3 : Target(Dump[i]) = INIT
      BY <2>1, <2>2, TargetIs
    <2> QED BY <1>6, <1>20, <2>3 DEF Late
  <1>22. \A e \in srv \cap (Tags \cup Channels) : \E j \in 1..n2 : Lists(Dump[j], e)
    <2> TAKE e \in srv \cap (Tags \cup Channels)
    <2>1. e \in Mirrored
      BY KindsOfEntities
    <2>2. CASE e \in Tags
      <3>1. PICK i \in 1..Len(T) : T[i] = [op |-> "add", e |-> e]
        BY <1>3, <2>1, <2>2
      <3>2. i \in 1..n1 /\ i \in 1..n2
        BY <1>6, <1>13
      <3> QED BY <1>12, <3>1, <3>2 DEF Lists
    <2>3. CASE e \in Channels
      <3>1. PICK i \in 1..Len(C) : C[i] = [op |-> "add", e |-> e]
        BY <1>3, <2>1, <2>3
      <3>2. n1 + i \in (n1 + 1)..n2 /\ n1 + i \in 1..n2 /\ (n1 + i) - n1 = i
        BY <1>6, <1>13
      <3> QED BY <1>12, <3>1, <3>2 DEF Lists
    <2> QED BY <2>2, <2>3
  <1>23. \A i \in 1..Len(Dump) : Late(Dump[i]) =>
           \A e \in srv \cap (Tags \cup Channels) : \E j \in 1..(i - 1) : Lists(Dump[j], e)
    <2>1. \A i \in 1..Len(Dump) : i > n3 => \A j \in 1..n2 : j \in 1..(i - 1)
      BY <1>6, <1>13, <1>20, SMTT(30)
    <2> QED BY <1>19, <1>22, <2>1
  <1>24. Dump # <<>> /\ ~Over(Dump)
    BY <1>6, <1>11, <1>12, <1>20 DEF Over
  <1> QED BY <1>11, <1>18, <1>21, <1>12, <1>23, <1>24

-----------------------------------------------------------------------------
(***************************************************************************)
(* Types.                                                                  *)
(***************************************************************************)
\* No Sync function is called past the last one the message calls for.
InBounds == \A a \in Actors : at[a] \in {"rebuild", "check", "act"} => level[a] <= Target(cur[a])

\* Every step keeps the types.
LEMMA TypesOfStep ==
  ASSUME TypeOK, InBounds, [Next]_vars
  PROVE  TypeOK'
  <1> USE DEF NONE, INIT, CHN, DVR, EPG, DONE
  <1>1. CASE UNCHANGED vars
    BY <1>1 DEF TypeOK, vars, serverVars, linkVars, syncVars, dataVars, actorVars, kodiVars
  <1>2. ASSUME NEW op \in {"add", "missing", "del"}, NEW e \in Entities, ServerChanges(op, e)
        PROVE  TypeOK'
    <2>1. [op |-> op, e |-> e] \in Messages
      BY DEF Messages
    <2>2. net' \in Seq(Messages) /\ srv' \subseteq Entities /\ changes' \in 0..MaxChanges
      BY <1>2, <2>1, BoundsAssumption DEF ServerChanges, TypeOK
    <2> QED BY <1>2, <2>2 DEF ServerChanges, TypeOK, syncVars, dataVars, actorVars, kodiVars
  <1>3. CASE Opens
    BY <1>3, BoundsAssumption DEF Opens, TypeOK, serverVars, syncVars, dataVars, actorVars, kodiVars
  <1>4. CASE Loses \/ SetEPGMaxFutureDays \/ RegDisconnects
    <2>1. Drop /\ UNCHANGED <<serverVars, conns, queue, syncVars, dataVars, actorVars, kodiVars>>
            /\ reg' \in {reg, "off"}
      BY <1>4 DEF Loses, SetEPGMaxFutureDays, RegDisconnects
    <2>2. net' \in Seq(Messages) /\ up' \in BOOLEAN /\ asked' \in BOOLEAN
      BY <2>1, EmptySeq DEF Drop
    <2> QED BY <2>1, <2>2 DEF TypeOK, serverVars, syncVars, dataVars, actorVars, kodiVars
  <1>5. CASE RegChecks \/ RegInits \/ RegAnswered \/ RegFails
    BY <1>5 DEF RegChecks, RegInits, RegAnswered, RegFails, TypeOK, serverVars, linkVars, syncVars,
                dataVars, actorVars, kodiVars
  <1>6. CASE RegAsks
    <2>1. net' \in Seq(Messages)
      BY <1>6, DumpIs DEF RegAsks, TypeOK
    <2> QED BY <1>6, <2>1 DEF RegAsks, TypeOK, serverVars, dataVars, actorVars, kodiVars
  <1>7. CASE Delivers
    <2>1. queue' \in Seq(Messages) /\ net' \in Seq(Messages)
      BY <1>7 DEF Delivers, TypeOK
    <2> QED BY <1>7, <2>1 DEF Delivers, TypeOK, serverVars, syncVars, dataVars, actorVars, kodiVars
  <1>8. CASE Pops
    <2>1. Head(queue) \in Messages /\ queue' \in Seq(Messages)
      BY <1>8 DEF Pops, TypeOK
    <2> QED BY <1>8, <2>1 DEF Pops, Enters, Actors, LinkUnchanged, TypeOK, serverVars, linkVars, syncVars,
                              dataVars, kodiVars
  <1>9. CASE GuideCalls
    <2>1. \A e \in Programmes : [op |-> "add", e |-> e] \in Messages
      BY DEF Messages, Entities
    <2> QED BY <1>9, <2>1 DEF GuideCalls, Enters, Actors, LinkUnchanged, TypeOK, serverVars, linkVars,
               syncVars,
                              dataVars, kodiVars
  <1>10. ASSUME NEW a \in Actors, Rebuilds(a)
         PROVE  TypeOK'
    BY <1>10 DEF Rebuilds, LinkUnchanged, TypeOK, serverVars, linkVars, dataVars, kodiVars
  <1>11. ASSUME NEW a \in Actors, at[a] \in {"check", "act"}, NextLevel(a)
         PROVE  at' \in [Actors -> {"idle", "rebuild", "check", "act", "apply"}]
                  /\ level' \in [Actors -> INIT..EPG]
    <2>1. cur[a] \in Messages /\ level[a] \in INIT..EPG /\ level[a] <= Target(cur[a])
      BY <1>11 DEF TypeOK, InBounds
    <2>2. Target(cur[a]) \in NONE..EPG
      BY <2>1, TargetIs
    <2>3. level[a] # Target(cur[a]) => level[a] + 1 \in INIT..EPG
      BY <2>1, <2>2
    <2> QED BY <1>11, <2>3 DEF NextLevel, TypeOK
  <1>12. ASSUME NEW a \in Actors, Tests(a)
         PROVE  TypeOK'
    <2>1. at' \in [Actors -> {"idle", "rebuild", "check", "act", "apply"}] /\ level' \in [Actors -> INIT..EPG]
      BY <1>11, <1>12 DEF Tests, TypeOK
    <2> QED BY <1>12, <2>1 DEF Tests, LinkUnchanged, TypeOK, serverVars, linkVars, syncVars, dataVars,
               kodiVars
  <1>13. ASSUME NEW a \in Actors, Acts(a)
         PROVE  TypeOK'
    <2>1. at' \in [Actors -> {"idle", "rebuild", "check", "act", "apply"}] /\ level' \in [Actors -> INIT..EPG]
      BY <1>11, <1>13 DEF Acts
    <2>2. level[a] \in INIT..EPG
      BY DEF TypeOK
    <2>3. async' \in NONE..DONE
      BY <1>13, <2>2 DEF Acts
    <2>4. known' \subseteq Entities /\ dirty' \subseteq known' /\ seen' \subseteq Entities
      <3>1. Settled(INIT) = {}
        BY DEF Settled
      <3>2. level[a] = INIT => Gone(level[a]) = {}
        BY <3>1 DEF Gone
      <3>3. known' = known \ Gone(level[a])
              /\ dirty' = (IF level[a] = INIT THEN known ELSE dirty \ Gone(level[a]))
            /\ seen' = (IF level[a] = EPG THEN seen \ Gone(level[a]) ELSE seen)
        BY <1>13 DEF Acts
      <3> QED BY <3>2, <3>3 DEF TypeOK
    <2>5. events' \subseteq Kinds
      BY <1>13 DEF Acts, TypeOK, Triggered, Settled, Kinds
    <2> QED BY <1>13, <2>1, <2>3, <2>4, <2>5 DEF Acts, LinkUnchanged, TypeOK, serverVars, linkVars
  <1>14. CASE Applies \/ AppliesCompleted
    <2>1. at' = [at EXCEPT !["process"] = "idle"] /\ trig' \subseteq Kinds /\ events' \subseteq Kinds
      BY <1>14 DEF Applies, AppliesTag, AppliesChannel, AppliesRecording, AppliesProgramme, DeletesProgramme,
                   Deletes, AppliesCompleted, Finishes, TypeOK, Kinds
    <2>2. known' \subseteq Entities /\ dirty' \subseteq known' /\ seen' \subseteq Entities
      BY <1>14 DEF Applies, AppliesTag, AppliesChannel, AppliesRecording, AppliesProgramme, DeletesProgramme,
                   Deletes, AppliesCompleted, Stores, Erases, TypeOK, dataVars
    <2>3. async' \in NONE..DONE /\ UNCHANGED <<serverVars, linkVars, reg, queue, rebuilt, subs, level, cur>>
      BY <1>14 DEF Applies, AppliesTag, AppliesChannel, AppliesRecording, AppliesProgramme, DeletesProgramme,
                   Deletes, AppliesCompleted, Finishes, LinkUnchanged, TypeOK, syncVars
    <2> QED BY <2>1, <2>2, <2>3 DEF TypeOK, serverVars, linkVars
  <1>15. CASE GuideReturns
    BY <1>15 DEF GuideReturns, LinkUnchanged, TypeOK, serverVars, linkVars, syncVars, dataVars, kodiVars
  <1>16. ASSUME NEW k \in Kinds, KodiStep(k)
         PROVE  TypeOK'
    BY <1>16 DEF KodiStep, KodiFetches, KodiGivesUp, Fetched, LinkUnchanged, TypeOK, serverVars,
       linkVars, syncVars,
                 dataVars, actorVars
  <1>17. "process" \in Actors /\ "guide" \in Actors
    BY DEF Actors
  <1> QED BY <1>1, <1>2, <1>3, <1>4, <1>5, <1>6, <1>7, <1>8, <1>9, <1>10, <1>12, <1>13, <1>14, <1>15,
             <1>16, <1>17
          DEF Next, ServerStep, RegStep, ProcessStep, GuideStep, SyncStep

\* No thread takes the sync further than its message calls for.
LEMMA BoundsOfStep ==
  ASSUME TypeOK, InBounds, [Next]_vars
  PROVE  InBounds'
  <1> USE DEF NONE, INIT, CHN, DVR, EPG, DONE
  <1>1. "process" \in Actors /\ "guide" \in Actors
    BY DEF Actors
  <1>2. ASSUME NEW a \in Actors, NEW m \in Messages, Enters(a, m)
        PROVE  InBounds'
    <2>1. Target(m) \in NONE..EPG
      BY TargetIs
    <2> QED BY <1>2, <2>1 DEF Enters, InBounds, TypeOK
  <1>3. CASE Pops
    <2>1. Head(queue) \in Messages
      BY <1>3 DEF Pops, TypeOK
    <2> QED BY <1>1, <1>2, <1>3, <2>1 DEF Pops
  <1>4. CASE GuideCalls
    <2>1. \A e \in Programmes : [op |-> "add", e |-> e] \in Messages
      BY DEF Messages, Entities
    <2> QED BY <1>1, <1>2, <1>4, <2>1 DEF GuideCalls
  <1>5. ASSUME NEW a \in Actors, SyncStep(a)
        PROVE  InBounds'
    <2>1. at[a] \in {"rebuild", "check", "act"} /\ UNCHANGED cur
      BY <1>5 DEF SyncStep, Rebuilds, Tests, Acts
    <2>2. cur[a] \in Messages /\ level[a] \in INIT..EPG /\ level[a] <= Target(cur[a])
      BY <2>1 DEF TypeOK, InBounds
    <2>3. Target(cur[a]) \in NONE..EPG
      BY <2>2, TargetIs
    <2>4. ASSUME NextLevel(a)
          PROVE  InBounds'
      BY <2>1, <2>2, <2>3, <2>4 DEF NextLevel, InBounds, TypeOK
    <2>5. \/ NextLevel(a)
          \/ UNCHANGED level /\ \E p \in {"check", "act"} : at' = [at EXCEPT ![a] = p]
      BY <1>5 DEF SyncStep, Rebuilds, Tests, Acts
    <2> QED BY <2>1, <2>2, <2>4, <2>5 DEF InBounds, TypeOK
  <1>6. ASSUME UNCHANGED <<level, cur>>, \A a \in Actors : at'[a] \in {at[a], "idle"}
        PROVE  InBounds'
    BY <1>6 DEF InBounds
  <1>7. CASE Applies \/ AppliesCompleted \/ GuideReturns
    <2>1. UNCHANGED <<level, cur>> /\ \E a \in Actors : at' = [at EXCEPT ![a] = "idle"]
      BY <1>1, <1>7 DEF Applies, AppliesTag, AppliesChannel, AppliesRecording, AppliesProgramme,
                   DeletesProgramme, Deletes, AppliesCompleted, GuideReturns, Finishes
    <2> QED BY <1>6, <2>1 DEF TypeOK
  <1>8. CASE ServerStep \/ Opens \/ Loses \/ SetEPGMaxFutureDays \/ RegStep \/ Delivers
               \/ (\E k \in Kinds : KodiStep(k))
             \/ UNCHANGED vars
    <2>1. UNCHANGED <<at, level, cur>>
      BY <1>8 DEF ServerStep, ServerChanges, Opens, Loses, SetEPGMaxFutureDays, RegStep, RegChecks, RegInits,
                  RegAsks, RegAnswered, RegFails, RegDisconnects, Delivers, KodiStep, KodiFetches,
                  KodiGivesUp,
                  vars, actorVars
    <2> QED BY <1>6, <2>1
  <1> QED BY <1>1, <1>3, <1>4, <1>5, <1>7, <1>8 DEF Next, ProcessStep, GuideStep

\* Every variable keeps its type, the dirty flag is on nothing that is not
\* known, and m_asyncState is one of the six, whatever two threads do to it.
THEOREM SyncTypes == Spec => [](TypeOK /\ InBounds)
  <1>1. Init => TypeOK
    <2>1. <<>> \in Seq(Messages) /\ Completed \in Messages
      BY MessageCases
    <2>2. 0 \in 0..MaxConns /\ 0 \in 0..MaxChanges /\ Initially \subseteq Entities
      BY BoundsAssumption, EntitiesAssumption
    <2>3. Init => cur \in [Actors -> Messages]
      BY <2>1 DEF Init
    <2>4. Init => level \in [Actors -> INIT..EPG] /\ async \in NONE..DONE
      BY DEF Init, NONE, INIT, EPG, DONE
    <2>5. Init => at \in [Actors -> {"idle", "rebuild", "check", "act", "apply"}]
      BY DEF Init
    <2> QED BY <2>1, <2>2, <2>3, <2>4, <2>5 DEF Init, TypeOK
  <1>2. Init => InBounds
    BY DEF Init, InBounds
  <1>3. TypeOK /\ InBounds /\ [Next]_vars => (TypeOK /\ InBounds)'
    BY TypesOfStep, BoundsOfStep
  <1> QED BY <1>1, <1>2, <1>3, PTL DEF Spec

-----------------------------------------------------------------------------
(***************************************************************************)
(* What the steps do to the stream.                                        *)
(***************************************************************************)
\* A message in front of a list.
LEMMA InFront ==
  ASSUME NEW m \in Messages, NEW r \in Seq(Messages)
  PROVE  /\ <<m>> \o r \in Seq(Messages) /\ <<m>> \o r # <<>>
         /\ (<<m>> \o r)[1] = m /\ Tail(<<m>> \o r) = r
  <1> DEFINE one == <<m>>
             s == one \o r
  <1>1. one \in Seq(Messages) /\ Len(one) = 1 /\ one[1] = m
    OBVIOUS
  <1> HIDE DEF one
  <1>2. /\ s \in Seq(Messages) /\ Len(s) = 1 + Len(r)
        /\ \A i \in 1..(1 + Len(r)) : s[i] = IF i <= 1 THEN one[i] ELSE r[i - 1]
    <2>1. /\ one \o r \in Seq(Messages) /\ Len(one \o r) = Len(one) + Len(r)
          /\ \A i \in 1..(Len(one) + Len(r)) : (one \o r)[i] = IF i <= Len(one) THEN one[i] ELSE r[i - Len(one)]
      BY <1>1, ConcatProperties
    <2> QED BY <1>1, <2>1
  <1> HIDE DEF s
  <1>3. Len(r) \in Nat /\ s # <<>> /\ s[1] = m
    BY <1>1, <1>2
  <1>4. /\ Tail(s) \in Seq(Messages) /\ Len(Tail(s)) = Len(r)
        /\ \A i \in 1..Len(r) : Tail(s)[i] = r[i]
    BY <1>2, <1>3, HeadTailProperties
  <1>5. Tail(s) = r
    BY <1>4, SeqEqual
  <1> QED BY <1>2, <1>3, <1>5 DEF s, one

\* A sequence is its head in front of its tail.
LEMMA HeadInFront ==
  ASSUME NEW s \in Seq(Messages), s # <<>>
  PROVE  Head(s) \in Messages /\ Tail(s) \in Seq(Messages) /\ s = <<Head(s)>> \o Tail(s)
  <1>1. Len(s) \in 1..Len(s) /\ 1 <= Len(s)
    OBVIOUS
  <1>2. SubSeq(s, 1, Len(s)) = <<s[1]>> \o SubSeq(s, 2, Len(s))
    BY <1>1, SubSeqRecursiveFirst
  <1>3. SubSeq(s, 1, Len(s)) = s /\ SubSeq(s, 2, Len(s)) = Tail(s) /\ Head(s) = s[1]
    BY SubSeqFull, TailIsSubSeq
  <1> QED BY <1>2, <1>3, HeadTailProperties

\* What the process thread still has to handle.
LEMMA StreamIs ==
  ASSUME TypeOK
  PROVE  /\ Stream \in Seq(Messages)
         /\ Busy => Stream # <<>> /\ Stream[1] = cur["process"] /\ Tail(Stream) = queue \o net
         /\ ~Busy => Stream = queue \o net
  <1>1. queue \o net \in Seq(Messages) /\ cur["process"] \in Messages
    BY ConcatProperties DEF TypeOK, Actors
  <1> QED BY <1>1, InFront, ConcatEmptySeq DEF Stream

\* A queued message is popped, or one under way is queued: nothing is lost.
LEMMA StreamKept ==
  ASSUME TypeOK, Pops \/ Delivers
  PROVE  Stream' = Stream
  <1>1. queue \in Seq(Messages) /\ net \in Seq(Messages) /\ queue \o net \in Seq(Messages)
    BY ConcatProperties DEF TypeOK
  <1>2. CASE Pops
    <2>1. ~Busy /\ queue # <<>> /\ queue' = Tail(queue) /\ net' = net
      BY <1>2 DEF Pops, Enters, Busy, LinkUnchanged, linkVars
    <2>2. Busy' /\ cur'["process"] = Head(queue)
      BY <1>2 DEF Pops, Enters, Busy, TypeOK, Actors
    <2>3. Stream' = <<Head(queue)>> \o (Tail(queue) \o net)
      BY <2>1, <2>2 DEF Stream
    <2>4. <<Head(queue)>> \in Seq(Messages) /\ Tail(queue) \in Seq(Messages)
            /\ queue = <<Head(queue)>> \o Tail(queue)
      BY <1>1, <2>1, HeadInFront
    <2>5. (<<Head(queue)>> \o Tail(queue)) \o net = <<Head(queue)>> \o (Tail(queue) \o net)
      BY <1>1, <2>4, ConcatAssociative, SMTT(30)
    <2> QED BY <1>1, <2>1, <2>3, <2>4, <2>5, ConcatEmptySeq DEF Stream
  <1>3. CASE Delivers
    <2>1. net # <<>> /\ queue' = Append(queue, Head(net)) /\ net' = Tail(net) /\ UNCHANGED <<at, cur>>
      BY <1>3 DEF Delivers, actorVars
    <2>2. Head(net) \in Messages /\ <<Head(net)>> \in Seq(Messages) /\ Tail(net) \in Seq(Messages)
          /\ net = <<Head(net)>> \o Tail(net)
      BY <1>1, <2>1, HeadInFront
    <2>3. Append(queue, Head(net)) = queue \o <<Head(net)>>
      BY <1>1, <2>2, AppendIsConcat
    <2>4. (queue \o <<Head(net)>>) \o Tail(net) = queue \o (<<Head(net)>> \o Tail(net))
      BY <1>1, <2>2, ConcatAssociative, SMTT(30)
    <2> QED BY <2>1, <2>2, <2>3, <2>4 DEF Stream, Busy
  <1> QED BY <1>2, <1>3

\* Process has finished with a message.
LEMMA StreamFinished ==
  ASSUME TypeOK, Busy, at' = [at EXCEPT !["process"] = "idle"], UNCHANGED <<queue, net>>
  PROVE  Stream # <<>> /\ Stream[1] = cur["process"] /\ Stream' = Tail(Stream) /\ ~Busy'
  <1>1. ~Busy'
    BY DEF Busy, TypeOK, Actors
  <1>2. queue \o net \in Seq(Messages)
    BY ConcatProperties DEF TypeOK
  <1>3. Stream' = queue \o net
    BY <1>1, <1>2, ConcatEmptySeq DEF Stream
  <1> QED BY <1>1, <1>3, StreamIs

\* The server has sent more.
LEMMA Regrouped ==
  ASSUME NEW a \in Seq(Messages), NEW b \in Seq(Messages), NEW c \in Seq(Messages), NEW d \in Seq(Messages)
  PROVE  a \o (b \o (c \o d)) = (a \o (b \o c)) \o d
  <1> DEFINE rest == b \o c
  <1>1. b \o (c \o d) = rest \o d
    BY ConcatAssociative, SMTT(30)
  <1>2. rest \in Seq(Messages)
    BY ConcatProperties
  <1> HIDE DEF rest
  <1>3. a \o (rest \o d) = (a \o rest) \o d
    BY <1>2, ConcatAssociative, SMTT(30)
  <1> QED BY <1>1, <1>3 DEF rest

\* What is sent is handled last.
LEMMA StreamGrows ==
  ASSUME TypeOK, NEW t \in Seq(Messages), net' = net \o t, UNCHANGED <<queue, at, cur>>
  PROVE  Stream' = Stream \o t
  <1>1. queue \in Seq(Messages) /\ net \in Seq(Messages) /\ <<cur["process"]>> \in Seq(Messages)
        /\ <<>> \in Seq(Messages)
    BY EmptySeq DEF TypeOK, Actors
  <1>2. PICK front \in Seq(Messages) : /\ Stream = front \o (queue \o net)
                                       /\ Stream' = front \o (queue \o (net \o t))
    <2>1. CASE Busy
      <3>1. Stream = <<cur["process"]>> \o (queue \o net)
              /\ Stream' = <<cur["process"]>> \o (queue \o (net \o t))
        BY <2>1 DEF Stream, Busy
      <3> QED BY <1>1, <3>1
    <2>2. CASE ~Busy
      <3>1. Stream = <<>> \o (queue \o net) /\ Stream' = <<>> \o (queue \o (net \o t))
        BY <2>2 DEF Stream, Busy
      <3> QED BY <1>1, <3>1
    <2> QED BY <2>1, <2>2
  <1>3. front \o (queue \o (net \o t)) = (front \o (queue \o net)) \o t
    <2>1. queue \in Seq(Messages) /\ net \in Seq(Messages) /\ front \in Seq(Messages) /\ t \in Seq(Messages)
      BY <1>1
    <2> QED BY <2>1, Regrouped, SMTT(40)
  <1> QED BY <1>2, <1>3, Zenon

\* The steps that do not touch the stream.
LEMMA StreamStays ==
  ASSUME UNCHANGED <<queue, net, cur>>, Busy' <=> Busy
  PROVE  Stream' = Stream
  BY DEF Stream

-----------------------------------------------------------------------------
(***************************************************************************)
(* Nothing the server has is missed.                                       *)
(***************************************************************************)
\* What the Parse functions do to the data, told by the message.
LEMMA AppliesIs ==
  ASSUME Applies
  PROVE  LET m == cur["process"] IN
         /\ at["process"] = "apply" /\ at' = [at EXCEPT !["process"] = "idle"]
         /\ UNCHANGED <<srv, changes, conns, up, asked, net, reg, queue, async, rebuilt, subs, level, cur>>
         /\ m.e \in Entities /\ m.op \in {"add", "upd", "missing", "del"}
         /\ \/ m.op = "add" /\ m.e \in Tags \cap known /\ UNCHANGED dataVars
            \/ m.op \in {"add", "upd"} /\ Stores(m.e)
            \/ m.op \in {"missing", "del"} /\ Erases(m.e)
  BY DEF Applies, AppliesTag, AppliesChannel, AppliesRecording, AppliesProgramme, DeletesProgramme, Deletes,
         Handles, Finishes, LinkUnchanged, serverVars, linkVars, syncVars

\* The steps that leave the stream, the server and the data as they are.
LEMMA MQuiet ==
  ASSUME TypeOK, MInv, Stream' = Stream, UNCHANGED <<srv, known, dirty>>,
         asked' => asked, async' \in {async, NONE},
         LET p == "process" IN
           \/ at'[p] = at[p] /\ level'[p] = level[p]
           \/ at[p] = "rebuild" /\ at'[p] = "check" /\ level'[p] = level[p]
           \/ /\ at'[p] # "act"
              /\ \A e \in Entities : Lists(Stream[1], e) => at'[p] # "apply" /\ level'[p] = INIT
  PROVE  SyncIsOver' /\ AllComesAgain' /\ KeptOrListed'
  <1>1. SyncIsOver'
    BY DEF MInv, SyncIsOver, Over, NONE
  <1>2. KeptOrListed'
    <2>1. asked' =>
            asked /\ \A e \in srv' \cap Mirrored : Safe(e) \/ \E i \in 1..Len(Stream) : Lasting(Stream, i, e)
      BY DEF MInv, KeptOrListed
    <2>2. \A e : Safe(e) => Safe(e)'
      BY DEF Safe
    <2> QED BY <2>1, <2>2 DEF KeptOrListed
  <1>3. AllComesAgain'
    <2> SUFFICES ASSUME asked', async' = INIT \/ (at'["process"] = "act" /\ level'["process"] = INIT),
                        NEW e \in srv \cap Mirrored
                 PROVE  \E i \in 1..Len(Stream) :
                          /\ Lasting(Stream, i, e)
                          /\ i = 1 /\ Busy' => at'["process"] # "apply" /\ level'["process"] = INIT
      BY DEF AllComesAgain
    <2>1. async = INIT \/ (at["process"] = "act" /\ level["process"] = INIT)
      BY DEF NONE, INIT
    <2>2. PICK i \in 1..Len(Stream) :
            Lasting(Stream, i, e) /\ (i = 1 /\ Busy => at["process"] # "apply" /\ level["process"] = INIT)
      BY <2>1 DEF MInv, AllComesAgain
    <2>3. i = 1 => Lists(Stream[1], e)
      BY <2>2 DEF Lasting
    <2>4. e \in Entities
      BY DEF TypeOK
    <2> QED BY <2>2, <2>3, <2>4 DEF Busy
  <1> QED BY <1>1, <1>2, <1>3

\* A change of the server's is sent after all that is under way.
LEMMA MServer ==
  ASSUME TypeOK, MInv, NEW op \in {"add", "missing", "del"}, NEW e \in Entities, ServerChanges(op, e)
  PROVE  MInv'
  <1> DEFINE m == [op |-> op, e |-> e]
  <1>1. UNCHANGED <<up, asked, queue, reg, async, known, dirty, at, level, cur>>
    BY DEF ServerChanges, syncVars, dataVars, actorVars
  <1>2. Linked'
    BY <1>1 DEF MInv, Linked, ServerChanges
  <1>3. CASE ~asked
    BY <1>1, <1>2, <1>3 DEF MInv, SyncIsOver, AllComesAgain, KeptOrListed
  <1>4. CASE asked /\ e \notin Mirrored
    <2>1. Stream' = Stream
      BY <1>1, <1>4, StreamStays DEF ServerChanges, Busy
    <2>2. srv' \cap Mirrored = srv \cap Mirrored
      BY <1>4 DEF ServerChanges
    <2>3. \A f : Safe(f) => Safe(f)'
      BY <1>1, <2>1 DEF Safe
    <2>4. SyncIsOver'
      BY <1>1, <2>1 DEF MInv, SyncIsOver
    <2>5. AllComesAgain'
      BY <1>1, <2>1, <2>2 DEF MInv, AllComesAgain, Busy
    <2>6. KeptOrListed'
      BY <1>1, <2>1, <2>2, <2>3 DEF MInv, KeptOrListed
    <2> QED BY <1>2, <2>4, <2>5, <2>6 DEF MInv
  <1>5. CASE asked /\ e \in Mirrored
    <2>1. m \in Messages /\ m # Completed /\ m.op = op /\ m.e = e
      BY MessageCases DEF Messages
    <2>2. net' = net \o <<m>> /\ <<m>> \in Seq(Messages)
      BY <1>5, <2>1, AppendIsConcat DEF ServerChanges, TypeOK
    <2> HIDE DEF m
    <2>3. Stream \in Seq(Messages) /\ Stream' = Append(Stream, m)
      BY <1>1, <2>1, <2>2, StreamGrows, StreamIs, AppendIsConcat
    <2> DEFINE n == Len(Stream)
    <2>4. /\ n \in Nat /\ Len(Stream') = n + 1 /\ Stream'[n + 1] = m
          /\ \A i \in 1..n : Stream'[i] = Stream[i] /\ i \in 1..(n + 1)
      BY <2>1, <2>3, AppendProperties
    <2>5. Over(Stream') => Over(Stream)
      BY <2>4 DEF Over
    <2>6. SyncIsOver'
      BY <1>1, <2>5 DEF MInv, SyncIsOver
    \* The entity is new: it is listed now.
    <2>7. op = "add" => Lasting(Stream', n + 1, e) /\ n + 1 \in 1..Len(Stream')
      BY <2>1, <2>4 DEF Lasting, Lists
    <2>8. \A f \in srv' \cap Mirrored : f = e => op = "add"
      BY DEF ServerChanges
    <2>9. \A f \in srv' \cap Mirrored : f # e => f \in srv \cap Mirrored
      BY DEF ServerChanges
    <2>10. \A f : f # e => ~Drops(m, f)
      BY <2>1 DEF Drops
    <2>11. \A f : \A i \in 1..n : f # e /\ Lasting(Stream, i, f)
             => Lasting(Stream', i, f) /\ i \in 1..Len(Stream')
      BY <2>1, <2>3, <2>4, <2>10, LastsInFront
    <2>12. \A f : f # e /\ Safe(f) => Safe(f)'
      BY <1>1, <2>1, <2>4, <2>10 DEF Safe, Over
    <2>13. AllComesAgain'
      <3> SUFFICES ASSUME async = INIT \/ (at["process"] = "act" /\ level["process"] = INIT),
                          NEW f \in srv' \cap Mirrored
                   PROVE  \E i \in 1..Len(Stream') :
                            /\ Lasting(Stream', i, f)
                            /\ i = 1 /\ Busy => at["process"] # "apply" /\ level["process"] = INIT
        BY <1>1 DEF AllComesAgain, Busy
      <3>1. CASE f = e
        <4>1. Busy => n + 1 # 1
          BY <2>3, <2>4, StreamIs
        <4> QED BY <2>7, <2>8, <3>1, <4>1
      <3>2. CASE f # e
        <4>1. PICK i \in 1..n : /\ Lasting(Stream, i, f)
                                /\ i = 1 /\ Busy => at["process"] # "apply" /\ level["process"] = INIT
          BY <1>5, <2>9, <3>2 DEF MInv, AllComesAgain
        <4>2. Lasting(Stream', i, f) /\ i \in 1..Len(Stream')
          BY <2>11, <3>2, <4>1
        <4> QED BY <4>1, <4>2
      <3> QED BY <3>1, <3>2
    <2>14. KeptOrListed'
      <3> SUFFICES ASSUME NEW f \in srv' \cap Mirrored
                   PROVE  Safe(f)' \/ \E i \in 1..Len(Stream') : Lasting(Stream', i, f)
        BY DEF KeptOrListed
      <3>1. CASE f = e
        BY <2>7, <2>8, <3>1
      <3>2. CASE f # e
        <4>1. Safe(f) \/ \E i \in 1..n : Lasting(Stream, i, f)
          BY <1>5, <2>9, <3>2 DEF MInv, KeptOrListed
        <4> QED BY <2>11, <2>12, <3>2, <4>1
      <3> QED BY <3>1, <3>2
    <2> QED BY <1>2, <2>6, <2>13, <2>14 DEF MInv
  <1> QED BY <1>3, <1>4, <1>5

\* The dump lists everything, and its initialSyncCompleted comes after all.
LEMMA MAsks ==
  ASSUME TypeOK, MInv, RegAsks
  PROVE  MInv'
  <1>1. UNCHANGED <<srv, up, queue, async, known, dirty, at, level, cur>> /\ reg = "ask"
          /\ reg' = "wait" /\ asked' = up
    BY DEF RegAsks, serverVars, dataVars, actorVars
  <1>2. ~asked /\ net = <<>>
    BY <1>1 DEF MInv, Linked
  <1>3. Linked'
    BY <1>1, <1>2 DEF RegAsks, MInv, Linked
  <1>4. CASE ~up
    BY <1>1, <1>3, <1>4 DEF MInv, SyncIsOver, AllComesAgain, KeptOrListed
  <1>5. CASE up
    <2>1. Dump \in Seq(Messages) /\ Stream \in Seq(Messages) /\ Stream' = Stream \o Dump
      BY <1>1, <1>5, DumpIs, StreamIs, StreamGrows DEF RegAsks
    <2> DEFINE n == Len(Stream)
    <2>2. \A e \in srv \cap Mirrored : \E i \in 1..Len(Dump) : Lasting(Dump, i, e)
      BY DumpIs
    <2>3. \A e \in srv \cap Mirrored :
            \E i \in 1..Len(Dump) : Lasting(Stream', n + i, e) /\ n + i \in 1..Len(Stream')
      BY <2>1, <2>2, LastsBehind
    <2>4. Len(Dump) \in Nat /\ n \in Nat
      BY <2>1
    <2>5. Busy => n # 0
      BY <2>1, StreamIs
    <2>6. ~Over(Stream')
      <3>1. PICK i \in 1..Len(Dump) : Dump[i] = Completed
        BY DumpIs DEF Over
      <3>2. n + i \in 1..Len(Stream \o Dump) /\ (Stream \o Dump)[n + i] = Completed
        BY <2>1, <2>4, <3>1, ConcatProperties
      <3> QED BY <2>1, <3>2 DEF Over
    <2>7. SyncIsOver'
      BY <2>6 DEF SyncIsOver
    <2>8. AllComesAgain'
      <3> SUFFICES ASSUME NEW e \in srv \cap Mirrored
                   PROVE  \E i \in 1..Len(Stream') : Lasting(Stream', i, e) /\ ~(i = 1 /\ Busy)
        BY <1>1 DEF AllComesAgain, Busy
      <3>1. PICK i \in 1..Len(Dump) : Lasting(Stream', n + i, e) /\ n + i \in 1..Len(Stream')
        BY <2>3
      <3>2. ~(n + i = 1 /\ Busy)
        BY <2>4, <2>5
      <3> QED BY <3>1, <3>2
    <2>9. KeptOrListed'
      BY <1>1, <2>3 DEF KeptOrListed
    <2> QED BY <1>3, <2>7, <2>8, <2>9 DEF MInv
  <1> QED BY <1>4, <1>5

\* The thread that handles a message tests the state ...
LEMMA MTests ==
  ASSUME TypeOK, InBounds, MInv, Tests("process")
  PROVE  MInv'
  <1> USE DEF NONE, INIT, CHN, DVR, EPG, DONE
  <1>1. UNCHANGED <<srv, up, asked, net, reg, queue, async, known, dirty, cur>> /\ at["process"] = "check"
    BY DEF Tests, LinkUnchanged, serverVars, linkVars, syncVars, dataVars
  <1>2. at'["guide"] = at["guide"]
    BY DEF Tests, NextLevel, TypeOK, Actors
  <1>3. Linked'
    BY <1>1, <1>2 DEF MInv, Linked
  <1>4. level["process"] \in INIT..EPG /\ async \in NONE..DONE
    BY DEF TypeOK, Actors
  <1>5. CASE async = level["process"]
    <2>1. at'["process"] = "act" /\ level' = level
      BY <1>5 DEF Tests, TypeOK, Actors
    <2>2. Stream' = Stream
      BY <1>1, <2>1, StreamStays DEF Busy
    <2>3. SyncIsOver'
      BY <1>1, <1>4, <1>5, <2>2 DEF MInv, SyncIsOver
    <2>4. AllComesAgain'
      BY <1>1, <1>5, <2>1, <2>2 DEF MInv, AllComesAgain, Busy
    <2>5. KeptOrListed'
      BY <1>1, <2>2 DEF MInv, KeptOrListed, Safe
    <2> QED BY <1>3, <2>3, <2>4, <2>5 DEF MInv
  <1>6. CASE async # level["process"]
    <2>1. at'["process"] \in {"check", "apply"}
      BY <1>6 DEF Tests, NextLevel, TypeOK, Actors
    <2>2. Stream' = Stream /\ Busy /\ Busy'
      BY <1>1, <2>1, StreamStays DEF Busy
    <2>3. SyncIsOver'
      BY <1>1, <2>1, <2>2 DEF MInv, SyncIsOver
    <2>4. AllComesAgain'
      BY <1>1, <1>6, <2>1, <2>2 DEF MInv, AllComesAgain
    <2>5. KeptOrListed'
      BY <1>1, <2>2 DEF MInv, KeptOrListed, Safe
    <2> QED BY <1>3, <2>3, <2>4, <2>5 DEF MInv
  <1> QED BY <1>5, <1>6

\* ... and acts: what it flags is listed again, and what it erases was dirty.
LEMMA MActs ==
  ASSUME TypeOK, InBounds, MInv, Acts("process")
  PROVE  MInv'
  <1> USE DEF NONE, INIT, CHN, DVR, EPG, DONE
  <1> DEFINE l == level["process"]
  <1>1. UNCHANGED <<srv, up, asked, net, reg, queue, cur>> /\ at["process"] = "act"
    BY DEF Acts, LinkUnchanged, serverVars, linkVars
  <1>2. at'["guide"] = at["guide"] /\ at'["process"] \in {"check", "apply"}
    BY DEF Acts, NextLevel, TypeOK, Actors
  <1>3. Linked'
    BY <1>1, <1>2 DEF MInv, Linked
  <1>4. l \in INIT..EPG /\ async' = l + 1
    BY DEF Acts, TypeOK, Actors
  <1>5. Stream' = Stream
    BY <1>1, <1>2, StreamStays DEF Busy
  <1>6. asked => ~Over(Stream)
    BY <1>1 DEF MInv, SyncIsOver
  <1>7. SyncIsOver'
    BY <1>1, <1>5, <1>6 DEF SyncIsOver
  <1>8. AllComesAgain'
    BY <1>2, <1>4 DEF AllComesAgain
  <1>9. KeptOrListed'
    <2>1. CASE l = INIT
      BY <1>1, <1>5, <2>1 DEF MInv, AllComesAgain, KeptOrListed
    <2>2. CASE l # INIT
      <3>1. known' = known \ Gone(l) /\ dirty' = dirty \ Gone(l) /\ Gone(l) \subseteq dirty
        BY <2>2 DEF Acts, Gone
      <3>2. \A e : asked /\ Safe(e) => Safe(e)'
        BY <1>5, <1>6, <3>1 DEF Safe
      <3> QED BY <1>1, <1>5, <3>2 DEF MInv, KeptOrListed
    <2> QED BY <2>1, <2>2
  <1> QED BY <1>3, <1>7, <1>8, <1>9 DEF MInv

\* It has finished with a message: the data are as the message says.
LEMMA MApplies ==
  ASSUME TypeOK, MInv, Applies \/ AppliesCompleted
  PROVE  MInv'
  <1> USE DEF NONE, INIT, CHN, DVR, EPG, DONE
  <1> DEFINE m == cur["process"]
  <1>1. UNCHANGED <<srv, up, asked, net, reg, queue, level, cur>> /\ at["process"] = "apply"
        /\ at' = [at EXCEPT !["process"] = "idle"]
    BY AppliesIs DEF AppliesCompleted, LinkUnchanged, serverVars, linkVars
  <1>2. /\ Stream \in Seq(Messages) /\ Stream # <<>> /\ Stream[1] = m /\ m \in Messages
        /\ Stream' = Tail(Stream) /\ ~Busy' /\ Busy
    BY <1>1, StreamFinished, StreamIs DEF Busy, TypeOK, Actors
  <1> HIDE DEF m
  <1> DEFINE n == Len(Stream)
  <1>3. n \in Nat \ {0} /\ Len(Stream') = n - 1
          /\ \A i \in 1..(n - 1) : Stream'[i] = Stream[i + 1] /\ i + 1 \in 1..n
    BY <1>2, HeadTailProperties
  <1>4. at'["process"] = "idle" /\ at'["guide"] = at["guide"]
    BY <1>1 DEF TypeOK, Actors
  <1>5. Linked'
    BY <1>1, <1>4 DEF MInv, Linked
  <1>6. m # Completed => Applies
    BY DEF AppliesCompleted, m
  <1>7. m # Completed => async' = async
    BY <1>6, AppliesIs
  <1>8. m = Completed => AppliesCompleted
    BY AppliesIs, MessageCases DEF m
  <1>9. m = Completed => async' = DONE /\ UNCHANGED dataVars
    BY <1>8 DEF AppliesCompleted
  <1>10. m # Completed /\ Over(Stream') => Over(Stream)
    <2> SUFFICES ASSUME m # Completed, Over(Stream'), NEW j \in 1..n
                 PROVE  Stream[j] # Completed
      BY DEF Over
    <2>1. CASE j = 1
      BY <1>2, <2>1
    <2>2. CASE j # 1
      <3>1. j - 1 \in 1..(n - 1) /\ (j - 1) + 1 = j
        BY <1>3, <2>2
      <3> QED BY <1>3, <3>1 DEF Over
    <2> QED BY <2>1, <2>2
  <1>11. SyncIsOver'
    BY <1>1, <1>4, <1>7, <1>9, <1>10 DEF MInv, SyncIsOver
  <1>12. \A e : \A i \in 1..n : Lasting(Stream, i, e) /\ i # 1
           => Lasting(Stream', i - 1, e) /\ i - 1 \in 1..(n - 1)
    <2> TAKE e
    <2> TAKE i \in 1..n
    <2> HAVE Lasting(Stream, i, e) /\ i # 1
    <2>1. i \in 2..n
      BY <1>3
    <2> QED BY <1>2, <1>3, <2>1, LastsInTail
  <1>13. AllComesAgain'
    <2> SUFFICES ASSUME asked, async' = INIT, NEW e \in srv \cap Mirrored
                 PROVE  \E i \in 1..(n - 1) : Lasting(Stream', i, e)
      BY <1>1, <1>2, <1>3, <1>4 DEF AllComesAgain
    <2>1. async = INIT
      BY <1>7, <1>9
    <2>2. PICK i \in 1..n : Lasting(Stream, i, e) /\ i # 1
      BY <1>1, <1>2, <2>1 DEF MInv, AllComesAgain
    <2> QED BY <1>12, <2>2
  <1>14. KeptOrListed'
    <2> SUFFICES ASSUME asked, NEW e \in srv \cap Mirrored
                 PROVE  Safe(e)' \/ \E i \in 1..(n - 1) : Lasting(Stream', i, e)
      BY <1>1, <1>3 DEF KeptOrListed
    <2>1. Safe(e) \/ \E i \in 1..n : Lasting(Stream, i, e)
      BY DEF MInv, KeptOrListed
    <2>2. CASE \E i \in 1..n : Lasting(Stream, i, e) /\ i # 1
      BY <1>12, <2>2
    <2>3. CASE Lasting(Stream, 1, e)
      <3>1. Lists(m, e) /\ (\A j \in 2..n : ~Drops(Stream[j], e))
              /\ (e \in Tags /\ m.op = "add" => Over(Stream))
        BY <1>2, <2>3 DEF Lasting, Over
      <3>2. \A j \in 1..Len(Stream') : ~Drops(Stream'[j], e)
        BY <1>3, <3>1
      <3>3. m # Completed /\ m.e = e /\ m.op \in {"add", "upd"}
        BY <3>1, MessageCases DEF Lists
      <3>4. \/ m.op = "add" /\ e \in Tags \cap known /\ UNCHANGED dataVars
            \/ Stores(e)
        BY <1>6, <3>3, AppliesIs DEF m
      <3>5. e \in known' /\ (e \in dirty' => e \in Tags /\ m.op = "add")
        BY <3>4 DEF Stores, dataVars
      <3>6. Over(Stream) => Over(Stream')
        BY <1>3 DEF Over
      <3> QED BY <3>1, <3>2, <3>5, <3>6 DEF Safe
    <2>4. CASE Safe(e)
      <3>1. e \in known /\ (\A j \in 1..n : ~Drops(Stream[j], e))
              /\ (e \in dirty => e \in Tags /\ Over(Stream))
        BY <2>4 DEF Safe
      <3>2. ~Drops(m, e)
        BY <1>2, <1>3, <3>1
      <3>3. \A j \in 1..Len(Stream') : ~Drops(Stream'[j], e)
        BY <1>3, <3>1
      <3>4. \/ UNCHANGED dataVars
            \/ Stores(m.e)
            \/ m.e # e /\ Erases(m.e)
        <4>1. CASE m = Completed
          BY <1>9, <4>1 DEF dataVars
        <4>2. CASE m # Completed
          <5>1. UNCHANGED dataVars \/ Stores(m.e) \/ (m.op \in {"missing", "del"} /\ Erases(m.e))
            BY <1>6, <4>2, AppliesIs, Zenon DEF m
          <5>2. m.op \in {"missing", "del"} => m.e # e
            BY <3>2 DEF Drops
          <5> QED BY <5>1, <5>2, Zenon
        <4> QED BY <4>1, <4>2
      <3>5. e \in known' /\ dirty' \subseteq dirty
        BY <3>1, <3>4 DEF Stores, Erases, dataVars
      <3>6. Over(Stream) => Over(Stream')
        BY <1>3 DEF Over
      <3> QED BY <3>1, <3>3, <3>5, <3>6 DEF Safe
    <2> QED BY <2>1, <2>2, <2>3, <2>4
  <1> QED BY <1>5, <1>11, <1>13, <1>14 DEF MInv

\* Every step keeps it.
LEMMA MInvOfStep ==
  ASSUME TypeOK, InBounds, MInv, "guide" \notin Events, [Next]_vars
  PROVE  MInv'
  <1>1. at["guide"] = "idle"
    BY DEF MInv, Linked
  <1>2. ASSUME UNCHANGED <<srv, up, asked, net, reg, queue, async, known, dirty, at, level, cur>>
        PROVE  MInv'
    <2>1. Stream' = Stream
      BY <1>2, StreamStays DEF Busy
    <2>2. Linked'
      BY <1>2 DEF MInv, Linked
    <2> QED BY <1>2, <2>1, <2>2, MQuiet DEF MInv
  <1>3. CASE UNCHANGED vars \/ \E k \in Kinds : KodiStep(k)
    BY <1>2, <1>3 DEF vars, serverVars, linkVars, syncVars, dataVars, actorVars, KodiStep, KodiFetches,
                      KodiGivesUp, LinkUnchanged
  <1>4. ASSUME NEW op \in {"add", "missing", "del"}, NEW e \in Entities, ServerChanges(op, e)
        PROVE  MInv'
    BY <1>4, MServer
  <1>5. CASE Opens \/ RegChecks \/ RegInits \/ RegAnswered \/ RegFails
    <2>1. UNCHANGED <<srv, asked, net, queue, known, dirty, at, level, cur>>
      BY <1>5 DEF Opens, RegChecks, RegInits, RegAnswered, RegFails, serverVars, linkVars, dataVars, actorVars
    <2>2. Linked'
      BY <1>5, <2>1 DEF Opens, RegChecks, RegInits, RegAnswered, RegFails, linkVars, MInv, Linked
    <2>3. Stream' = Stream
      BY <2>1, StreamStays DEF Busy
    <2>4. CASE ~asked
      BY <2>1, <2>2, <2>4 DEF MInv, SyncIsOver, AllComesAgain, KeptOrListed
    <2>5. CASE asked
      <3>1. async' \in {async, NONE}
        BY <1>5, <2>5 DEF Opens, RegChecks, RegInits, RegAnswered, RegFails, syncVars, MInv, Linked
      <3> QED BY <2>1, <2>2, <2>3, <3>1, MQuiet DEF MInv
    <2> QED BY <2>4, <2>5
  <1>6. CASE Loses \/ SetEPGMaxFutureDays \/ RegDisconnects
    <2>1. ~asked' /\ net' = <<>> /\ at' = at
      BY <1>6 DEF Loses, SetEPGMaxFutureDays, RegDisconnects, Drop, actorVars
    <2> QED BY <1>1, <2>1 DEF MInv, Linked, SyncIsOver, AllComesAgain, KeptOrListed
  <1>7. CASE RegAsks
    BY <1>7, MAsks
  <1>8. CASE Delivers \/ Pops
    <2>1. Stream' = Stream /\ UNCHANGED <<srv, up, asked, reg, async, known, dirty>>
      BY <1>8, StreamKept DEF Delivers, Pops, LinkUnchanged, serverVars, linkVars, syncVars, dataVars
    <2>2. CASE Delivers
      <3>1. UNCHANGED <<at, level>> /\ Linked'
        BY <2>1, <2>2, EmptySeq DEF Delivers, actorVars, MInv, Linked, TypeOK
      <3> QED BY <2>1, <3>1, MQuiet DEF MInv
    <2>3. CASE Pops
      <3>1. cur'["process"] \in Messages /\ cur'["process"] = Head(queue) /\ level'["process"] = INIT
            /\ at'["guide"] = at["guide"] /\ ~Busy
            /\ at'["process"] = (IF Target(cur'["process"]) = NONE THEN "apply" ELSE "rebuild")
        BY <2>3 DEF Pops, Enters, TypeOK, Actors, Busy
      <3>2. Stream[1] = cur'["process"]
        <4>1. queue \in Seq(Messages) /\ queue # <<>> /\ net \in Seq(Messages)
          BY <2>3 DEF Pops, TypeOK
        <4>2. Stream = queue \o net
          BY <3>1, StreamIs
        <4>3. (queue \o net)[1] = queue[1]
          BY <4>1, ConcatProperties
        <4> QED BY <3>1, <4>1, <4>2, <4>3
      <3>3. \A e : Lists(cur'["process"], e) /\ e \in Entities => Target(cur'["process"]) # NONE
        BY <3>1, TargetIs DEF Lists, Entities, NONE, INIT, CHN, DVR
      <3>4. Linked'
        BY <2>1, <2>3, <3>1 DEF Pops, LinkUnchanged, linkVars, MInv, Linked
      <3> QED BY <2>1, <3>1, <3>2, <3>3, <3>4, MQuiet DEF MInv
    <2> QED BY <1>8, <2>2, <2>3
  <1>9. CASE Rebuilds("process")
    <2>1. UNCHANGED <<srv, up, asked, net, reg, queue, async, known, dirty, level, cur>>
            /\ at["process"] = "rebuild"
          /\ at'["process"] = "check" /\ at'["guide"] = at["guide"]
      BY <1>9 DEF Rebuilds, LinkUnchanged, serverVars, linkVars, dataVars, TypeOK, Actors
    <2>2. Stream' = Stream /\ Linked'
      BY <2>1, StreamStays DEF Busy, MInv, Linked
    <2> QED BY <2>1, <2>2, MQuiet DEF MInv
  <1>10. CASE Tests("process")
    BY <1>10, MTests
  <1>11. CASE Acts("process")
    BY <1>11, MActs
  <1>12. CASE Applies \/ AppliesCompleted
    BY <1>12, MApplies
  <1>13. ~GuideCalls /\ ~GuideStep
    BY <1>1 DEF GuideCalls, GuideStep, SyncStep, Rebuilds, Tests, Acts, GuideReturns
  <1> QED BY <1>3, <1>4, <1>5, <1>6, <1>7, <1>8, <1>9, <1>10, <1>11, <1>12, <1>13
          DEF Next, ServerStep, RegStep, ProcessStep, SyncStep

\* Unless Kodi reads the guide behind Process's back: whatever connections break,
\* time out or are made again in the middle of a sync, and whatever is erased as
\* dirty then, all the server has is stored, or its listing is still to come.
THEOREM NothingIsMissed == ASSUME "guide" \notin Events PROVE Spec => []NothingMissed
  <1>1. Init => MInv
    <2>1. Init => ~asked /\ net = <<>> /\ at["guide"] = "idle"
      BY DEF Init, Actors
    <2> QED BY <2>1 DEF MInv, Linked, SyncIsOver, AllComesAgain, KeptOrListed
  <1>2. TypeOK /\ InBounds /\ MInv /\ [Next]_vars => MInv'
    BY MInvOfStep
  <1>3. TypeOK /\ MInv => NothingMissed
    <2> SUFFICES ASSUME TypeOK, MInv, asked, NEW e \in srv \cap Mirrored, e \notin known
                 PROVE  \E m \in Pending : m.op \in {"add", "upd"} /\ m.e = e
      BY DEF NothingMissed
    <2>1. PICK i \in 1..Len(Stream) : Lists(Stream[i], e)
      BY DEF MInv, KeptOrListed, Safe, Lasting
    <2>2. Stream[i] \in Pending
      <3>1. queue \in Seq(Messages) /\ net \in Seq(Messages) /\ queue \o net \in Seq(Messages)
        BY ConcatProperties DEF TypeOK
      <3>2. \A j \in 1..Len(queue \o net) : (queue \o net)[j] \in Pending
        <4> TAKE j \in 1..Len(queue \o net)
        <4>1. (queue \o net)[j] = IF j <= Len(queue) THEN queue[j] ELSE net[j - Len(queue)]
          BY <3>1, ConcatProperties
        <4>2. j <= Len(queue) => queue[j] \in ToSet(queue)
          BY <3>1 DEF ToSet
        <4>3. j > Len(queue) => j - Len(queue) \in 1..Len(net)
          BY <3>1, ConcatProperties
        <4>4. j > Len(queue) => net[j - Len(queue)] \in ToSet(net)
          BY <3>1, <4>3 DEF ToSet
        <4>5. Len(queue) \in Nat
          BY <3>1
        <4> QED BY <4>1, <4>2, <4>4, <4>5 DEF Pending
      <3>3. CASE Busy
        <4>1. cur["process"] \in Pending
          BY <3>3 DEF Pending, Busy
        <4>2. Stream \in Seq(Messages) /\ Stream # <<>> /\ Stream[1] = cur["process"]
                /\ Tail(Stream) = queue \o net
          BY <3>3, StreamIs
        <4>3. Len(Tail(Stream)) = Len(Stream) - 1
                /\ \A j \in 1..Len(Tail(Stream)) : Tail(Stream)[j] = Stream[j + 1]
          BY <4>2, HeadTailProperties
        <4>5. Len(Stream) \in Nat
          BY <4>2
        <4>4. i # 1 => i - 1 \in 1..Len(Tail(Stream)) /\ Stream[i] = Tail(Stream)[i - 1]
          BY <4>3, <4>5
        <4> QED BY <3>2, <4>1, <4>2, <4>4
      <3>4. CASE ~Busy
        BY <3>2, <3>4, StreamIs
      <3> QED BY <3>3, <3>4
    <2> QED BY <2>1, <2>2 DEF Lists
  <1> QED BY <1>1, <1>2, <1>3, SyncTypes, PTL DEF Spec

-----------------------------------------------------------------------------
(***************************************************************************)
(* One connection that lasts: no ghosts, and Kodi is told of everything.   *)
(***************************************************************************)
\* The steps that touch neither the stream nor what is known.
LEMMA SQuiet ==
  ASSUME SInv, Stream' = Stream, UNCHANGED <<srv, changes, known, seen>>,
         async' \in {async, INIT}, trig' \cup events' = trig \cup events
  PROVE  Leaving' /\ Told' /\ ChannelsFirst'
  <1>1. Leaving'
    BY DEF SInv, Leaving
  <1>2. Told'
    BY DEF SInv, Told, Announced, INIT, DVR, EPG
  <1>3. ChannelsFirst'
    BY DEF SInv, ChannelsFirst, INIT, DVR
  <1> QED BY <1>1, <1>2, <1>3

\* A change on the server is on its way when the server has made it.
LEMMA SServer ==
  ASSUME TypeOK, SInv, NEW op \in {"add", "missing", "del"}, NEW e \in Entities, ServerChanges(op, e)
  PROVE  SInv'
  <1> DEFINE m == [op |-> op, e |-> e]
  <1>1. UNCHANGED <<conns, up, asked, queue, reg, async, known, dirty, at, level, cur, seen, trig, events>>
    BY DEF ServerChanges, syncVars, dataVars, actorVars, kodiVars
  <1>2. Ahead'
    BY <1>1 DEF SInv, Ahead
  <1>3. Told'
    BY <1>1 DEF SInv, Told, Announced
  <1>4. changes' # 0 /\ ChannelsFirst'
    BY DEF ServerChanges, TypeOK, ChannelsFirst
  <1>5. CASE ~asked \/ e \notin Mirrored
    <2>1. Stream' = Stream
      BY <1>1, <1>5, StreamStays DEF ServerChanges, Busy
    <2>2. Straight'
      BY <1>1, <2>1 DEF SInv, Straight, Busy
    <2>3. ~asked => known = {} /\ Stream = <<>>
      BY DEF SInv, Straight
    <2>4. e \notin known /\ \A j \in 1..Len(Stream) : ~Lists(Stream[j], e)
      <3>1. \A j \in 1..Len(Stream) : Stream[j] # Completed => Stream[j].e \in Mirrored
        BY DEF SInv, Leaving
      <3>2. known \subseteq Mirrored
        BY DEF SInv, Leaving
      <3> QED BY <1>5, <2>3, <3>1, <3>2, MessageCases DEF Lists
    <2>5. \A f \in Entities \ srv' : f = e \/ f \in Entities \ srv
      BY DEF ServerChanges
    <2>6. Leaving'
      BY <1>1, <2>1, <2>4, <2>5 DEF SInv, Leaving
    <2> QED BY <1>2, <1>3, <1>4, <2>2, <2>6 DEF SInv
  <1>6. CASE asked /\ e \in Mirrored
    <2>1. m \in Messages /\ m # Completed /\ m.op = op /\ m.e = e
      BY MessageCases DEF Messages
    <2>2. net' = net \o <<m>> /\ <<m>> \in Seq(Messages)
      BY <1>6, <2>1, AppendIsConcat DEF ServerChanges, TypeOK
    <2> HIDE DEF m
    <2>3. Stream \in Seq(Messages) /\ Stream' = Append(Stream, m)
      BY <1>1, <2>1, <2>2, StreamGrows, StreamIs, AppendIsConcat
    <2> DEFINE n == Len(Stream)
    <2>4. /\ n \in Nat /\ Len(Stream') = n + 1 /\ Stream'[n + 1] = m
          /\ \A i \in 1..n : Stream'[i] = Stream[i] /\ i \in 1..(n + 1)
      BY <2>1, <2>3, AppendProperties
    <2>5. Straight'
      BY <1>1, <1>6 DEF SInv, Straight
    <2>6. \A f \in Entities \ srv' : \/ f = e /\ op # "add"
                                     \/ f # e /\ f \in Entities \ srv
      BY DEF ServerChanges
    <2>7. /\ known' \subseteq Mirrored
          /\ \A i \in 1..Len(Stream') : Stream'[i] # Completed => Stream'[i].e \in Mirrored
      BY <1>1, <1>6, <2>1, <2>4 DEF SInv, Leaving
    <2>8. ASSUME NEW f \in Entities \ srv'
          PROVE  \/ f \notin known' /\ \A j \in 1..Len(Stream') : ~Lists(Stream'[j], f)
                 \/ \E i \in 1..Len(Stream') : /\ Drops(Stream'[i], f)
                                               /\ \A j \in (i + 1)..Len(Stream') : ~Lists(Stream'[j], f)
      <3>1. CASE f = e /\ op # "add"
        <4>1. Drops(Stream'[n + 1], f) /\ n + 1 \in 1..Len(Stream') /\ (n + 2)..Len(Stream') = {}
          BY <2>1, <2>4, <3>1 DEF Drops
        <4> QED BY <2>4, <4>1
      <3>2. CASE f # e /\ f \in Entities \ srv
        <4>1. ~Lists(m, f)
          BY <2>1, <3>2 DEF Lists
        <4>2. CASE f \notin known /\ \A j \in 1..n : ~Lists(Stream[j], f)
          BY <1>1, <2>4, <4>1, <4>2
        <4>3. ASSUME NEW i \in 1..n, Drops(Stream[i], f), \A j \in (i + 1)..n : ~Lists(Stream[j], f)
              PROVE  Drops(Stream'[i], f) /\ i \in 1..Len(Stream')
                       /\ \A j \in (i + 1)..Len(Stream') : ~Lists(Stream'[j], f)
          BY <2>4, <4>1, <4>3
        <4> QED BY <3>2, <4>2, <4>3 DEF SInv, Leaving
      <3> QED BY <2>6, <3>1, <3>2
    <2>9. Leaving'
      BY <2>7, <2>8 DEF Leaving
    <2> QED BY <1>2, <1>3, <1>4, <2>5, <2>9 DEF SInv
  <1> QED BY <1>5, <1>6

\* The dump lists nothing but what the server has, channels before the rest.
LEMMA SAsks ==
  ASSUME TypeOK, SInv, RegAsks
  PROVE  SInv'
  <1> USE DEF NONE, INIT, CHN, DVR, EPG, DONE
  <1>1. UNCHANGED <<srv, changes, conns, up, queue, async, known, dirty, at, level, cur, seen, trig, events>>
        /\ reg = "ask" /\ reg' = "wait" /\ asked' = up
    BY DEF RegAsks, serverVars, dataVars, actorVars, kodiVars
  <1>2. up /\ ~asked /\ async = INIT /\ conns = 1 /\ known = {} /\ Stream = <<>> /\ ~Busy
    BY <1>1 DEF SInv, Straight
  <1>3. Dump \in Seq(Messages) /\ Stream' = Dump
    <2>1. Dump \in Seq(Messages) /\ Stream' = Stream \o Dump
      BY <1>1, <1>2, DumpIs, StreamGrows DEF RegAsks
    <2> QED BY <1>2, <2>1, ConcatEmptySeq
  <1>4. Straight'
    BY <1>1, <1>2 DEF Straight
  <1>5. Ahead'
    BY <1>1 DEF SInv, Ahead
  <1>6. /\ \A i \in 1..Len(Dump) : Dump[i] # Completed
             => Dump[i].op \in {"add", "upd"} /\ Dump[i].e \in srv \cap Mirrored
        /\ \A i \in 1..Len(Dump) : Late(Dump[i]) =>
             \A e \in srv \cap (Tags \cup Channels) : \E j \in 1..(i - 1) : Lists(Dump[j], e)
    BY DumpIs
  <1>7. Leaving'
    BY <1>1, <1>2, <1>3, <1>6, MessageCases DEF Leaving, Lists
  <1>8. Told'
    BY <1>1, <1>2 DEF SInv, Told, Announced
  <1>9. ChannelsFirst'
    <2>1. \A i \in 1..Len(Dump) : Dump[i].op \notin {"del", "missing"}
      BY <1>6, MessageCases
    <2> QED BY <1>1, <1>2, <1>3, <1>6, <2>1 DEF ChannelsFirst
  <1> QED BY <1>4, <1>5, <1>7, <1>8, <1>9 DEF SInv

\* The registration thread touches neither the data nor the messages.
LEMMA SRegisters ==
  ASSUME TypeOK, SInv, Lasts, Opens \/ RegChecks \/ RegInits \/ RegAnswered
  PROVE  SInv'
  <1> USE DEF NONE, INIT, CHN, DVR, EPG, DONE
  <1>1. UNCHANGED <<srv, changes, asked, net, queue, known, dirty, at, level, cur, seen, trig, events>>
    BY DEF Opens, RegChecks, RegInits, RegAnswered, serverVars, linkVars, dataVars, actorVars, kodiVars
  <1>2. Stream' = Stream
    BY <1>1, StreamStays DEF Busy
  <1>3. Straight'
    BY <1>1, <1>2 DEF Opens, RegChecks, RegInits, RegAnswered, syncVars, linkVars, SInv, Straight, Busy
  <1>4. async' = async \/ (async = NONE /\ async' = INIT /\ ~asked)
    BY DEF Opens, RegChecks, RegInits, RegAnswered, syncVars, SInv, Straight
  <1>5. ~asked => known = {} /\ ~Busy
    BY DEF SInv, Straight
  <1>6. at["guide"] # "idle" => asked
    BY DEF SInv, Straight, Ahead
  <1>7. Ahead'
    BY <1>1, <1>4, <1>5, <1>6 DEF SInv, Ahead, Busy
  <1>8. Leaving' /\ Told' /\ ChannelsFirst'
    BY <1>1, <1>2, <1>4, SQuiet
  <1> QED BY <1>3, <1>7, <1>8 DEF SInv

\* A message on its way is taken a step further, none is handled yet.
LEMMA SQueues ==
  ASSUME TypeOK, SInv, Delivers \/ Pops
  PROVE  SInv'
  <1> USE DEF NONE, INIT, CHN, DVR, EPG, DONE
  <1>1. UNCHANGED <<srv, changes, conns, up, asked, reg, async, known, dirty, seen, trig, events>>
        /\ at'["guide"] = at["guide"] /\ cur'["guide"] = cur["guide"]
    BY DEF Delivers, Pops, Enters, LinkUnchanged, serverVars, linkVars, syncVars, dataVars, actorVars,
       kodiVars, TypeOK, Actors
  <1>2. Stream' = Stream
    BY StreamKept
  <1>3. asked
    <2>1. queue # <<>> \/ net # <<>>
      BY DEF Delivers, Pops
    <2>2. queue \in Seq(Messages) /\ net \in Seq(Messages) /\ queue \o net # <<>>
      BY <2>1, ConcatEqualIffEmpty DEF TypeOK
    <2>3. ~Busy => Stream # <<>>
      BY <2>2, StreamIs
    <2> QED BY <2>3 DEF SInv, Straight
  <1>4. Straight'
    BY <1>1, <1>3 DEF SInv, Straight
  <1>5. Ahead'
    <2>1. CASE Delivers
      BY <1>1, <2>1 DEF Delivers, actorVars, SInv, Ahead
    <2>2. CASE Pops
      <3>1. /\ at'["process"] = (IF Target(cur'["process"]) = NONE THEN "apply" ELSE "rebuild")
            /\ level'["process"] = INIT /\ async >= INIT /\ async \in NONE..DONE
        BY <1>3, <2>2 DEF Pops, Enters, TypeOK, Actors, SInv, Straight
      <3>2. at'["process"] = "apply" => async > Target(cur'["process"])
        BY <3>1
      <3>3. at'["process"] \in {"apply", "rebuild"}
        BY <3>1
      <3> QED BY <1>1, <3>1, <3>2, <3>3 DEF SInv, Ahead
    <2> QED BY <2>1, <2>2
  <1>6. Leaving' /\ Told' /\ ChannelsFirst'
    BY <1>1, <1>2, SQuiet
  <1> QED BY <1>4, <1>5, <1>6 DEF SInv

\* The thread that handles a message finds the state where it left it, or ahead.
LEMMA STests ==
  ASSUME TypeOK, InBounds, SInv, Rebuilds("process") \/ Tests("process")
  PROVE  SInv'
  <1> USE DEF NONE, INIT, CHN, DVR, EPG, DONE
  <1>1. UNCHANGED <<srv, changes, conns, up, asked, net, queue, reg, async, known, dirty, seen, trig,
        events, cur>>
    BY DEF Rebuilds, Tests, LinkUnchanged, serverVars, linkVars, syncVars, dataVars, kodiVars
  <1>2. at'["guide"] = at["guide"] /\ Busy /\ Busy'
    BY DEF Rebuilds, Tests, NextLevel, TypeOK, Actors, Busy
  <1>3. Stream' = Stream
    BY <1>1, <1>2, StreamStays
  <1>4. Straight'
    BY <1>1, <1>2, <1>3 DEF SInv, Straight
  <1>5. Ahead'
    <2>1. level["process"] \in INIT..EPG /\ async \in NONE..DONE /\ level["process"] <= Target(cur["process"])
      BY DEF Rebuilds, Tests, InBounds, TypeOK, Actors
    <2>2. CASE Rebuilds("process")
      <3>1. at["process"] = "rebuild" /\ at'["process"] = "check" /\ level' = level
        BY <2>2 DEF Rebuilds, TypeOK, Actors
      <3> QED BY <1>1, <1>2, <3>1 DEF SInv, Ahead
    <2>3. CASE Tests("process") /\ async = level["process"]
      <3>1. at'["process"] = "act" /\ level' = level
        BY <2>3 DEF Tests, TypeOK, Actors
      <3> QED BY <1>1, <1>2, <2>3, <3>1 DEF SInv, Ahead
    <2>4. CASE Tests("process") /\ async # level["process"]
      <3>1. async > level["process"]
        BY <2>1, <2>4 DEF Tests, SInv, Ahead
      <3>2. \/ at'["process"] = "apply" /\ level["process"] = Target(cur["process"])
            \/ at'["process"] = "check" /\ level'["process"] = level["process"] + 1
        BY <2>4 DEF Tests, NextLevel, TypeOK, Actors
      <3> QED BY <1>1, <1>2, <2>1, <3>1, <3>2 DEF SInv, Ahead
    <2> QED BY <2>2, <2>3, <2>4
  <1>6. Leaving' /\ Told' /\ ChannelsFirst'
    BY <1>1, <1>3, SQuiet
  <1> QED BY <1>4, <1>5, <1>6 DEF SInv

\* A phase ends: what the server has not named is dropped.
LEMMA SActs ==
  ASSUME TypeOK, InBounds, SInv, Acts("process")
  PROVE  SInv'
  <1> USE DEF NONE, INIT, CHN, DVR, EPG, DONE
  <1> DEFINE l == level["process"]
  <1>1. UNCHANGED <<srv, changes, conns, up, asked, net, queue, reg, trig, cur>> /\ at["process"] = "act"
    BY DEF Acts, LinkUnchanged, serverVars, linkVars
  <1>2. l \in INIT..EPG /\ l <= Target(cur["process"]) /\ async = l /\ async' = l + 1
    BY DEF Acts, InBounds, TypeOK, Actors, SInv, Ahead
  <1>3. dirty = {} /\ (l = INIT => known = {})
    BY <1>2 DEF SInv, Ahead
  <1>4. Gone(l) = {}
    BY <1>3 DEF Gone
  <1>5. known' = known /\ dirty' = {} /\ seen' = seen /\ events' = events \cup Triggered(l)
    BY <1>3, <1>4 DEF Acts
  <1>6. at'["guide"] = at["guide"] /\ Busy /\ Busy'
        /\ \/ at'["process"] = "apply" /\ l = Target(cur["process"])
           \/ at'["process"] = "check" /\ level'["process"] = l + 1
    BY DEF Acts, NextLevel, TypeOK, Actors, Busy
  <1>7. Stream' = Stream
    BY <1>1, <1>6, StreamStays
  <1>8. asked
    BY <1>6 DEF SInv, Straight
  <1>9. Straight'
    BY <1>1, <1>2, <1>8 DEF SInv, Straight
  <1>10. Ahead'
    BY <1>1, <1>2, <1>5, <1>6 DEF SInv, Ahead
  <1>11. Leaving'
    BY <1>1, <1>5, <1>7 DEF SInv, Leaving
  <1>12. Told'
    <2>1. l = CHN => {"tag", "chn"} \subseteq events'
      BY <1>5 DEF Triggered, Settled
    <2>2. l = DVR => "dvr" \in events'
      BY <1>5 DEF Triggered, Settled
    <2>3. \A k : Announced(k) => Announced(k)'
      BY <1>1, <1>5 DEF Announced
    <2>4. seen' \cap Programmes = known' \cap Programmes
      BY <1>5 DEF SInv, Told
    <2>5. async' >= DVR => Announced("tag")' /\ Announced("chn")'
      BY <1>2, <2>1, <2>3 DEF SInv, Told, Announced
    <2>6. async' >= EPG => Announced("dvr")'
      BY <1>2, <2>2, <2>3 DEF SInv, Told, Announced
    <2> QED BY <2>4, <2>5, <2>6 DEF Told
  <1>13. ChannelsFirst'
    <2> SUFFICES ASSUME changes = 0
                 PROVE  async' >= DVR => srv \cap (Tags \cup Channels) \subseteq known
      BY <1>1, <1>5, <1>7 DEF SInv, ChannelsFirst
    <2>1. CASE l = CHN
      <3>1. Stream \in Seq(Messages) /\ Stream # <<>> /\ Stream[1] = cur["process"]
        BY <1>6, StreamIs
      <3>2. 1 \in 1..Len(Stream) /\ 1..(1 - 1) = {}
        BY <3>1
      <3>3. Late(Stream[1])
        BY <1>2, <2>1, <3>1 DEF Late
      <3> QED BY <3>2, <3>3 DEF SInv, ChannelsFirst
    <2>2. CASE l # CHN
      BY <1>2, <2>2 DEF SInv, ChannelsFirst
    <2> QED BY <2>1, <2>2
  <1> QED BY <1>9, <1>10, <1>11, <1>12, <1>13 DEF SInv

\* Kodi reads the guide: nothing but the place of its thread changes.
LEMMA SGuide ==
  ASSUME TypeOK, InBounds, SInv, Lasts, GuideCalls \/ GuideStep
  PROVE  SInv'
  <1> USE DEF NONE, INIT, CHN, DVR, EPG, DONE
  <1> DEFINE g == "guide"
  <1>1. ~Acts(g)
    BY DEF Acts, SInv, Ahead
  <1>2. UNCHANGED <<srv, changes, conns, up, asked, net, queue, reg, async, known, dirty, seen, trig, events>>
    BY <1>1 DEF GuideCalls, GuideStep, SyncStep, Rebuilds, Tests, GuideReturns, LinkUnchanged,
       serverVars, linkVars,
                syncVars, dataVars, kodiVars
  <1>3. at'["process"] = at["process"] /\ level'["process"] = level["process"]
          /\ cur'["process"] = cur["process"]
    BY <1>1 DEF GuideCalls, Enters, GuideStep, SyncStep, Rebuilds, Tests, NextLevel, GuideReturns,
       TypeOK, Actors
  <1>4. Stream' = Stream
    BY <1>2, <1>3 DEF Stream, Busy
  <1>5. Straight'
    BY <1>2, <1>3, <1>4 DEF SInv, Straight, Busy
  <1>6. at'[g] # "idle" => async >= EPG /\ at'[g] # "act" /\ Target(cur'[g]) = DVR
    <2>1. CASE GuideCalls
      <3>1. PICK e \in srv \cap Programmes : Enters(g, [op |-> "add", e |-> e])
        BY <2>1 DEF GuideCalls
      <3>2. [op |-> "add", e |-> e] \in Messages
        BY DEF Messages, Entities
      <3>3. Target([op |-> "add", e |-> e]) = DVR
        BY <3>2, TargetIs
      <3>4. at'[g] # "act" /\ Target(cur'[g]) = DVR
        BY <3>1, <3>3 DEF Enters, TypeOK, Actors
      <3>5. async >= GuideFrom /\ GuideFrom \in 0..5 /\ GuideFrom >= EPG /\ async \in NONE..DONE
        BY <2>1, BoundsAssumption DEF GuideCalls, Lasts, TypeOK
      <3> QED BY <3>4, <3>5
    <2>2. CASE Rebuilds(g)
      BY <2>2 DEF Rebuilds, SInv, Ahead, TypeOK, Actors
    <2>3. CASE Tests(g)
      <3>1. level[g] <= DVR /\ level[g] \in INIT..EPG /\ async >= EPG /\ Target(cur[g]) = DVR
        BY <2>3 DEF Tests, InBounds, SInv, Ahead, TypeOK, Actors
      <3>2. async # level[g]
        BY <3>1
      <3> QED BY <2>3, <3>1, <3>2 DEF Tests, NextLevel, TypeOK, Actors
    <2>4. CASE GuideReturns
      BY <2>4 DEF GuideReturns, TypeOK, Actors
    <2> QED BY <1>1, <2>1, <2>2, <2>3, <2>4 DEF GuideStep, SyncStep
  <1>7. Ahead'
    BY <1>2, <1>3, <1>6 DEF SInv, Ahead
  <1>8. Leaving' /\ Told' /\ ChannelsFirst'
    BY <1>2, <1>4, SQuiet
  <1> QED BY <1>5, <1>7, <1>8 DEF SInv

\* What the Parse functions tell Kodi of what they do.
LEMMA Announces ==
  ASSUME TypeOK, SInv, Applies
  PROVE  Told'
  <1> USE DEF NONE, INIT, CHN, DVR, EPG, DONE
  <1>1. UNCHANGED async /\ Told
    BY AppliesIs DEF SInv
  <1>2. /\ \A k, l \in Kinds : k # l => Of[k] \cap Of[l] = {}
        /\ Of["tag"] = Tags /\ Of["chn"] = Channels /\ Of["dvr"] = Recordings /\ Of["epg"] = Programmes
    BY KindsOfEntities
  \* Kinds that nothing happens to.
  <1>3. ASSUME NEW k \in Kinds, Announced(k), trig \cup events \subseteq trig' \cup events',
               known' \cap Of[k] = known \cap Of[k], seen' \cap Of[k] = seen \cap Of[k]
        PROVE  Announced(k)'
    BY <1>3 DEF Announced
  <1>4. ASSUME NEW k \in {"tag", "chn", "dvr"}, NEW e \in Of[k], NEW kinds, Finishes(kinds), UNCHANGED seen,
               Stores(e) \/ Erases(e) \/ UNCHANGED dataVars,
               known' # known /\ async >= (IF k = "dvr" THEN EPG ELSE DVR) => k \in kinds
        PROVE  Told'
    <2>1. trig' \cup events' = trig \cup events \cup kinds
      BY <1>4 DEF Finishes
    <2>2. \A l \in Kinds : l # k => known' \cap Of[l] = known \cap Of[l]
      <3>1. \A l \in Kinds : l # k => e \notin Of[l]
        BY <1>2, <1>4 DEF Kinds
      <3> QED BY <1>4, <3>1 DEF Stores, Erases, dataVars
    <2>3. \A l \in Kinds : l # k /\ Announced(l) => Announced(l)'
      BY <1>3, <1>4, <2>1, <2>2
    <2>4. Announced(k) /\ async >= (IF k = "dvr" THEN EPG ELSE DVR) => Announced(k)'
      <3>1. CASE known' = known
        BY <1>3, <1>4, <2>1, <3>1 DEF Kinds
      <3>2. CASE known' # known
        BY <1>4, <2>1, <3>2 DEF Announced
      <3> QED BY <3>1, <3>2
    <2>5. seen' \cap Programmes = known' \cap Programmes
      <3>1. known' \cap Programmes = known \cap Programmes
        BY <1>2, <1>4, <2>2 DEF Kinds
      <3> QED BY <1>1, <1>4, <3>1 DEF Told
    <2>6. async >= DVR => Announced("tag")' /\ Announced("chn")'
      BY <1>1, <2>3, <2>4 DEF Told, Kinds
    <2>7. async >= EPG => Announced("dvr")'
      BY <1>1, <2>3, <2>4 DEF Told, Kinds
    <2> QED BY <1>1, <2>5, <2>6, <2>7 DEF Told
  <1>5. async \in NONE..DONE
    BY DEF TypeOK
  <1>6. ASSUME NEW e \in Entities, AppliesTag(e)
        PROVE  Told'
    <2> DEFINE kinds == IF e \notin known /\ async > CHN THEN {"tag"} ELSE {}
    <2>1. e \in Of["tag"] /\ Finishes(kinds) /\ UNCHANGED seen /\ (Stores(e) \/ UNCHANGED dataVars)
      BY <1>2, <1>6 DEF AppliesTag, Handles
    <2>2. known' # known /\ async >= DVR => "tag" \in kinds
      BY <1>5, <2>1 DEF Stores, dataVars
    <2> QED BY <1>4, <2>1, <2>2
  <1>7. ASSUME NEW e \in Entities, AppliesChannel(e)
        PROVE  Told'
    <2> DEFINE kinds == IF e \notin known /\ async > CHN THEN {"chn"} ELSE {}
    <2>1. e \in Of["chn"] /\ Finishes(kinds) /\ UNCHANGED seen /\ Stores(e)
      BY <1>2, <1>7 DEF AppliesChannel, Handles
    <2>2. known' # known /\ async >= DVR => "chn" \in kinds
      BY <1>5, <2>1 DEF Stores
    <2> QED BY <1>4, <2>1, <2>2
  <1>8. ASSUME NEW e \in Entities, AppliesRecording(e)
        PROVE  Told'
    <2> DEFINE kinds == IF known' # known /\ async > DVR THEN {"dvr"} ELSE {}
    <2>1. e \in Of["dvr"] /\ Finishes(kinds) /\ UNCHANGED seen /\ (Stores(e) \/ Erases(e))
      BY <1>2, <1>8 DEF AppliesRecording, Handles
    <2>2. known' # known /\ async >= EPG => "dvr" \in kinds
      BY <1>5
    <2> HIDE DEF kinds
    <2> QED BY <1>4, <2>1, <2>2
  <1>9. ASSUME NEW e \in Entities, NEW k \in Kinds, Deletes(k, e)
        PROVE  Told'
    <2>1. k \in {"tag", "chn", "dvr"} /\ e \in Of[k] /\ Finishes({k}) /\ UNCHANGED seen /\ Erases(e)
      BY <1>9 DEF Deletes, Handles, Kinds
    <2> QED BY <1>4, <2>1
  <1>10. ASSUME NEW e \in Entities, AppliesProgramme(e) \/ DeletesProgramme(e)
         PROVE  Told'
    <2>1. e \in Programmes /\ Finishes({}) /\ (Stores(e) \/ Erases(e))
      BY <1>10 DEF AppliesProgramme, DeletesProgramme, Handles
    <2>2. trig' \cup events' = trig \cup events
      BY <2>1 DEF Finishes
    <2>3. \A k \in Kinds : k # "epg"
            => known' \cap Of[k] = known \cap Of[k] /\ seen' \cap Of[k] = seen \cap Of[k]
      <3>1. \A k \in Kinds : k # "epg" => e \notin Of[k]
        BY <1>2, <2>1 DEF Kinds
      <3> QED BY <1>10, <3>1 DEF AppliesProgramme, DeletesProgramme, Stores, Erases
    <2>4. \A k \in Kinds : k # "epg" /\ Announced(k) => Announced(k)'
      BY <1>3, <2>2, <2>3
    <2>5. seen' \cap Programmes = known' \cap Programmes
      BY <1>1, <1>10 DEF AppliesProgramme, DeletesProgramme, Stores, Erases, Told
    <2> QED BY <1>1, <2>4, <2>5 DEF Told, Kinds
  <1> QED BY <1>6, <1>7, <1>8, <1>9, <1>10 DEF Applies

\* Process has finished with a message.
LEMMA SApplies ==
  ASSUME TypeOK, SInv, Applies \/ AppliesCompleted
  PROVE  SInv'
  <1> USE DEF NONE, INIT, CHN, DVR, EPG, DONE
  <1> DEFINE m == cur["process"]
  <1>1. UNCHANGED <<srv, changes, conns, up, asked, net, reg, queue, level, cur>> /\ at["process"] = "apply"
        /\ at' = [at EXCEPT !["process"] = "idle"]
    BY AppliesIs DEF AppliesCompleted, LinkUnchanged, serverVars, linkVars
  <1>2. /\ Stream \in Seq(Messages) /\ Stream # <<>> /\ Stream[1] = m /\ m \in Messages
        /\ Stream' = Tail(Stream) /\ ~Busy' /\ Busy
    BY <1>1, StreamFinished, StreamIs DEF Busy, TypeOK, Actors
  <1> HIDE DEF m
  <1> DEFINE n == Len(Stream)
  <1>3. n \in Nat \ {0} /\ Len(Stream') = n - 1
          /\ \A i \in 1..(n - 1) : Stream'[i] = Stream[i + 1] /\ i + 1 \in 1..n
    BY <1>2, HeadTailProperties
  <1>4. at'["process"] = "idle" /\ at'["guide"] = at["guide"]
    BY <1>1 DEF TypeOK, Actors
  <1>5. asked /\ async >= INIT /\ async \in NONE..DONE /\ dirty = {}
    BY <1>2 DEF SInv, Straight, Ahead, TypeOK
  \* The state cannot be moved by initialSyncCompleted any more.
  <1>6. async' = async
    <2>1. CASE Applies
      BY <2>1, AppliesIs
    <2>2. CASE AppliesCompleted
      <3>1. Target(m) = EPG /\ async' = DONE
        BY <1>2, <2>2, TargetIs DEF AppliesCompleted, m
      <3>2. async > EPG
        BY <1>1, <3>1 DEF SInv, Ahead, m
      <3> QED BY <1>5, <3>1, <3>2
    <2> QED BY <2>1, <2>2
  <1>7. \/ UNCHANGED dataVars /\ (m = Completed \/ m.e \in known)
        \/ m # Completed /\ m.op \in {"add", "upd"} /\ Stores(m.e)
        \/ m # Completed /\ m.op \in {"missing", "del"} /\ Erases(m.e)
    <2>1. CASE Applies
      BY <2>1, AppliesIs, MessageCases DEF m
    <2>2. CASE AppliesCompleted
      BY <2>2 DEF AppliesCompleted, m
    <2> QED BY <2>1, <2>2
  <1>8. Straight'
    BY <1>1, <1>5, <1>6 DEF SInv, Straight
  <1>9. dirty' = {} /\ (known = {} /\ m.op \notin {"add", "upd"} => known' = {})
    BY <1>5, <1>7 DEF Stores, Erases, dataVars
  <1>10. async = INIT => known' = {}
    <2>1. async = INIT => Target(m) = NONE
      <3>1. async > Target(m) /\ Target(m) \in NONE..EPG
        BY <1>1, <1>2, TargetIs DEF SInv, Ahead, m
      <3> QED BY <3>1
    <2>2. Target(m) = NONE => m.op \notin {"add", "upd"}
      BY <1>2, TargetIs, MessageCases DEF Entities
    <2>3. async = INIT => known = {}
      BY DEF SInv, Ahead
    <2> QED BY <1>9, <2>1, <2>2, <2>3
  <1>11. Ahead'
    BY <1>1, <1>4, <1>6, <1>9, <1>10 DEF SInv, Ahead
  <1>12. Leaving'
    <2>1. known' \subseteq Mirrored
      <3>1. known \subseteq Mirrored /\ (m # Completed => m.e \in Mirrored)
        BY <1>2, <1>3 DEF SInv, Leaving
      <3> QED BY <1>7, <3>1 DEF Stores, Erases, dataVars
    <2>2. \A i \in 1..Len(Stream') : Stream'[i] # Completed => Stream'[i].e \in Mirrored
      BY <1>3 DEF SInv, Leaving
    <2>3. ASSUME NEW e \in Entities \ srv
          PROVE  \/ e \notin known' /\ \A j \in 1..Len(Stream') : ~Lists(Stream'[j], e)
                 \/ \E i \in 1..Len(Stream') : /\ Drops(Stream'[i], e)
                                               /\ \A j \in (i + 1)..Len(Stream') : ~Lists(Stream'[j], e)
      <3>1. CASE e \notin known /\ \A j \in 1..n : ~Lists(Stream[j], e)
        <4>1. ~Lists(m, e)
          BY <1>2, <1>3, <3>1
        <4>2. e \notin known'
          BY <1>7, <3>1, <4>1 DEF Stores, Erases, Lists, dataVars
        <4>3. \A j \in 1..Len(Stream') : ~Lists(Stream'[j], e)
          BY <1>3, <3>1
        <4> QED BY <4>2, <4>3
      <3>2. ASSUME NEW i \in 1..n, Drops(Stream[i], e), \A j \in (i + 1)..n : ~Lists(Stream[j], e), i # 1
            PROVE  /\ i - 1 \in 1..Len(Stream') /\ Drops(Stream'[i - 1], e)
                   /\ \A j \in ((i - 1) + 1)..Len(Stream') : ~Lists(Stream'[j], e)
        <4>1. i - 1 \in 1..(n - 1) /\ (i - 1) + 1 = i
          BY <1>3, <3>2
        <4>2. \A j \in i..(n - 1) : j + 1 \in (i + 1)..n /\ j \in 1..(n - 1)
          BY <1>3, <4>1
        <4> QED BY <1>3, <3>2, <4>1, <4>2
      <3>3. CASE Drops(Stream[1], e) /\ \A j \in 2..n : ~Lists(Stream[j], e)
        <4>1. Drops(m, e)
          BY <1>2, <3>3
        <4>2. m # Completed /\ m.op \notin {"add", "upd"} /\ m.e = e
          BY <4>1, MessageCases DEF Drops
        <4>3. e \notin known'
          <5>1. Applies /\ m.op \in {"missing", "del"}
            BY <4>1, <4>2 DEF AppliesCompleted, Drops, m
          <5>2. Erases(m.e)
            BY <4>2, <5>1, AppliesIs DEF m
          <5> QED BY <4>2, <5>2 DEF Erases
        <4>4. \A j \in 1..Len(Stream') : ~Lists(Stream'[j], e)
          <5>1. \A j \in 1..(n - 1) : j + 1 \in 2..n
            BY <1>3
          <5> QED BY <1>3, <3>3, <5>1
        <4> QED BY <4>3, <4>4
      <3>4. \/ e \notin known /\ \A j \in 1..n : ~Lists(Stream[j], e)
            \/ \E i \in 1..n : Drops(Stream[i], e) /\ \A j \in (i + 1)..n : ~Lists(Stream[j], e)
        BY DEF SInv, Leaving
      <3>5. CASE \E i \in 1..n : Drops(Stream[i], e) /\ \A j \in (i + 1)..n : ~Lists(Stream[j], e)
        <4>1. PICK i \in 1..n : Drops(Stream[i], e) /\ \A j \in (i + 1)..n : ~Lists(Stream[j], e)
          BY <3>5
        <4>2. CASE i = 1
          BY <3>3, <4>1, <4>2
        <4>3. CASE i # 1
          BY <3>2, <4>1, <4>3
        <4> QED BY <4>2, <4>3
      <3> QED BY <3>1, <3>4, <3>5
    <2> QED BY <1>1, <2>1, <2>2, <2>3 DEF Leaving
  <1>13. Told'
    <2>1. CASE Applies
      BY <2>1, Announces
    <2>2. CASE AppliesCompleted
      <3>1. trig' \cup events' = trig \cup events /\ UNCHANGED <<known, seen>>
        BY <2>2 DEF AppliesCompleted, dataVars
      <3> QED BY <1>6, <3>1 DEF SInv, Told, Announced
    <2> QED BY <2>1, <2>2
  <1>14. ChannelsFirst'
    <2> SUFFICES ASSUME changes = 0
                 PROVE  /\ \A i \in 1..Len(Stream') : Stream'[i].op \notin {"del", "missing"}
                        /\ async >= DVR => srv \cap (Tags \cup Channels) \subseteq known'
                        /\ \A i \in 1..Len(Stream') : Late(Stream'[i]) =>
                             \A e \in srv \cap (Tags \cup Channels) :
                               e \in known' \/ \E j \in 1..(i - 1) : Lists(Stream'[j], e)
      BY <1>1, <1>6 DEF ChannelsFirst
    <2>1. ChannelsFirst
      BY DEF SInv
    <2>2. \A i \in 1..n : Stream[i].op \notin {"del", "missing"}
      BY <2>1 DEF ChannelsFirst
    <2>3. m.op \notin {"del", "missing"}
      BY <1>2, <1>3, <2>2
    <2>4. known \subseteq known' /\ (m # Completed => m.e \in known')
      BY <1>7, <2>3 DEF Stores, dataVars
    <2>5. \A i \in 1..Len(Stream') : Stream'[i].op \notin {"del", "missing"}
      BY <1>3, <2>2
    <2>6. async >= DVR => srv \cap (Tags \cup Channels) \subseteq known'
      BY <2>1, <2>4 DEF ChannelsFirst
    <2>7. ASSUME NEW i \in 1..(n - 1), Late(Stream'[i]), NEW e \in srv \cap (Tags \cup Channels),
                 e \notin known'
          PROVE  \E j \in 1..(i - 1) : Lists(Stream'[j], e)
      <3>1. Stream'[i] = Stream[i + 1] /\ i + 1 \in 1..n
        BY <1>3
      <3>2. PICK j \in 1..i : Lists(Stream[j], e)
        <4>1. e \in known \/ \E j \in 1..((i + 1) - 1) : Lists(Stream[j], e)
          BY <2>1, <2>7, <3>1 DEF ChannelsFirst
        <4>2. (i + 1) - 1 = i
          OBVIOUS
        <4> QED BY <2>4, <2>7, <4>1, <4>2
      <3>3. j # 1
        BY <1>2, <2>4, <2>7, <3>2, MessageCases DEF Lists
      <3>4. j - 1 \in 1..(i - 1) /\ j - 1 \in 1..(n - 1) /\ (j - 1) + 1 = j
        BY <1>3, <3>2, <3>3
      <3>5. Stream'[j - 1] = Stream[j]
        BY <1>3, <3>4
      <3> QED BY <3>2, <3>4, <3>5
    <2> QED BY <1>3, <2>5, <2>6, <2>7
  <1> QED BY <1>8, <1>11, <1>12, <1>13, <1>14 DEF SInv

\* Every step keeps it.
LEMMA SInvOfStep ==
  ASSUME TypeOK, InBounds, SInv, Lasts, [Next]_vars
  PROVE  SInv'
  <1>1. ASSUME UNCHANGED <<srv, changes, conns, up, asked, net, reg, queue, async, known, dirty, at,
               level, cur>>,
               Told'
        PROVE  SInv'
    <2>1. Stream' = Stream
      BY <1>1, StreamStays DEF Busy
    <2>2. Straight'
      BY <1>1, <2>1 DEF SInv, Straight, Busy
    <2>3. Ahead'
      BY <1>1 DEF SInv, Ahead
    <2>4. Leaving' /\ ChannelsFirst'
      BY <1>1, <2>1 DEF SInv, Leaving, ChannelsFirst
    <2> QED BY <1>1, <2>2, <2>3, <2>4 DEF SInv
  <1>2. CASE UNCHANGED vars
    BY <1>1, <1>2 DEF vars, serverVars, linkVars, syncVars, dataVars, actorVars, kodiVars, SInv, Told,
       Announced
  <1>3. ASSUME NEW op \in {"add", "missing", "del"}, NEW e \in Entities, ServerChanges(op, e)
        PROVE  SInv'
    BY <1>3, SServer
  <1>4. CASE Opens \/ RegChecks \/ RegInits \/ RegAnswered
    BY <1>4, SRegisters
  <1>5. CASE RegAsks
    BY <1>5, SAsks
  <1>6. ~Loses /\ ~SetEPGMaxFutureDays /\ ~RegFails /\ ~RegDisconnects
    <2>1. "loss" \notin Events /\ "days" \notin Events /\ "timeout" \notin Events /\ reg # "fail"
      BY DEF Lasts, SInv, Straight
    <2>2. reg = "wait" => asked
      BY DEF SInv, Straight
    <2> QED BY <2>1, <2>2 DEF Loses, SetEPGMaxFutureDays, RegFails, RegDisconnects
  <1>7. CASE Delivers \/ Pops
    BY <1>7, SQueues
  <1>8. CASE SyncStep("process")
    BY <1>8, STests, SActs DEF SyncStep
  <1>9. CASE Applies \/ AppliesCompleted
    BY <1>9, SApplies
  <1>10. CASE GuideCalls \/ GuideStep
    BY <1>10, SGuide
  <1>11. ASSUME NEW k \in Kinds, KodiStep(k)
         PROVE  SInv'
    <2>1. UNCHANGED <<srv, changes, conns, up, asked, net, reg, queue, async, known, dirty, at, level,
          cur, events>>
          /\ trig' = trig \ {k}
      BY <1>11 DEF KodiStep, KodiFetches, KodiGivesUp, LinkUnchanged, serverVars, linkVars, syncVars,
         dataVars,
                   actorVars
    <2>2. \A l, j \in Kinds : l # j => Of[l] \cap Of[j] = {}
      BY KindsOfEntities
    <2>3. \A l \in Kinds \ {k} : Announced(l) => Announced(l)'
      <3> SUFFICES ASSUME NEW l \in Kinds \ {k}
                   PROVE  seen' \cap Of[l] = seen \cap Of[l]
        BY <2>1 DEF Announced
      <3>1. Of[l] \cap Of[k] = {}
        BY <2>2
      <3> QED BY <1>11, <3>1 DEF KodiStep, KodiFetches, KodiGivesUp, Fetched
    <2>4. KodiFetches(k) => seen' \cap Of[k] = known \cap Of[k]
      BY DEF KodiFetches, Fetched
    <2>5. k \in {"tag", "chn"} /\ async >= DVR => Announced(k)'
      BY <1>11, <2>1, <2>4 DEF KodiStep, KodiGivesUp, Needed, Announced, DVR, TypeOK, NONE, DONE
    <2>6. k = "dvr" /\ async >= EPG => Announced(k)'
      BY <1>11, <2>1, <2>4 DEF KodiStep, KodiGivesUp, Needed, Announced, EPG, TypeOK, NONE, DONE
    <2>7. seen' \cap Programmes = known' \cap Programmes
      <3>1. Of["epg"] = Programmes /\ seen \cap Programmes = known \cap Programmes
        BY KindsOfEntities DEF SInv, Told
      <3>2. KodiFetches(k) /\ k # "epg" => seen' \cap Programmes = seen \cap Programmes
        BY <2>2, <3>1 DEF KodiFetches, Fetched, Kinds
      <3> QED BY <1>11, <2>1, <2>4, <3>1, <3>2 DEF KodiStep, KodiGivesUp
    <2>8. Told'
      BY <2>1, <2>3, <2>5, <2>6, <2>7 DEF SInv, Told, Kinds
    <2> QED BY <1>1, <2>1, <2>8
  <1> QED BY <1>2, <1>3, <1>4, <1>5, <1>6, <1>7, <1>8, <1>9, <1>10, <1>11
          DEF Next, ServerStep, RegStep, ProcessStep

\* So it always holds.
LEMMA SInvHolds == ASSUME Lasts PROVE Spec => []SInv
  <1>1. Init => SInv
    <2>1. ASSUME Init
          PROVE  SInv
      <3>1. ~Busy /\ at["guide"] = "idle" /\ queue = <<>> /\ net = <<>>
        BY <2>1 DEF Init, Busy, Actors
      <3>2. Stream = <<>>
        BY <3>1, EmptySeq, ConcatEmptySeq DEF Stream
      <3>3. Straight
        BY <2>1, <3>1, <3>2 DEF Init, Straight, NONE, INIT
      <3>4. Ahead
        BY <2>1, <3>1 DEF Init, Ahead, Busy, NONE, INIT
      <3>5. Leaving /\ ChannelsFirst
        BY <2>1, <3>2 DEF Init, Leaving, ChannelsFirst, NONE, DVR
      <3>6. Told
        BY <2>1 DEF Init, Told, NONE, DVR, EPG
      <3> QED BY <3>3, <3>4, <3>5, <3>6 DEF SInv
    <2> QED BY <2>1
  <1>2. TypeOK /\ InBounds /\ SInv /\ [Next]_vars => SInv'
    BY SInvOfStep
  <1> QED BY <1>1, <1>2, SyncTypes, PTL DEF Spec

\* When nothing is pending any more the stream is empty.
LEMMA QuietStream ==
  ASSUME TypeOK, Quiescent
  PROVE  Stream = <<>>
  <1>1. ToSet(queue) = {} /\ ToSet(net) = {} /\ ~Busy
    BY DEF Quiescent, Pending, Busy
  <1>2. queue = <<>> /\ net = <<>>
    <2>1. ASSUME NEW s \in Seq(Messages), s # <<>>
          PROVE  ToSet(s) # {}
      <3>1. 1 \in DOMAIN s
        BY <2>1
      <3> QED BY <3>1 DEF ToSet
    <2> QED BY <1>1, <2>1 DEF TypeOK
  <1> QED BY <1>1, <1>2, EmptySeq, ConcatEmptySeq, StreamIs

\* While the connection lasts and the guide is read only when the sync has listed
\* the recordings: once all is worked off, the addon keeps nothing that the server
\* has deleted, however the deletions fell between the listings.
THEOREM KeepsNoGhosts == ASSUME Lasts PROVE Spec => []NoGhosts
  <1>1. TypeOK /\ SInv => NoGhosts
    <2> SUFFICES ASSUME TypeOK, SInv, Quiescent, NEW e \in known, e \notin srv
                 PROVE  FALSE
      BY DEF NoGhosts
    <2>1. Stream = <<>> /\ Len(Stream) = 0 /\ e \in Entities \ srv
      BY QuietStream DEF TypeOK
    <2> QED BY <2>1 DEF SInv, Leaving
  <1> QED BY <1>1, SInvHolds, SyncTypes, PTL

\* Under the same conditions Kodi is told of everything: when it has fetched what
\* it was told to fetch, it has seen exactly what the addon knows.
THEOREM TellsKodi == ASSUME Lasts PROVE Spec => []KodiInformed
  <1>1. TypeOK /\ SInv => KodiInformed
    <2> SUFFICES ASSUME TypeOK, SInv, Quiescent, trig = {}, events = {}
                 PROVE  seen = known
      BY DEF KodiInformed
    <2>1. Announced("tag") /\ Announced("chn") /\ Announced("dvr")
      BY DEF Quiescent, SInv, Told, DVR, EPG, DONE
    <2>2. \A k \in Kinds : seen \cap Of[k] = known \cap Of[k]
      BY <2>1, KindsOfEntities DEF SInv, Told, Announced, Kinds
    <2>3. \A e \in Entities : e \in seen <=> e \in known
      BY <2>2, KindsOfEntities
    <2> QED BY <2>3 DEF TypeOK
  <1> QED BY <1>1, SInvHolds, SyncTypes, PTL

\* Under the same conditions, if the server changes nothing meanwhile, GetChannels
\* stops waiting for the state only when every tag and channel is known.
THEOREM ChannelsAreComplete == ASSUME Lasts PROVE Spec => []ChannelsComplete
  <1>1. SInv => ChannelsComplete
    BY DEF SInv, ChannelsFirst, ChannelsComplete
  <1> QED BY <1>1, SInvHolds, PTL
=============================================================================
