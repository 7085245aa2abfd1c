--------------------------- MODULE MessagesProofs ---------------------------
(***************************************************************************)
(* Proofs about Messages, for any messages that are read back as they were *)
(* written, and any number of them, of requests and of losses.             *)
(***************************************************************************)
EXTENDS Messages, SyncedBufferProofs, SequenceTheorems, WellFoundedInduction

QP == INSTANCE SyncedBufferProofs WITH buffer <- qBuffer, hasData <- qHasData, waiting <- qWaiting,
        notified <- qNotified, Entries <- Nat, Poppers <- {"process"}

-----------------------------------------------------------------------------
(***************************************************************************)
(* Induction, from the fact that a set of numbers has a least one: as a    *)
(* fact about sets, for what takes an operator cannot be cited.            *)
(***************************************************************************)
\* A set of numbers that is not empty has a least one.
LEMMA Least ==
  ASSUME NEW T, T \subseteq Nat, T # {}
  PROVE  \E x \in T : \A y \in T : ~(y < x)
  <1> DEFINE R == OpToRel(<, Nat)
  <1>1. IsWellFoundedOn(R, Nat)
    BY NatLessThanWellFounded
  <1>2. \E x \in T : \A y \in T : <<y, x>> \notin R
    <2> HIDE DEF R
    <2> QED BY <1>1, WFMin
  <1>3. \A x, y \in Nat : y < x => <<y, x>> \in R
    BY DEF OpToRel
  <1> HIDE DEF R
  <1> QED BY <1>2, <1>3

\* What has 0 and is closed under the successor has every number.
LEMMA Induction ==
  ASSUME NEW T, 0 \in T, \A n \in Nat : n \in T => n + 1 \in T
  PROVE  \A n \in Nat : n \in T
  <1> DEFINE S == {n \in Nat : n \notin T}
  <1>1. SUFFICES ASSUME S # {} PROVE FALSE
    OBVIOUS
  <1>2. PICK x \in S : \A y \in S : ~(y < x)
    BY <1>1, Least
  <1>3. x \in Nat /\ x # 0 /\ x \notin T
    OBVIOUS
  <1>4. x - 1 \in Nat /\ x - 1 < x /\ (x - 1) + 1 = x
    BY <1>3
  <1>5. x - 1 \in T
    BY <1>2, <1>4
  <1> QED BY <1>3, <1>4, <1>5

-----------------------------------------------------------------------------
(***************************************************************************)
(* Selecting from a sequence: Chosen, with a set for the kind.             *)
(***************************************************************************)
\* f says what is selected from each beginning of s up to the length n.
Selects(f, s, Z, n) ==
  f = [i \in 0..n |-> IF i = 0 THEN <<>>
                      ELSE IF s[i] \in Z THEN Append(f[i - 1], s[i]) ELSE f[i - 1]]
Selected(s, Z) == (CHOOSE f : Selects(f, s, Z, Len(s)))[Len(s)]

\* There is such an f.
LEMMA SelectsExists ==
  ASSUME NEW s, NEW Z
  PROVE  \A n \in Nat : \E f : Selects(f, s, Z, n)
  <1> DEFINE T == {n \in Nat : \E f : Selects(f, s, Z, n)}
  <1>1. 0 \in T
    <2>1. Selects([i \in 0..0 |-> <<>>], s, Z, 0)
      BY DEF Selects
    <2> QED BY <2>1
  <1>2. ASSUME NEW n \in Nat, n \in T PROVE n + 1 \in T
    <2>1. PICK f : Selects(f, s, Z, n)
      BY <1>2
    <2> DEFINE Item(i) == IF s[i] \in Z THEN Append(f[i - 1], s[i]) ELSE f[i - 1]
               g == [i \in 0..(n + 1) |-> IF i = n + 1 THEN Item(i) ELSE f[i]]
    <2>2. \A i \in 0..n : f[i] = IF i = 0 THEN <<>> ELSE Item(i)
      BY <2>1 DEF Selects
    <2>3. \A i \in 0..(n + 1) : i # 0 => i - 1 \in 0..n /\ (i # n + 1 => i \in 0..n)
      OBVIOUS
    <2>4. \A i \in 0..n : g[i] = f[i]
      OBVIOUS
    <2>5. \A i \in 0..(n + 1) : g[i] = IF i = 0 THEN <<>> ELSE Item(i)
      BY <2>2, <2>3
    <2>6. \A i \in 0..(n + 1) : i # 0 => g[i - 1] = f[i - 1]
      BY <2>3, <2>4
    <2>7. \A i \in 0..(n + 1) :
            g[i] = IF i = 0 THEN <<>> ELSE IF s[i] \in Z THEN Append(g[i - 1], s[i]) ELSE g[i - 1]
      <3> HIDE DEF g
      <3> QED BY <2>5, <2>6
    <2>8. DOMAIN g = 0..(n + 1) /\ g = [i \in 0..(n + 1) |-> g[i]]
      OBVIOUS
    <2>9. Selects(g, s, Z, n + 1)
      <3> HIDE DEF g
      <3> QED BY <2>7, <2>8 DEF Selects
    <2> QED BY <2>9
  <1> HIDE DEF T
  <1>3. \A n \in Nat : n \in T
    BY <1>1, <1>2, Induction
  <1> QED BY <1>3 DEF T

\* It is told by the beginning.
LEMMA SelectsUnique ==
  ASSUME NEW s, NEW t, NEW Z, NEW m \in Nat, NEW n \in Nat, NEW f, NEW g,
         Selects(f, s, Z, m), Selects(g, t, Z, n), m <= n, \A i \in 1..m : s[i] = t[i]
  PROVE  f[m] = g[m]
  <1> DEFINE T == {i \in Nat : i <= m => f[i] = g[i]}
  <1>1. \A i \in 0..m : f[i] = IF i = 0 THEN <<>>
                                ELSE IF s[i] \in Z THEN Append(f[i - 1], s[i]) ELSE f[i - 1]
    BY DEF Selects
  <1>2. \A i \in 0..n : g[i] = IF i = 0 THEN <<>>
                                ELSE IF t[i] \in Z THEN Append(g[i - 1], t[i]) ELSE g[i - 1]
    BY DEF Selects
  <1>3. 0 \in T
    BY <1>1, <1>2
  <1>4. ASSUME NEW i \in Nat, i \in T PROVE i + 1 \in T
    <2>1. SUFFICES ASSUME i + 1 <= m PROVE f[i + 1] = g[i + 1]
      OBVIOUS
    <2>2. f[i] = g[i] /\ i + 1 \in 0..m /\ i + 1 \in 0..n /\ i + 1 # 0 /\ (i + 1) - 1 = i
          /\ s[i + 1] = t[i + 1]
      BY <1>4, <2>1
    <2>3. f[i + 1] = IF s[i + 1] \in Z THEN Append(f[i], s[i + 1]) ELSE f[i]
      BY <1>1, <2>2
    <2>4. g[i + 1] = IF t[i + 1] \in Z THEN Append(g[i], t[i + 1]) ELSE g[i]
      BY <1>2, <2>2
    <2> QED BY <2>2, <2>3, <2>4
  <1> HIDE DEF T
  <1>5. \A i \in Nat : i \in T
    BY <1>3, <1>4, Induction
  <1>6. m \in T
    BY <1>5
  <1> QED BY <1>6 DEF T

\* What is selected is computed as Chosen computes it.
LEMMA SelectedBy ==
  ASSUME NEW M, NEW s \in Seq(M), NEW Z
  PROVE  \E f : Selects(f, s, Z, Len(s)) /\ Selected(s, Z) = f[Len(s)]
  <1>1. Len(s) \in Nat
    OBVIOUS
  <1>2. \E f : Selects(f, s, Z, Len(s))
    BY <1>1, SelectsExists
  <1> QED BY <1>2 DEF Selected

\* Of no message none is selected.
LEMMA SelectedNone ==
  ASSUME NEW Z
  PROVE  Selected(<<>>, Z) = <<>>
  <1>1. <<>> \in Seq({}) /\ Len(<<>>) = 0
    OBVIOUS
  <1>2. PICK f : Selects(f, <<>>, Z, 0) /\ Selected(<<>>, Z) = f[0]
    BY <1>1, SelectedBy
  <1> QED BY <1>2 DEF Selects

\* One more message, behind the others.
LEMMA SelectedAppend ==
  ASSUME NEW M, NEW s \in Seq(M), NEW x \in M, NEW Z
  PROVE  Selected(Append(s, x), Z) = IF x \in Z THEN Append(Selected(s, Z), x) ELSE Selected(s, Z)
  <1> DEFINE t == Append(s, x)
             n == Len(s)
  <1>1. /\ t \in Seq(M) /\ Len(t) = n + 1 /\ n \in Nat /\ t[n + 1] = x
        /\ \A i \in 1..n : s[i] = t[i]
    OBVIOUS
  <1>2. PICK f : Selects(f, s, Z, n) /\ Selected(s, Z) = f[n]
    BY SelectedBy
  <1>3. PICK g : Selects(g, t, Z, n + 1) /\ Selected(t, Z) = g[n + 1]
    BY <1>1, SelectedBy
  <1> HIDE DEF t, n
  <1>4. f[n] = g[n]
    <2>1. n + 1 \in Nat /\ n <= n + 1
      BY <1>1
    <2> QED BY <1>1, <1>2, <1>3, <2>1, SelectsUnique
  <1>5. g[n + 1] = IF t[n + 1] \in Z THEN Append(g[n], t[n + 1]) ELSE g[n]
    <2>1. n + 1 \in 0..(n + 1) /\ n + 1 # 0 /\ (n + 1) - 1 = n
      BY <1>1
    <2> QED BY <1>3, <2>1 DEF Selects
  <1> QED BY <1>1, <1>2, <1>3, <1>4, <1>5 DEF t

\* A sequence of messages is empty or another one with a message behind it.
LEMMA LastOne ==
  ASSUME NEW M, NEW n \in Nat, NEW s \in Seq(M), Len(s) = n + 1
  PROVE  \E t \in Seq(M), x \in M : Len(t) = n /\ s = Append(t, x)
  <1>1. s # <<>>
    OBVIOUS
  <1>2. PICK t \in Seq(M), x \in M : s = Append(t, x)
    BY <1>1, SequenceEmptyOrAppend
  <1> QED BY <1>2

\* Messages are selected, and in their order.
LEMMA SelectedType ==
  ASSUME NEW M, NEW Z, NEW s \in Seq(M)
  PROVE  Selected(s, Z) \in Seq(M \cap Z) /\ Len(Selected(s, Z)) <= Len(s)
  <1> DEFINE T == {n \in Nat : \A t \in Seq(M) : Len(t) = n =>
                     Selected(t, Z) \in Seq(M \cap Z) /\ Len(Selected(t, Z)) <= n}
  <1>1. 0 \in T
    <2>1. \A t \in Seq(M) : Len(t) = 0 => t = <<>>
      OBVIOUS
    <2> QED BY <2>1, SelectedNone
  <1>2. ASSUME NEW n \in Nat, n \in T PROVE n + 1 \in T
    <2>1. SUFFICES ASSUME NEW t \in Seq(M), Len(t) = n + 1
                   PROVE  Selected(t, Z) \in Seq(M \cap Z) /\ Len(Selected(t, Z)) <= n + 1
      OBVIOUS
    <2>2. t # <<>>
      BY <2>1
    <2>3. PICK u \in Seq(M), x \in M : Len(u) = n /\ t = Append(u, x)
      <3>1. PICK u \in Seq(M), x \in M : t = Append(u, x)
        BY <2>2, SequenceEmptyOrAppend
      <3>2. Len(u) + 1 = n + 1 /\ Len(u) \in Nat
        BY <2>1, <3>1
      <3> QED BY <3>1, <3>2
    <2>4. Selected(u, Z) \in Seq(M \cap Z) /\ Len(Selected(u, Z)) <= n
      BY <1>2, <2>3
    <2>5. Selected(t, Z) = IF x \in Z THEN Append(Selected(u, Z), x) ELSE Selected(u, Z)
      BY <2>3, SelectedAppend
    <2> QED BY <2>4, <2>5
  <1> HIDE DEF T
  <1>3. \A n \in Nat : n \in T
    BY <1>1, <1>2, Induction
  <1> QED BY <1>3 DEF T

\* One more message, before the others.
Before(x, Z, t) == IF x \in Z THEN <<x>> \o t ELSE t
LEMMA SelectedFirst ==
  ASSUME NEW M, NEW Z, NEW x \in M, NEW s \in Seq(M)
  PROVE  Selected(<<x>> \o s, Z) = Before(x, Z, Selected(s, Z))
  <1> DEFINE T == {n \in Nat : \A t \in Seq(M) : Len(t) = n =>
                     Selected(<<x>> \o t, Z) = Before(x, Z, Selected(t, Z))}
  <1>1. 0 \in T
    <2>1. \A t \in Seq(M) : Len(t) = 0 => t = <<>>
      OBVIOUS
    <2>2. <<x>> \o <<>> = Append(<<>>, x) /\ <<>> \in Seq(M) /\ Append(<<>>, x) = <<x>>
      OBVIOUS
    <2>3. Selected(Append(<<>>, x), Z) = IF x \in Z THEN Append(<<>>, x) ELSE <<>>
      <3>1. Selected(Append(<<>>, x), Z) = IF x \in Z THEN Append(Selected(<<>>, Z), x) ELSE Selected(<<>>, Z)
        BY <2>2, SelectedAppend
      <3> QED BY <3>1, SelectedNone
    <2>4. Before(x, Z, <<>>) = IF x \in Z THEN Append(<<>>, x) ELSE <<>>
      BY <2>2 DEF Before
    <2>5. Selected(<<x>> \o <<>>, Z) = Before(x, Z, Selected(<<>>, Z))
      BY <2>2, <2>3, <2>4, SelectedNone
    <2> QED BY <2>1, <2>5
  <1>2. ASSUME NEW n \in Nat, n \in T PROVE n + 1 \in T
    <2>1. SUFFICES ASSUME NEW t \in Seq(M), Len(t) = n + 1
                   PROVE  Selected(<<x>> \o t, Z) = Before(x, Z, Selected(t, Z))
      OBVIOUS
    <2>2. PICK u \in Seq(M), y \in M : Len(u) = n /\ t = Append(u, y)
      BY <2>1, LastOne
    <2>3. <<x>> \o t = Append(<<x>> \o u, y) /\ <<x>> \o u \in Seq(M)
      BY <2>2
    <2>4. Selected(<<x>> \o u, Z) = Before(x, Z, Selected(u, Z))
      BY <1>2, <2>2
    <2>5. Selected(u, Z) \in Seq(M)
      <3>1. Selected(u, Z) \in Seq(M \cap Z)
        BY SelectedType
      <3> QED BY <3>1, M \cap Z \subseteq M, SeqMonotonic
    <2>6. Before(x, Z, Append(Selected(u, Z), y)) = Append(Before(x, Z, Selected(u, Z)), y)
      BY <2>5 DEF Before
    <2>7. Selected(t, Z) = IF y \in Z THEN Append(Selected(u, Z), y) ELSE Selected(u, Z)
      BY <2>2, SelectedAppend
    <2>8. Selected(<<x>> \o t, Z) = IF y \in Z THEN Append(Selected(<<x>> \o u, Z), y)
                                   ELSE Selected(<<x>> \o u, Z)
      <3> DEFINE v == <<x>> \o u
      <3>1. v \in Seq(M) /\ <<x>> \o t = Append(v, y)
        BY <2>3
      <3> HIDE DEF v
      <3>2. Selected(Append(v, y), Z) = IF y \in Z THEN Append(Selected(v, Z), y) ELSE Selected(v, Z)
        BY <2>2, <3>1, SelectedAppend
      <3> QED BY <3>1, <3>2 DEF v
    <2> QED BY <2>4, <2>6, <2>7, <2>8
  <1> HIDE DEF T
  <1>3. \A n \in Nat : n \in T
    BY <1>1, <1>2, Induction
  <1>4. Len(s) \in T
    BY <1>3
  <1> QED BY <1>4 DEF T

-----------------------------------------------------------------------------
(***************************************************************************)
(* What is sent, and to whom it goes.                                      *)
(***************************************************************************)
Sent == Samples \cup Answers
Queued == {msg \in Sent : IsQueued(msg)}
Packets == {msg \in Sent : IsPacket(msg)}

\* What Chosen selects, for the two kinds.
LEMMA ChosenQueued ==
  ASSUME NEW s \in Seq(Sent)
  PROVE  Chosen(s, IsQueued) = Selected(s, Queued)
  <1> DEFINE Computes(f) ==
               f = [i \in 0..Len(s) |-> IF i = 0 THEN <<>>
                      ELSE IF IsQueued(s[i]) THEN Append(f[i - 1], s[i]) ELSE f[i - 1]]
  <1>1. Chosen(s, IsQueued) = (CHOOSE f : Computes(f))[Len(s)]
    BY DEF Chosen
  <1>2. \A i \in 0..Len(s) : i # 0 => (IsQueued(s[i]) <=> s[i] \in Queued)
    BY DEF Queued
  <1>3. \A f : Computes(f) <=> Selects(f, s, Queued, Len(s))
    BY <1>2 DEF Selects
  <1>4. PICK f : Selects(f, s, Queued, Len(s)) /\ Selected(s, Queued) = f[Len(s)]
    BY SelectedBy
  <1>5. \E g : Computes(g) /\ Chosen(s, IsQueued) = g[Len(s)]
    <2> HIDE DEF Computes
    <2> QED BY <1>1, <1>3, <1>4
  <1>6. PICK g : Selects(g, s, Queued, Len(s)) /\ Chosen(s, IsQueued) = g[Len(s)]
    BY <1>3, <1>5
  <1>7. Len(s) \in Nat /\ Len(s) <= Len(s)
    OBVIOUS
  <1>8. f[Len(s)] = g[Len(s)]
    BY <1>4, <1>6, <1>7, SelectsUnique
  <1> QED BY <1>4, <1>6, <1>8
LEMMA ChosenPackets ==
  ASSUME NEW s \in Seq(Sent)
  PROVE  Chosen(s, IsPacket) = Selected(s, Packets)
  <1> DEFINE Computes(f) ==
               f = [i \in 0..Len(s) |-> IF i = 0 THEN <<>>
                      ELSE IF IsPacket(s[i]) THEN Append(f[i - 1], s[i]) ELSE f[i - 1]]
  <1>1. Chosen(s, IsPacket) = (CHOOSE f : Computes(f))[Len(s)]
    BY DEF Chosen
  <1>2. \A i \in 0..Len(s) : i # 0 => (IsPacket(s[i]) <=> s[i] \in Packets)
    BY DEF Packets
  <1>3. \A f : Computes(f) <=> Selects(f, s, Packets, Len(s))
    BY <1>2 DEF Selects
  <1>4. PICK f : Selects(f, s, Packets, Len(s)) /\ Selected(s, Packets) = f[Len(s)]
    BY SelectedBy
  <1>5. \E g : Computes(g) /\ Chosen(s, IsPacket) = g[Len(s)]
    <2> HIDE DEF Computes
    <2> QED BY <1>1, <1>3, <1>4
  <1>6. PICK g : Selects(g, s, Packets, Len(s)) /\ Chosen(s, IsPacket) = g[Len(s)]
    BY <1>3, <1>5
  <1>7. Len(s) \in Nat /\ Len(s) <= Len(s)
    OBVIOUS
  <1>8. f[Len(s)] = g[Len(s)]
    BY <1>4, <1>6, <1>7, SelectsUnique
  <1> QED BY <1>4, <1>6, <1>8

\* A response has a number, its own, and neither a method nor a subscription.
LEMMA AnswerFields ==
  ASSUME NEW n \in 1..MaxRequests
  PROVE  /\ GetU32(Answer(n), Seqno) = Result(OK, n)
         /\ GetStr(Answer(n), Method).err # OK /\ GetU32(Answer(n), SubId).err # OK
  <1>1. GetU32(Answer(n), Seqno) = Result(OK, n)
    BY NumbersFit
  <1>2. Len(Answer(n)) = 1 /\ Answer(n)[1].name = Seqno
    BY DEF Answer, AddU32, AddS64, Field
  <1>3. Seqno # Method /\ Seqno # SubId
    <2>1. Len(Seqno) = 2 /\ Len(Method) = 1 /\ Len(SubId) = 1
      BY DEF Seqno, Method, SubId
    <2> QED BY <2>1
  <1>4. Find(Answer(n), Method) = Null /\ Find(Answer(n), SubId) = Null
    <2>1. DOMAIN Answer(n) = {1}
      BY <1>2 DEF Answer
    <2>2. ~IsThere(Answer(n), Method) /\ ~IsThere(Answer(n), SubId)
      BY <1>2, <1>3, <2>1 DEF IsThere
    <2> QED BY <2>2 DEF Find
  <1>5. Null.type = 0 /\ STR = 3 /\ S64 = 2
    BY DEF Null, Field, STR, S64
  <1>6. GetStr(Answer(n), Method).err # OK
    BY <1>4, <1>5 DEF GetStr, FieldString, OfType, Result, OK, FieldNotFound
  <1>7. GetS64(Answer(n), SubId) = Result(FieldNotFound, 0)
    BY <1>4, <1>5 DEF GetS64, OfType
  <1>8. GetU32(Answer(n), SubId).err # OK
    BY <1>7 DEF GetU32, GetRange, Result, OK, FieldNotFound
  <1> QED BY <1>1, <1>6, <1>8

\* Responses to different requests are different, and none is like a message that
\* the server sends of its own accord; what has a method is no response.
LEMMA WhatIsSent ==
  /\ \A m, n \in 1..MaxRequests : Answer(m) = Answer(n) => m = n
  /\ \A msg \in Answers : msg \notin Samples /\ msg \notin Queued /\ msg \notin Packets
  /\ \A msg \in Sent : GetU32(msg, Seqno).err = OK <=> msg \in Answers
  /\ \A msg \in Sent : GetStr(msg, Method).err = OK <=> msg \in Samples
  /\ \A msg \in Samples : msg \in Queued <=> GetU32(msg, SubId).err # OK
  /\ \A msg \in Packets : GetU32(msg, SubId).err = OK /\ Packet(msg) \in Entries
  <1>1. \A n \in 1..MaxRequests : Result(OK, n).value = n /\ Result(OK, n).err = OK
    BY DEF Result
  <1>2. \A msg \in Answers : /\ GetU32(msg, Seqno).err = OK /\ GetStr(msg, Method).err # OK
                             /\ GetU32(msg, SubId).err # OK
    BY <1>1, AnswerFields DEF Answers
  <1>3. \A m, n \in 1..MaxRequests : Answer(m) = Answer(n) => m = n
    BY <1>1, AnswerFields
  <1>4. \A msg \in Packets : GetU32(msg, SubId).err = OK
    BY DEF Packets, IsPacket, IsFor, Result
  <1>5. \A msg \in Answers : msg \notin Samples
    BY <1>2, SamplesAreCalls
  <1>6. \A msg \in Answers : msg \notin Queued /\ msg \notin Packets
    BY <1>2, <1>4 DEF Queued, IsQueued
  <1>7. \A msg \in Sent : GetU32(msg, Seqno).err = OK <=> msg \in Answers
    BY <1>2, SamplesAreCalls DEF Sent
  <1>8. \A msg \in Sent : GetStr(msg, Method).err = OK <=> msg \in Samples
    BY <1>2, SamplesAreCalls DEF Sent
  <1>9. \A msg \in Samples : msg \in Queued <=> GetU32(msg, SubId).err # OK
    BY SamplesAreCalls DEF Sent, Queued, IsQueued
  <1>10. \A msg \in Packets : msg \in Samples /\ IsPacket(msg)
    BY <1>6 DEF Packets, Sent
  <1> QED BY <1>3, <1>4, <1>5, <1>6, <1>7, <1>8, <1>9, <1>10, PacketsAreEntries

-----------------------------------------------------------------------------
(***************************************************************************)
(* Parts of sequences.                                                     *)
(***************************************************************************)
\* What is behind the first n elements.
After(s, n) == SubSeq(s, n + 1, Len(s))

\* Its elements, and those before.
LEMMA Parts ==
  ASSUME NEW X, NEW s \in Seq(X), NEW n \in 0..Len(s)
  PROVE  /\ Len(s) \in Nat
         /\ After(s, n) \in Seq(X) /\ Len(After(s, n)) = Len(s) - n
         /\ \A i \in 1..(Len(s) - n) : After(s, n)[i] = s[n + i]
         /\ SubSeq(s, 1, n) \in Seq(X) /\ Len(SubSeq(s, 1, n)) = n
         /\ \A i \in 1..n : SubSeq(s, 1, n)[i] = s[i]
  <1>1. Len(s) \in Nat /\ n \in Nat /\ n <= Len(s) /\ \A i \in 1..Len(s) : s[i] \in X
    BY LenProperties
  <1>2. /\ n + 1 \in Int /\ Len(s) \in Int
        /\ \A i \in (n + 1)..Len(s) : s[i] \in X
        /\ \A i \in 1..n : s[i] \in X
    BY <1>1
  <1>3. /\ After(s, n) \in Seq(X)
        /\ Len(After(s, n)) = IF n + 1 <= Len(s) THEN Len(s) - (n + 1) + 1 ELSE 0
        /\ \A i \in 1..(Len(s) - (n + 1) + 1) : After(s, n)[i] = s[(n + 1) + i - 1]
    BY <1>2, SubSeqProperties DEF After
  <1>4. /\ SubSeq(s, 1, n) \in Seq(X)
        /\ Len(SubSeq(s, 1, n)) = IF 1 <= n THEN n - 1 + 1 ELSE 0
        /\ \A i \in 1..(n - 1 + 1) : SubSeq(s, 1, n)[i] = s[1 + i - 1]
    BY <1>1, <1>2, SubSeqProperties
  <1>5. Len(s) - (n + 1) + 1 = Len(s) - n /\ n - 1 + 1 = n
        /\ (n + 1 > Len(s) => Len(s) - n = 0) /\ (1 > n => n = 0)
    BY <1>1
  <1>6. \A i \in 1..(Len(s) - n) : (n + 1) + i - 1 = n + i
    BY <1>1
  <1>7. \A i \in 1..n : 1 + i - 1 = i
    BY <1>1
  <1>8. /\ Len(After(s, n)) = Len(s) - n
        /\ \A i \in 1..(Len(s) - n) : After(s, n)[i] = s[n + i]
    <2>1. Len(After(s, n)) = Len(s) - n
      <3>1. CASE n + 1 <= Len(s)
        BY <1>3, <1>5, <3>1
      <3>2. CASE ~(n + 1 <= Len(s))
        <4>1. Len(s) - n = 0
          BY <1>1, <3>2
        <4> QED BY <1>3, <3>2, <4>1
      <3> QED BY <3>1, <3>2
    <2>2. \A i \in 1..(Len(s) - n) : After(s, n)[i] = s[(n + 1) + i - 1]
      BY <1>3, <1>5
    <2> QED BY <1>6, <2>1, <2>2
  <1>9. Len(SubSeq(s, 1, n)) = n /\ \A i \in 1..n : SubSeq(s, 1, n)[i] = s[i]
    <2>1. Len(SubSeq(s, 1, n)) = n
      <3>1. CASE 1 <= n
        BY <1>4, <1>5, <3>1
      <3>2. CASE ~(1 <= n)
        <4>1. n = 0
          BY <1>1, <3>2
        <4> QED BY <1>4, <3>2, <4>1
      <3> QED BY <3>1, <3>2
    <2>2. \A i \in 1..n : SubSeq(s, 1, n)[i] = s[1 + i - 1]
      BY <1>4, <1>5
    <2> QED BY <1>7, <2>1, <2>2
  <1> QED BY <1>1, <1>3, <1>4, <1>8, <1>9

\* What is behind the first k of what is behind the first n.
LEMMA AfterAfter ==
  ASSUME NEW X, NEW s \in Seq(X), NEW n \in 0..Len(s), NEW k \in 0..(Len(s) - n)
  PROVE  n + k \in 0..Len(s) /\ After(After(s, n), k) = After(s, n + k)
  <1> DEFINE t == After(s, n)
             u == After(t, k)
             v == After(s, n + k)
  <1>1. Len(s) \in Nat /\ t \in Seq(X) /\ Len(t) = Len(s) - n /\ \A i \in 1..(Len(s) - n) : t[i] = s[n + i]
    BY Parts
  <1>2. n + k \in 0..Len(s) /\ n \in Nat /\ k \in Nat
    BY <1>1
  <1> HIDE DEF t
  <1>3. u \in Seq(X) /\ Len(u) = (Len(s) - n) - k /\ \A i \in 1..((Len(s) - n) - k) : u[i] = t[k + i]
    <2>1. k \in 0..Len(t)
      BY <1>1
    <2>2. Len(u) = Len(t) - k /\ \A i \in 1..(Len(t) - k) : u[i] = t[k + i]
      BY <1>1, <2>1, Parts
    <2>3. u \in Seq(X)
      BY <1>1, <2>1, Parts
    <2> HIDE DEF u
    <2> QED BY <1>1, <2>2, <2>3
  <1>4. v \in Seq(X) /\ Len(v) = Len(s) - (n + k) /\ \A i \in 1..(Len(s) - (n + k)) : v[i] = s[(n + k) + i]
    BY <1>2, Parts
  <1> HIDE DEF u, v
  <1>5. (Len(s) - n) - k = Len(s) - (n + k)
    BY <1>1, <1>2
  <1>6. \A i \in 1..((Len(s) - n) - k) : k + i \in 1..(Len(s) - n) /\ n + (k + i) = (n + k) + i
    BY <1>1, <1>2
  <1>7. ASSUME NEW i \in 1..Len(u) PROVE u[i] = v[i]
    <2>1. i \in 1..((Len(s) - n) - k) /\ i \in 1..(Len(s) - (n + k))
      BY <1>3, <1>5
    <2>2. u[i] = t[k + i] /\ v[i] = s[(n + k) + i]
      BY <1>3, <1>4, <2>1
    <2>3. t[k + i] = s[n + (k + i)] /\ n + (k + i) = (n + k) + i
      BY <1>1, <1>6, <2>1
    <2> QED BY <2>2, <2>3
  <1>8. u = v
    BY <1>3, <1>4, <1>5, <1>7, SeqEqual
  <1> QED BY <1>2, <1>8 DEF t, u, v

\* Something behind what is behind the first n.
LEMMA AfterConcat ==
  ASSUME NEW X, NEW s \in Seq(X), NEW c \in Seq(X), NEW n \in 0..Len(s)
  PROVE  n \in 0..Len(s \o c) /\ After(s, n) \o c = After(s \o c, n)
  <1> DEFINE t == After(s, n)
             u == t \o c
             v == After(s \o c, n)
  <1>1. /\ Len(s) \in Nat /\ t \in Seq(X) /\ Len(t) = Len(s) - n
        /\ \A i \in 1..(Len(s) - n) : t[i] = s[n + i]
    BY Parts
  <1>2. /\ s \o c \in Seq(X) /\ Len(s \o c) = Len(s) + Len(c) /\ Len(c) \in Nat
        /\ \A i \in 1..(Len(s) + Len(c)) : (s \o c)[i] = IF i <= Len(s) THEN s[i] ELSE c[i - Len(s)]
    BY ConcatProperties, LenProperties
  <1>3. n \in 0..Len(s \o c) /\ n \in Nat
    BY <1>1, <1>2
  <1> HIDE DEF t
  <1>4. /\ u \in Seq(X) /\ Len(u) = Len(t) + Len(c)
        /\ \A i \in 1..(Len(t) + Len(c)) : u[i] = IF i <= Len(t) THEN t[i] ELSE c[i - Len(t)]
    BY <1>1, ConcatProperties
  <1>5. /\ v \in Seq(X) /\ Len(v) = Len(s \o c) - n
        /\ \A i \in 1..(Len(s \o c) - n) : v[i] = (s \o c)[n + i]
    BY <1>2, <1>3, Parts
  <1> HIDE DEF u, v
  <1>6. Len(u) = Len(v) /\ Len(u) = (Len(s) - n) + Len(c)
    BY <1>1, <1>2, <1>3, <1>4, <1>5
  <1>7. ASSUME NEW i \in 1..Len(u) PROVE u[i] = v[i]
    <2>1. /\ n + i \in 1..(Len(s) + Len(c)) /\ i \in 1..(Len(s \o c) - n) /\ i \in 1..(Len(t) + Len(c))
          /\ i \in Nat /\ i >= 1
      BY <1>1, <1>2, <1>3, <1>6
    <2>2. v[i] = IF n + i <= Len(s) THEN s[n + i] ELSE c[(n + i) - Len(s)]
      BY <1>2, <1>5, <2>1
    <2>3. u[i] = IF i <= Len(s) - n THEN t[i] ELSE c[i - (Len(s) - n)]
      BY <1>1, <1>4, <2>1
    <2>4. /\ (i <= Len(s) - n <=> n + i <= Len(s)) /\ i - (Len(s) - n) = (n + i) - Len(s)
          /\ i <= Len(s) - n => i \in 1..(Len(s) - n)
      BY <1>1, <1>3, <2>1
    <2> QED BY <1>1, <2>2, <2>3, <2>4
  <1>8. u = v
    BY <1>4, <1>5, <1>6, <1>7, SeqEqual
  <1> QED BY <1>3, <1>8 DEF t, u, v

-----------------------------------------------------------------------------
(***************************************************************************)
(* Bytes. They are those of the messages that are under way, one behind    *)
(* the other, but for those that ReadMessage has read.                     *)
(***************************************************************************)
Bytes == 0..255

\* The bytes b are those of the messages ms, of which the k-th begins behind at[k].
Cut(b, ms, at) ==
  /\ at \in [1..(Len(ms) + 1) -> Nat] /\ at[1] = 0 /\ at[Len(ms) + 1] = Len(b)
  /\ \A k, l \in DOMAIN at : k <= l => at[k] <= at[l]
  /\ \A k \in DOMAIN ms :
       /\ at[k + 1] = at[k] + Len(Encode(ms[k]))
       /\ \A j \in 1..Len(Encode(ms[k])) : b[at[k] + j] = Encode(ms[k])[j]

\* What ReadBack says of one message.
LEMMA Written ==
  ASSUME NEW m \in Sent
  PROVE  /\ Encode(m) \in Seq(Bytes) /\ Len(Encode(m)) \in Nat /\ Len(Encode(m)) >= 4
         /\ Number(SubSeq(Encode(m), 1, 4)) = Len(Encode(m)) - 4
         /\ Decode(SubSeq(Encode(m), 5, Len(Encode(m)))) = [ok |-> TRUE, msg |-> m]
  BY ReadBack DEF Sent, Bytes

\* One more message is sent.
LEMMA CutAppend ==
  ASSUME NEW b \in Seq(Bytes), NEW ms \in Seq(Sent), NEW m \in Sent, NEW at, Cut(b, ms, at)
  PROVE  \E new : Cut(b \o Encode(m), Append(ms, m), new)
  <1> DEFINE n == Len(ms)
             len == Len(Encode(m))
             new == [k \in 1..(n + 2) |-> IF k = n + 2 THEN Len(b) + len ELSE at[k]]
             c == b \o Encode(m)
             msm == Append(ms, m)
  <1>0. Encode(m) \in Seq(Bytes) /\ len \in Nat
    BY Written
  <1>1. /\ n \in Nat /\ Len(b) \in Nat
        /\ Len(msm) = n + 1 /\ (n + 1) + 1 = n + 2 /\ DOMAIN msm = 1..(n + 1) /\ DOMAIN ms = 1..n
        /\ msm[n + 1] = m /\ \A k \in 1..n : msm[k] = ms[k] /\ ms[k] \in Sent
    OBVIOUS
  <1>2. /\ c \in Seq(Bytes) /\ Len(c) = Len(b) + len
        /\ \A i \in 1..Len(b) : c[i] = b[i]
        /\ \A j \in 1..len : c[Len(b) + j] = Encode(m)[j]
    BY <1>0
  <1>3. /\ at \in [1..(n + 1) -> Nat] /\ at[1] = 0 /\ at[n + 1] = Len(b)
        /\ \A k, l \in 1..(n + 1) : k <= l => at[k] <= at[l]
        /\ \A k \in 1..n : /\ at[k + 1] = at[k] + Len(Encode(ms[k]))
                           /\ \A j \in 1..Len(Encode(ms[k])) : b[at[k] + j] = Encode(ms[k])[j]
    BY <1>1 DEF Cut
  <1>4. \A k \in 1..n : Len(Encode(ms[k])) \in Nat
    BY <1>1, Written
  <1> HIDE DEF n, len, c, msm
  <1>5. /\ DOMAIN new = 1..(n + 2) /\ new[n + 2] = Len(b) + len
        /\ \A k \in 1..(n + 1) : new[k] = at[k] /\ at[k] \in Nat /\ at[k] <= Len(b)
    <2>1. \A k \in 1..(n + 1) : at[k] \in Nat /\ n + 1 \in 1..(n + 1) /\ k <= n + 1
      BY <1>1, <1>3
    <2>2. \A k \in 1..(n + 1) : k \in 1..(n + 2) /\ k # n + 2
      BY <1>1
    <2>3. n + 2 \in 1..(n + 2)
      BY <1>1
    <2>4. \A k \in 1..(n + 1) : at[k] <= Len(b)
      BY <1>3, <2>1
    <2> QED BY <2>1, <2>2, <2>3, <2>4
  <1> HIDE DEF new
  <1>6. new \in [1..(n + 2) -> Nat] /\ new[1] = 0
    <2>1. \A k \in 1..(n + 2) : k = n + 2 \/ k \in 1..(n + 1)
      BY <1>1
    <2>2. Len(b) + len \in Nat
      BY <1>0, <1>1
    <2>20. \A k \in 1..(n + 2) : new[k] \in Nat
      BY <1>5, <2>1, <2>2
    <2>3. new = [k \in 1..(n + 2) |-> new[k]]
      BY DEF new
    <2>4. 1 \in 1..(n + 1)
      BY <1>1
    <2> QED BY <1>3, <1>5, <2>20, <2>3, <2>4
  <1>7. \A k, l \in DOMAIN new : k <= l => new[k] <= new[l]
    <2>1. SUFFICES ASSUME NEW k \in 1..(n + 2), NEW l \in 1..(n + 2), k <= l PROVE new[k] <= new[l]
      BY <1>5
    <2>2. CASE l = n + 2
      <3>1. k = n + 2 \/ k \in 1..(n + 1)
        BY <1>1
      <3> QED BY <1>0, <1>1, <1>5, <2>2, <3>1
    <2>3. CASE l # n + 2
      <3>1. k \in 1..(n + 1) /\ l \in 1..(n + 1)
        BY <1>1, <2>1, <2>3
      <3> QED BY <1>3, <1>5, <2>1, <3>1
    <2> QED BY <2>2, <2>3
  <1>8. ASSUME NEW k \in 1..(n + 1)
        PROVE  /\ new[k + 1] = new[k] + Len(Encode(msm[k]))
               /\ \A j \in 1..Len(Encode(msm[k])) : c[new[k] + j] = Encode(msm[k])[j]
    <2>1. CASE k = n + 1
      <3>1. new[k] = Len(b) /\ k + 1 = n + 2 /\ msm[k] = m
        BY <1>1, <1>3, <1>5, <2>1
      <3> QED BY <1>2, <1>5, <3>1 DEF len
    <2>2. CASE k # n + 1
      <3>1. k \in 1..n /\ k + 1 \in 1..(n + 1) /\ msm[k] = ms[k]
        BY <1>1, <2>2
      <3>2. new[k] = at[k] /\ new[k + 1] = at[k + 1] /\ at[k + 1] <= Len(b) /\ at[k] \in Nat
        BY <1>5, <3>1
      <3>3. /\ at[k + 1] = at[k] + Len(Encode(ms[k])) /\ Len(Encode(ms[k])) \in Nat
            /\ \A j \in 1..Len(Encode(ms[k])) : b[at[k] + j] = Encode(ms[k])[j]
        BY <1>3, <1>4, <3>1
      <3>4. \A j \in 1..Len(Encode(ms[k])) : at[k] + j \in 1..Len(b)
        BY <1>1, <3>2, <3>3
      <3> QED BY <1>2, <3>1, <3>2, <3>3, <3>4
    <2> QED BY <2>1, <2>2
  <1>9. new[n + 2] = Len(c)
    BY <1>2, <1>5
  <1>10. Cut(c, msm, new)
    BY <1>1, <1>6, <1>7, <1>8, <1>9 DEF Cut
  <1> QED BY <1>10 DEF c, msm

\* The first message is read.
LEMMA CutFirst ==
  ASSUME NEW b \in Seq(Bytes), NEW ms \in Seq(Sent), NEW at, Cut(b, ms, at), ms # <<>>
  PROVE  LET len == Len(Encode(ms[1]))
         IN /\ ms[1] \in Sent /\ len \in Nat /\ len <= Len(b)
            /\ \A j \in 1..len : b[j] = Encode(ms[1])[j]
            /\ \E new : Cut(After(b, len), Tail(ms), new)
  <1> DEFINE n == Len(ms)
             len == Len(Encode(ms[1]))
             new == [k \in 1..n |-> at[k + 1] - len]
             c == After(b, len)
             rest == Tail(ms)
  <1>1. /\ n \in Nat /\ n >= 1 /\ Len(b) \in Nat /\ ms[1] \in Sent /\ DOMAIN ms = 1..n
        /\ Len(rest) = n - 1 /\ (n - 1) + 1 = n /\ DOMAIN rest = 1..(n - 1)
        /\ \A k \in 1..(n - 1) : rest[k] = ms[k + 1] /\ k + 1 \in 1..n
        /\ \A k \in 1..n : ms[k] \in Sent
    OBVIOUS
  <1>2. \A k \in 1..n : Len(Encode(ms[k])) \in Nat
    BY <1>1, Written
  <1>3. /\ at \in [1..(n + 1) -> Nat] /\ at[1] = 0 /\ at[n + 1] = Len(b)
        /\ \A k, l \in 1..(n + 1) : k <= l => at[k] <= at[l]
        /\ \A k \in 1..n : /\ at[k + 1] = at[k] + Len(Encode(ms[k]))
                           /\ \A j \in 1..Len(Encode(ms[k])) : b[at[k] + j] = Encode(ms[k])[j]
    BY <1>1 DEF Cut
  <1>4. at[2] = len /\ len \in Nat /\ 1 \in 1..n /\ 2 \in 1..(n + 1) /\ \A j \in 1..len : b[j] = Encode(ms[1])[j]
    <2>1. 1 \in 1..n /\ 1 + 1 = 2 /\ 2 \in 1..(n + 1)
      BY <1>1
    <2>2. len \in Nat
      BY <1>2, <2>1
    <2>3. at[2] = at[1] + len /\ \A j \in 1..len : b[at[1] + j] = Encode(ms[1])[j]
      BY <1>3, <2>1
    <2> QED BY <1>3, <2>1, <2>2, <2>3
  <1>5. \A k \in 1..n : k + 1 \in 1..(n + 1) /\ 2 <= k + 1 /\ at[k + 1] \in Nat /\ at[k + 1] >= len
    <2>1. \A k \in 1..n : k + 1 \in 1..(n + 1) /\ 2 <= k + 1
      BY <1>1
    <2> QED BY <1>3, <1>4, <2>1
  <1>6. len <= Len(b) /\ n \in 1..n
    <2>1. n \in 1..n
      BY <1>1
    <2> QED BY <1>3, <1>5, <2>1
  <1> HIDE DEF n, len, rest
  <1>7. /\ c \in Seq(Bytes) /\ Len(c) = Len(b) - len
        /\ \A i \in 1..(Len(b) - len) : c[i] = b[len + i]
    <2>1. len \in 0..Len(b)
      BY <1>1, <1>4, <1>6
    <2> QED BY <2>1, Parts
  <1>8. DOMAIN new = 1..n /\ \A k \in 1..n : new[k] = at[k + 1] - len /\ new[k] \in Nat
    BY <1>4, <1>5
  <1>9. new \in [1..n -> Nat] /\ new[1] = 0 /\ new[n] = Len(b) - len
    <2>1. new = [k \in 1..n |-> new[k]]
      OBVIOUS
    <2>2. new[1] = at[2] - len
      BY <1>4, <1>8
    <2>3. new[n] = at[n + 1] - len
      BY <1>6, <1>8
    <2> QED BY <1>3, <1>4, <1>8, <2>1, <2>2, <2>3
  <1> HIDE DEF new, c
  <1>10. \A k, l \in DOMAIN new : k <= l => new[k] <= new[l]
    <2>1. SUFFICES ASSUME NEW k \in 1..n, NEW l \in 1..n, k <= l PROVE new[k] <= new[l]
      BY <1>8
    <2>2. k + 1 \in 1..(n + 1) /\ l + 1 \in 1..(n + 1) /\ k + 1 <= l + 1
      BY <1>1, <2>1
    <2>3. at[k + 1] <= at[l + 1] /\ at[k + 1] \in Nat /\ at[l + 1] \in Nat
      BY <1>3, <2>2
    <2>4. PICK x \in Nat, y \in Nat : x = at[k + 1] /\ y = at[l + 1]
      BY <2>3
    <2>5. x <= y /\ new[k] = x - len /\ new[l] = y - len /\ len \in Nat
      BY <1>4, <1>8, <2>3, <2>4
    <2> QED BY <2>5
  <1>11. ASSUME NEW k \in 1..(n - 1)
         PROVE  /\ new[k + 1] = new[k] + Len(Encode(rest[k]))
                /\ \A j \in 1..Len(Encode(rest[k])) : c[new[k] + j] = Encode(rest[k])[j]
    <2>1. k \in 1..n /\ k + 1 \in 1..n /\ rest[k] = ms[k + 1]
      BY <1>1
    <2> DEFINE l == Len(Encode(rest[k]))
    <2>2. /\ l \in Nat /\ at[(k + 1) + 1] = at[k + 1] + l
          /\ \A j \in 1..l : b[at[k + 1] + j] = Encode(rest[k])[j]
      BY <1>2, <1>3, <2>1
    <2> HIDE DEF l
    <2>3. /\ new[k] = at[k + 1] - len /\ new[k + 1] = at[(k + 1) + 1] - len
          /\ at[k + 1] \in Nat /\ at[k + 1] >= len /\ at[(k + 1) + 1] <= Len(b)
      <3>1. (k + 1) + 1 \in 1..(n + 1) /\ n + 1 \in 1..(n + 1) /\ (k + 1) + 1 <= n + 1
        BY <1>1, <2>1
      <3> QED BY <1>3, <1>5, <1>8, <2>1, <3>1
    <2>4. ASSUME NEW j \in 1..l
          PROVE  new[k] + j \in 1..(Len(b) - len) /\ len + (new[k] + j) = at[k + 1] + j
      <3>1. at[k + 1] + l <= Len(b) /\ Len(b) \in Nat /\ len \in Nat
        BY <1>1, <1>4, <2>2, <2>3
      <3>2. l \in Nat /\ new[k] = at[k + 1] - len /\ at[k + 1] \in Nat /\ at[k + 1] >= len
        BY <2>2, <2>3
      <3>3. PICK x \in Nat : x = at[k + 1]
        BY <3>2
      <3>4. x + l <= Len(b) /\ x >= len /\ new[k] = x - len
        BY <3>1, <3>2, <3>3
      <3>5. j \in Nat /\ 1 <= j /\ j <= l
        BY <3>2
      <3>6. (x - len) + j \in 1..(Len(b) - len) /\ len + ((x - len) + j) = x + j
        BY <3>1, <3>2, <3>4, <3>5
      <3> QED BY <3>3, <3>4, <3>6
    <2>5. \A j \in 1..l : c[new[k] + j] = b[at[k + 1] + j]
      BY <1>7, <2>4
    <2>6. new[k + 1] = new[k] + l
      BY <1>4, <2>2, <2>3
    <2> QED BY <2>2, <2>5, <2>6 DEF l
  <1>12. Cut(c, rest, new)
    BY <1>1, <1>7, <1>9, <1>10, <1>11 DEF Cut
  <1> QED BY <1>1, <1>4, <1>6, <1>12 DEF c, rest, len

-----------------------------------------------------------------------------
(***************************************************************************)
(* The inductive invariant, part by part.                                  *)
(***************************************************************************)
Readers == [at : {"length", "body", "message"}, len : Int, buf : Seq(Bytes), msg : Nat]
Addresses == Nat \ {0}

\* Types, and that addresses are given once.
TypeInv ==
  /\ onWire \in Seq(Sent) /\ sent \in 0..MaxSent
  /\ reader \in Readers /\ (reader.msg # 0 <=> reader.at = "message")
  /\ last \in Nat /\ DOMAIN heap \subseteq 1..last /\ \A a \in DOMAIN heap : heap[a] \in Sent
  /\ qBuffer \in Seq(Addresses) /\ process \in Nat /\ answer \in Nat
  /\ seq \in 0..MaxRequests /\ response \in [seq : Nat, flag : BOOLEAN, msg : Nat]
  /\ owed \in [process : Seq(Sent), kodi : Seq(Entries)]

\* What is on its way in bytes: b is what it was before ReadMessage has read n of
\* them, which are the length and the beginning of the first message.
Lies(b, at, n) ==
  /\ Cut(b, onWire, at) /\ n <= Len(b) /\ wire = After(b, n)
  /\ reader.at # "body" => n = 0 /\ reader.buf = <<>>
  /\ reader.at = "body" =>
       /\ onWire # <<>> /\ reader.len = Len(Encode(onWire[1])) - 4 /\ n = 4 + Len(reader.buf)
       /\ Len(reader.buf) <= reader.len /\ \A j \in 1..Len(reader.buf) : reader.buf[j] = b[4 + j]
WireInv == \E b \in Seq(Bytes), n \in Nat : \E at : Lies(b, at, n)

\* OneOwner, place by place.
Single == {reader.msg, process, response.msg, answer}
Own ==
  /\ ~misfreed
  /\ \A a \in DOMAIN heap : a \in Single \/ a \in forgotten \/ \E k \in DOMAIN qBuffer : qBuffer[k] = a
  /\ \A a \in Single : a # 0 => a \in DOMAIN heap /\ \A k \in DOMAIN qBuffer : qBuffer[k] # a
  /\ \A k \in DOMAIN qBuffer : qBuffer[k] \in DOMAIN heap
  /\ \A k, l \in DOMAIN qBuffer : qBuffer[k] = qBuffer[l] => k = l
  /\ reader.msg # 0 => reader.msg \notin {process, response.msg, answer}
  /\ process # 0 => process \notin {response.msg, answer}
  /\ response.msg # 0 => response.msg # answer

\* What has been forgotten is an answer that no place holds any more.
Held == {a \in Addresses : a \in Single \/ \E k \in DOMAIN qBuffer : qBuffer[k] = a}
Forgot ==
  \A a \in forgotten :
    a \in DOMAIN heap /\ a \notin Held /\ heap[a] \in Answers /\ GetBin(heap[a], Data).err # OK

\* The messages that have not been handed over.
Transit == InReader \o onWire

\* The request that waits is the last one; its response is on its way once at
\* most, and no longer if it has been taken.
Responses ==
  /\ response.seq \in {0, seq}
  /\ response.msg # 0 => seq # 0 /\ Content(response.msg) = Answer(seq)
  /\ answer # 0 => seq # 0 /\ Content(answer) = Answer(seq) /\ response = NoResponse
  /\ asked => seq # 0 /\ response.msg = 0
  /\ \A k \in DOMAIN Transit : Transit[k] \in Answers => \E n \in 1..seq : Transit[k] = Answer(n)
  /\ \A k, l \in DOMAIN Transit : Transit[k] = Transit[l] /\ Transit[k] \in Answers => k = l
  /\ asked \/ response.msg # 0 => \A k \in DOMAIN Transit : Transit[k] # Answer(seq)

\* HandedOnAsSent, and that no more is owed than was sent.
InQueue == [i \in DOMAIN qBuffer |-> Content(qBuffer[i])]
ForProcess == InProcess \o InQueue
AsPackets(msgs) == [i \in DOMAIN msgs |-> Packet(msgs[i])]
Order ==
  /\ ForProcess \o Selected(Transit, Queued) = owed.process
  /\ buffer \o AsPackets(Selected(Transit, Packets)) = owed.kodi
  /\ Len(owed.process) <= sent /\ Len(owed.kodi) <= sent

MInv == TypeInv /\ WireInv /\ IInv /\ QP!IInv /\ Own /\ Forgot /\ Responses /\ Order

-----------------------------------------------------------------------------
(***************************************************************************)
(* The way of the bytes.                                                   *)
(***************************************************************************)
\* r is a part of b, behind the first four; k more are read.
LEMMA ReadsOn ==
  ASSUME NEW X, NEW b \in Seq(X), NEW r \in Seq(X), NEW n \in 0..Len(b), NEW k \in 0..(Len(b) - n),
         n = 4 + Len(r), \A j \in 1..Len(r) : r[j] = b[4 + j]
  PROVE  /\ r \o SubSeq(After(b, n), 1, k) \in Seq(X)
         /\ Len(r \o SubSeq(After(b, n), 1, k)) = Len(r) + k
         /\ \A j \in 1..(Len(r) + k) : (r \o SubSeq(After(b, n), 1, k))[j] = b[4 + j]
  <1> DEFINE t == After(b, n)
             p == SubSeq(t, 1, k)
             got == r \o p
  <1>1. PICK x \in Nat : x = Len(r)
    OBVIOUS
  <1>2. Len(b) \in Nat /\ n \in Nat /\ n = 4 + x /\ k \in Nat
    BY <1>1
  <1>3. t \in Seq(X) /\ Len(t) = Len(b) - n /\ \A i \in 1..(Len(b) - n) : t[i] = b[n + i]
    BY Parts
  <1> HIDE DEF t
  <1>4. p \in Seq(X) /\ Len(p) = k /\ \A i \in 1..k : p[i] = t[i]
    <2>1. k \in 0..Len(t)
      BY <1>3
    <2> QED BY <1>3, <2>1, Parts
  <1> HIDE DEF p
  <1>5. /\ got \in Seq(X) /\ Len(got) = x + k
        /\ \A i \in 1..(x + k) : got[i] = IF i <= x THEN r[i] ELSE p[i - x]
    <2>1. r \in Seq(X) /\ p \in Seq(X)
      BY <1>4
    <2>2. /\ got \in Seq(X) /\ Len(got) = Len(r) + Len(p)
          /\ \A i \in 1..(Len(r) + Len(p)) : got[i] = IF i <= Len(r) THEN r[i] ELSE p[i - Len(r)]
      BY <2>1, ConcatProperties
    <2>3. Len(r) = x /\ Len(p) = k
      BY <1>1, <1>4
    <2> HIDE DEF got
    <2> QED BY <2>2, <2>3
  <1> HIDE DEF got
  <1>6. ASSUME NEW j \in 1..(x + k) PROVE got[j] = b[4 + j]
    <2>1. CASE j <= x
      <3>1. j \in 1..Len(r)
        BY <1>1, <2>1
      <3> QED BY <1>5, <2>1, <3>1
    <2>2. CASE ~(j <= x)
      <3>1. PICK i \in Nat : i = j - x
        BY <1>2, <2>2
      <3>2. i \in 1..k /\ n + i = 4 + j
        BY <1>1, <1>2, <2>2, <3>1
      <3>3. i \in 1..(Len(b) - n)
        BY <1>2, <3>2
      <3>4. got[j] = p[i]
        BY <1>5, <2>2, <3>1
      <3>5. p[i] = t[i] /\ t[i] = b[n + i]
        BY <1>3, <1>4, <3>2, <3>3
      <3> QED BY <3>2, <3>4, <3>5
    <2> QED BY <2>1, <2>2
  <1> QED BY <1>1, <1>5, <1>6 DEF got, p, t

\* A message is sent.
LEMMA WireSends ==
  ASSUME TypeInv, WireInv, NEW m \in Sent, Sends(m), reader' = reader
  PROVE  WireInv'
  <1>1. PICK b \in Seq(Bytes), n \in Nat : \E at : Lies(b, at, n)
    BY DEF WireInv
  <1>2. PICK at : Lies(b, at, n)
    BY <1>1
  <1> DEFINE c == Encode(m)
  <1>3. c \in Seq(Bytes) /\ Len(c) \in Nat
    BY Written
  <1>4. /\ Cut(b, onWire, at) /\ n <= Len(b) /\ wire = After(b, n)
        /\ onWire \in Seq(Sent) /\ reader \in Readers /\ Len(b) \in Nat
    BY <1>2 DEF Lies, TypeInv
  <1>5. wire' = wire \o c /\ onWire' = Append(onWire, m)
    BY DEF Sends
  <1> HIDE DEF c
  <1>6. PICK new : Cut(b \o c, Append(onWire, m), new)
    BY <1>4, CutAppend DEF c
  <1>7. /\ b \o c \in Seq(Bytes) /\ Len(b \o c) = Len(b) + Len(c)
        /\ \A i \in 1..Len(b) : (b \o c)[i] = b[i]
    BY <1>3
  <1>8. After(b, n) \o c = After(b \o c, n) /\ n <= Len(b \o c)
    <2>1. n \in 0..Len(b)
      BY <1>4
    <2>2. n \in 0..Len(b \o c) /\ After(b, n) \o c = After(b \o c, n)
      BY <1>3, <2>1, AfterConcat
    <2>3. Len(b \o c) \in Nat
      BY <1>3, <1>4, <1>7
    <2> QED BY <2>2, <2>3
  <1>9. onWire # <<>> => onWire' # <<>> /\ onWire'[1] = onWire[1]
    <2>1. onWire \in Seq(Sent) /\ m \in Sent
      BY <1>4
    <2> QED BY <1>5, <2>1
  <1>10. Lies(b \o c, new, n)'
    <2>1. Cut(b \o c, onWire', new) /\ n <= Len(b \o c) /\ wire' = After(b \o c, n)
      BY <1>4, <1>5, <1>6, <1>8
    <2>2. reader.at # "body" => n = 0 /\ reader.buf = <<>>
      BY <1>2 DEF Lies
    <2>3. reader.at = "body" =>
            /\ onWire # <<>> /\ reader.len = Len(Encode(onWire[1])) - 4 /\ n = 4 + Len(reader.buf)
            /\ Len(reader.buf) <= reader.len /\ \A j \in 1..Len(reader.buf) : reader.buf[j] = b[4 + j]
      BY <1>2 DEF Lies
    <2>4. reader.at = "body" => \A j \in 1..Len(reader.buf) : 4 + j \in 1..Len(b)
      <3>1. reader.buf \in Seq(Bytes)
        BY <1>4 DEF Readers
      <3> QED BY <1>4, <2>3, <3>1
    <2>5. reader.at = "body" => \A j \in 1..Len(reader.buf) : reader.buf[j] = (b \o c)[4 + j]
      BY <1>7, <2>3, <2>4
    <2> QED BY <1>9, <2>1, <2>2, <2>3, <2>5 DEF Lies
  <1> QED BY <1>7, <1>10 DEF WireInv

\* ReadMessage reads the length.
LEMMA WireLength ==
  ASSUME TypeInv, WireInv, ReadLength
  PROVE  WireInv' /\ reader' \in Readers /\ reader'.msg = reader.msg /\ reader'.at = "body"
  <1>1. PICK b \in Seq(Bytes), n \in Nat : \E at : Lies(b, at, n)
    BY DEF WireInv
  <1>2. PICK at : Lies(b, at, n)
    BY <1>1
  <1>3. /\ reader.at = "length" /\ Len(wire) >= 4 /\ wire' = SubSeq(wire, 5, Len(wire))
        /\ reader' = [reader EXCEPT !.at = "body", !.len = Number(SubSeq(wire, 1, 4))]
        /\ onWire' = onWire
    BY DEF ReadLength
  <1>4. reader \in Readers /\ onWire \in Seq(Sent) /\ (reader.msg # 0 <=> reader.at = "message")
    BY DEF TypeInv
  <1>5. Cut(b, onWire, at) /\ n = 0 /\ wire = b
    <2>1. Cut(b, onWire, at) /\ n = 0 /\ wire = After(b, 0)
      BY <1>2, <1>3 DEF Lies
    <2> QED BY <2>1, SubSeqFull DEF After
  <1>6. onWire # <<>>
    <2>1. ASSUME onWire = <<>> PROVE FALSE
      <3>1. at[1] = 0 /\ at[1] = Len(b)
        BY <1>5, <2>1 DEF Cut
      <3> QED BY <1>3, <1>5, <3>1
    <2> QED BY <2>1
  <1> DEFINE s == Encode(onWire[1])
  <1>7. onWire[1] \in Sent /\ Len(s) <= Len(b) /\ \A j \in 1..Len(s) : b[j] = s[j]
    BY <1>4, <1>5, <1>6, CutFirst
  <1>8. s \in Seq(Bytes) /\ Len(s) >= 4 /\ Len(s) \in Nat /\ Number(SubSeq(s, 1, 4)) = Len(s) - 4
    BY <1>7, Written
  <1> HIDE DEF s
  <1>9. SubSeq(b, 1, 4) = SubSeq(s, 1, 4)
    <2>1. 4 \in 0..Len(b) /\ 4 \in 0..Len(s) /\ \A j \in 1..4 : j \in 1..Len(s)
      BY <1>7, <1>8
    <2>2. /\ SubSeq(b, 1, 4) \in Seq(Bytes) /\ Len(SubSeq(b, 1, 4)) = 4
          /\ \A j \in 1..4 : SubSeq(b, 1, 4)[j] = b[j]
      BY <2>1, Parts
    <2>3. /\ SubSeq(s, 1, 4) \in Seq(Bytes) /\ Len(SubSeq(s, 1, 4)) = 4
          /\ \A j \in 1..4 : SubSeq(s, 1, 4)[j] = s[j]
      BY <1>8, <2>1, Parts
    <2>4. \A j \in 1..4 : SubSeq(b, 1, 4)[j] = SubSeq(s, 1, 4)[j]
      BY <1>7, <2>1, <2>2, <2>3
    <2> QED BY <2>2, <2>3, <2>4, SeqEqual
  <1>10. Number(SubSeq(wire, 1, 4)) = Len(s) - 4 /\ Len(s) - 4 \in Nat
    <2>1. Number(SubSeq(wire, 1, 4)) = Number(SubSeq(s, 1, 4))
      BY <1>5, <1>9
    <2>2. Len(s) - 4 \in Nat
      BY <1>8
    <2> QED BY <1>8, <2>1, <2>2
  <1>11. reader.buf = <<>>
    BY <1>2, <1>3 DEF Lies
  <1>12. /\ reader' \in Readers /\ reader'.at = "body" /\ reader'.len = Len(s) - 4
         /\ reader'.buf = <<>> /\ reader'.msg = reader.msg
    <2>1. Number(SubSeq(wire, 1, 4)) \in Int
      BY <1>10
    <2> QED BY <1>3, <1>4, <1>10, <1>11, <2>1 DEF Readers
  <1>13. wire' = After(b, 4) /\ 4 <= Len(b)
    BY <1>3, <1>5 DEF After
  <1>14. Len(reader'.buf) = 0 /\ 4 = 4 + Len(reader'.buf) /\ \A j \in 1..Len(reader'.buf) : FALSE
    BY <1>12
  <1>15. Lies(b, at, 4)'
    BY <1>3, <1>5, <1>6, <1>10, <1>12, <1>13, <1>14 DEF Lies, s
  <1> QED BY <1>12, <1>15 DEF WireInv

\* It reads some of the message.
LEMMA WireBody ==
  ASSUME TypeInv, WireInv, ReadBody
  PROVE  WireInv' /\ reader' \in Readers /\ reader'.msg = reader.msg /\ reader'.at = "body"
  <1>1. PICK b \in Seq(Bytes), n \in Nat : \E at : Lies(b, at, n)
    BY DEF WireInv
  <1>2. PICK at : Lies(b, at, n)
    BY <1>1
  <1>3. reader.at = "body" /\ onWire' = onWire
    BY DEF ReadBody
  <1>4. PICK k : Receives(k)
    BY DEF ReadBody
  <1>5. reader \in Readers /\ onWire \in Seq(Sent)
    BY DEF TypeInv
  <1>6. /\ Cut(b, onWire, at) /\ n <= Len(b) /\ wire = After(b, n) /\ onWire # <<>>
        /\ reader.len = Len(Encode(onWire[1])) - 4 /\ n = 4 + Len(reader.buf)
        /\ \A j \in 1..Len(reader.buf) : reader.buf[j] = b[4 + j]
    BY <1>2, <1>3 DEF Lies
  <1>7. reader.buf \in Seq(Bytes) /\ Len(reader.buf) \in Nat /\ reader.len \in Int
    BY <1>5 DEF Readers
  <1>8. n \in 0..Len(b) /\ Len(b) \in Nat /\ wire \in Seq(Bytes) /\ Len(wire) = Len(b) - n
    <2>1. n \in 0..Len(b) /\ Len(b) \in Nat
      BY <1>6
    <2>2. After(b, n) \in Seq(Bytes) /\ Len(After(b, n)) = Len(b) - n
      BY <2>1, Parts
    <2> QED BY <1>6, <2>1, <2>2
  <1> DEFINE got == reader.buf \o SubSeq(After(b, n), 1, k)
  <1>9. PICK x \in Nat, y \in Int : x = Len(reader.buf) /\ y = reader.len
    BY <1>7
  <1>10. /\ k \in Nat /\ k <= Len(b) - n /\ k <= y - x
         /\ wire' = After(wire, k) /\ reader' = [reader EXCEPT !.buf = got]
    <2>1. /\ k \in 1..Smaller(Len(wire), y - x)
          /\ wire' = SubSeq(wire, k + 1, Len(wire))
          /\ reader' = [reader EXCEPT !.buf = reader.buf \o SubSeq(wire, 1, k)]
      BY <1>4, <1>9 DEF Receives
    <2>2. k \in Nat /\ k <= Len(b) - n /\ k <= y - x
      <3>1. PICK z \in Nat, v \in Int : z = Len(wire) /\ v = y - x
        BY <1>8, <1>9
      <3>2. k \in Nat /\ k <= z /\ k <= v
        BY <2>1, <3>1 DEF Smaller
      <3> QED BY <1>8, <3>1, <3>2
    <2> QED BY <1>6, <2>1, <2>2 DEF After
  <1>11. k \in 0..(Len(b) - n)
    BY <1>8, <1>10
  <1>12. /\ got \in Seq(Bytes) /\ Len(got) = x + k
         /\ \A j \in 1..Len(got) : got[j] = b[4 + j]
    <2>1. 4 \in Nat /\ n = 4 + Len(reader.buf) /\ \A j \in 1..Len(reader.buf) : reader.buf[j] = b[4 + j]
      BY <1>6
    <2>2. PICK r \in Seq(Bytes) : r = reader.buf
      BY <1>7
    <2>3. n = 4 + Len(r) /\ \A j \in 1..Len(r) : r[j] = b[4 + j]
      BY <2>1, <2>2
    <2>4. PICK h \in 0..Len(b) : h = n
      BY <1>8
    <2>5. PICK i \in 0..(Len(b) - h) : i = k
      BY <1>11, <2>4
    <2> HIDE DEF got
    <2>6. /\ r \o SubSeq(After(b, n), 1, k) \in Seq(Bytes)
          /\ Len(r \o SubSeq(After(b, n), 1, k)) = Len(r) + k
          /\ \A j \in 1..(Len(r) + k) : (r \o SubSeq(After(b, n), 1, k))[j] = b[4 + j]
      <3>1. h = 4 + Len(r) /\ \A j \in 1..Len(r) : r[j] = b[4 + j]
        BY <2>3, <2>4
      <3>2. /\ r \o SubSeq(After(b, h), 1, i) \in Seq(Bytes)
            /\ Len(r \o SubSeq(After(b, h), 1, i)) = Len(r) + i
            /\ \A j \in 1..(Len(r) + i) : (r \o SubSeq(After(b, h), 1, i))[j] = b[4 + j]
        BY <3>1, ReadsOn
      <3> QED BY <2>4, <2>5, <3>2
    <2> QED BY <1>9, <2>2, <2>6 DEF got
  <1>13. /\ reader' \in Readers /\ reader'.at = "body" /\ reader'.len = reader.len
         /\ reader'.buf = got /\ reader'.msg = reader.msg
    <2> HIDE DEF got
    <2> QED BY <1>3, <1>5, <1>10, <1>12 DEF Readers
  <1>14. /\ n + k \in Nat /\ n + k <= Len(b) /\ n + k = 4 + (x + k) /\ x + k <= y
    <2>1. n = 4 + x /\ n \in Nat
      BY <1>6, <1>9
    <2>2. k \in Nat /\ k <= Len(b) - n /\ k <= y - x
      BY <1>10
    <2>3. PICK z \in Nat : z = Len(b)
      BY <1>8
    <2> QED BY <1>9, <2>1, <2>2, <2>3
  <1>15. wire' = After(b, n + k)
    <2>1. After(After(b, n), k) = After(b, n + k)
      BY <1>8, <1>11, AfterAfter
    <2> QED BY <1>6, <1>10, <2>1
  <1> HIDE DEF got
  <1>16. Lies(b, at, n + k)'
    <2>1. n + k = 4 + Len(got) /\ Len(got) <= reader.len
      BY <1>9, <1>12, <1>14
    <2> QED BY <1>3, <1>6, <1>12, <1>13, <1>14, <1>15, <2>1 DEF Lies
  <1> QED BY <1>13, <1>14, <1>16 DEF WireInv

\* What is decoded is the message that was sent.
LEMMA WireDecodes ==
  ASSUME TypeInv, WireInv, Deserializes
  PROVE  /\ WireInv' /\ reader' = [AtLength EXCEPT !.at = "message", !.msg = last + 1]
         /\ onWire # <<>> /\ onWire' = Tail(onWire) /\ last' = last + 1
         /\ heap' = [a \in DOMAIN heap \cup {last + 1} |-> IF a = last + 1 THEN onWire[1] ELSE heap[a]]
         /\ UNCHANGED <<asked, owed>>
  <1>1. PICK b \in Seq(Bytes), n \in Nat : \E at : Lies(b, at, n)
    BY DEF WireInv
  <1>2. PICK at : Lies(b, at, n)
    BY <1>1
  <1>3. reader.at = "body" /\ Len(reader.buf) = reader.len
    BY DEF Deserializes
  <1>4. reader \in Readers /\ onWire \in Seq(Sent)
    BY DEF TypeInv
  <1>5. /\ Cut(b, onWire, at) /\ n <= Len(b) /\ wire = After(b, n) /\ onWire # <<>>
        /\ reader.len = Len(Encode(onWire[1])) - 4 /\ n = 4 + Len(reader.buf)
        /\ \A j \in 1..Len(reader.buf) : reader.buf[j] = b[4 + j]
    BY <1>2, <1>3 DEF Lies
  <1> DEFINE s == Encode(onWire[1])
  <1>6. /\ onWire[1] \in Sent /\ Len(s) <= Len(b) /\ \A j \in 1..Len(s) : b[j] = s[j]
        /\ \E new : Cut(After(b, Len(s)), Tail(onWire), new)
    BY <1>4, <1>5, CutFirst
  <1>7. /\ s \in Seq(Bytes) /\ Len(s) >= 4 /\ Len(s) \in Nat
        /\ Decode(SubSeq(s, 5, Len(s))) = [ok |-> TRUE, msg |-> onWire[1]]
    BY <1>6, Written
  <1>8. reader.len = Len(s) - 4 /\ n = Len(s)
    BY <1>3, <1>5, <1>7
  <1> HIDE DEF s
  <1>9. reader.buf = SubSeq(s, 5, Len(s))
    <2>1. reader.buf \in Seq(Bytes) /\ Len(reader.buf) = Len(s) - 4
      BY <1>3, <1>4, <1>8 DEF Readers
    <2>2. SubSeq(s, 5, Len(s)) \in Seq(Bytes) /\ Len(SubSeq(s, 5, Len(s))) = Len(s) - 4
          /\ \A j \in 1..(Len(s) - 4) : SubSeq(s, 5, Len(s))[j] = s[4 + j]
      <3>1. 4 \in 0..Len(s) /\ SubSeq(s, 5, Len(s)) = After(s, 4)
        <4>1. 4 + 1 = 5
          OBVIOUS
        <4>2. 4 \in 0..Len(s)
          BY <1>7
        <4> QED BY <4>1, <4>2 DEF After
      <3>2. After(s, 4) \in Seq(Bytes) /\ Len(After(s, 4)) = Len(s) - 4
            /\ \A j \in 1..(Len(s) - 4) : After(s, 4)[j] = s[4 + j]
        <4>1. PICK x \in Seq(Bytes) : x = s
          BY <1>7
        <4>2. 4 \in 0..Len(x) /\ x \in Seq(Bytes)
          BY <3>1, <4>1
        <4>3. /\ After(x, 4) \in Seq(Bytes) /\ Len(After(x, 4)) = Len(x) - 4
              /\ \A j \in 1..(Len(x) - 4) : After(x, 4)[j] = x[4 + j]
          BY <4>2, Parts
        <4> QED BY <4>1, <4>3
      <3> QED BY <3>1, <3>2
    <2>3. \A j \in 1..(Len(s) - 4) : reader.buf[j] = s[4 + j]
      <3>1. \A j \in 1..(Len(s) - 4) : 4 + j \in 1..Len(s)
        BY <1>7
      <3> QED BY <1>5, <1>6, <2>1, <3>1
    <2> QED BY <2>1, <2>2, <2>3, SeqEqual
  <1>10. Decode(reader.buf).ok = TRUE /\ Decode(reader.buf).msg = onWire[1]
    BY <1>7, <1>9
  <1>11. /\ heap' = [a \in DOMAIN heap \cup {last + 1} |-> IF a = last + 1 THEN onWire[1] ELSE heap[a]]
         /\ last' = last + 1 /\ reader' = [AtLength EXCEPT !.at = "message", !.msg = last + 1]
         /\ onWire' = Tail(onWire) /\ UNCHANGED <<wire, asked, owed>>
    BY <1>10 DEF Deserializes
  <1> DEFINE c == After(b, Len(s))
  <1>12. PICK new : Cut(c, onWire', new)
    BY <1>6, <1>11
  <1>13. wire' = c /\ c \in Seq(Bytes) /\ Len(c) \in Nat /\ After(c, 0) = c
    <2>1. Len(s) \in 0..Len(b)
      BY <1>6, <1>7
    <2>2. c \in Seq(Bytes) /\ Len(c) \in Nat
      BY <2>1, Parts
    <2> HIDE DEF c
    <2>3. SubSeq(c, 1, Len(c)) = c
      BY <2>2, SubSeqFull
    <2> QED BY <1>5, <1>8, <1>11, <2>2, <2>3 DEF After, c
  <1>14. reader'.at = "message" /\ reader'.buf = <<>>
    BY <1>11 DEF AtLength
  <1> HIDE DEF c
  <1>15. PICK d \in Seq(Bytes) : d = c
    BY <1>13
  <1>16. Cut(d, onWire', new) /\ 0 <= Len(d) /\ wire' = After(d, 0)
    BY <1>12, <1>13, <1>15
  <1>17. Lies(d, new, 0)'
    BY <1>14, <1>16 DEF Lies
  <1>18. WireInv'
    BY <1>17 DEF WireInv
  <1> QED BY <1>5, <1>11, <1>18

\* The rest.
LEMMA WireSame ==
  ASSUME WireInv, UNCHANGED <<wire, onWire>>, reader' = reader \/ (Has /\ reader' = AtLength)
  PROVE  WireInv'
  <1>1. PICK b \in Seq(Bytes), n \in Nat : \E at : Lies(b, at, n)
    BY DEF WireInv
  <1>2. PICK at : Lies(b, at, n)
    BY <1>1
  <1>3. CASE reader' = reader
    BY <1>2, <1>3 DEF WireInv, Lies
  <1>4. CASE Has /\ reader' = AtLength
    <2>1. reader.at # "body" /\ reader'.at # "body" /\ reader'.buf = <<>>
      BY <1>4 DEF Has, AtLength
    <2>2. Lies(b, at, n)'
      BY <1>2, <2>1 DEF Lies
    <2> QED BY <2>2 DEF WireInv
  <1> QED BY <1>3, <1>4

\* Nothing is under way: initially, and when the connection breaks.
LEMMA WireEmpty ==
  ASSUME wire' = <<>>, onWire' = <<>>, reader' = AtLength
  PROVE  WireInv'
  <1> DEFINE at == [k \in 1..1 |-> 0]
  <1>1. Cut(<<>>, <<>>, at)
    BY DEF Cut
  <1>2. <<>> \in Seq(Bytes) /\ After(<<>>, 0) = <<>> /\ Len(<<>>) = 0
    BY DEF After
  <1>3. reader'.at # "body" /\ reader'.buf = <<>>
    BY DEF AtLength
  <1> HIDE DEF at
  <1>4. Lies(<<>>, at, 0)'
    BY <1>1, <1>2, <1>3 DEF Lies
  <1> QED BY <1>2, <1>4 DEF WireInv

-----------------------------------------------------------------------------
(***************************************************************************)
(* Sequences that are put behind each other.                               *)
(***************************************************************************)
\* One after the other: the one at the seam belongs to either.
LEMMA Seams ==
  ASSUME NEW X, NEW s \in Seq(X), NEW t \in Seq(X), NEW x \in X
  PROVE  Append(s, x) \o t = s \o (<<x>> \o t)
  <1>1. Append(s, x) = s \o <<x>>
    BY AppendIsConcat
  <1>2. PICK y : y = <<x>>
    OBVIOUS
  <1>3. y \in Seq(X)
    BY <1>2
  <1>4. (s \o y) \o t = s \o (y \o t)
    BY <1>3, ConcatAssociative
  <1> QED BY <1>1, <1>2, <1>4

\* The first one of a sequence.
LEMMA FirstOne ==
  ASSUME NEW X, NEW s \in Seq(X), s # <<>>, NEW t \in Seq(X)
  PROVE  /\ Head(s) \in X /\ Head(s) = s[1] /\ Tail(s) \in Seq(X) /\ s = <<Head(s)>> \o Tail(s)
         /\ Len(s) \in Nat /\ Len(s) >= 1 /\ Len(Tail(s)) = Len(s) - 1
         /\ \A i \in 1..(Len(s) - 1) : Tail(s)[i] = s[i + 1]
         /\ Tail(s \o t) = Tail(s) \o t
  <1>1. /\ Head(s) \in X /\ Head(s) = s[1] /\ Tail(s) \in Seq(X)
        /\ Len(s) \in Nat /\ Len(s) >= 1 /\ Len(Tail(s)) = Len(s) - 1
        /\ \A i \in 1..(Len(s) - 1) : Tail(s)[i] = s[i + 1]
    OBVIOUS
  <1>2. s = <<Head(s)>> \o Tail(s)
    OBVIOUS
  <1>3. PICK x \in X, r \in Seq(X) : x = Head(s) /\ r = Tail(s) /\ s = <<x>> \o r
    BY <1>1, <1>2
  <1>4. s \o t = <<x>> \o (r \o t) /\ r \o t \in Seq(X)
    <2>0. x \in X /\ r \in Seq(X) /\ <<x>> \in Seq(X)
      BY <1>3
    <2>1. r \o t \in Seq(X)
      BY <2>0, ConcatProperties
    <2>2. <<x>> \o (r \o t) = (<<x>> \o r) \o t
      BY <2>0, ConcatAssociative
    <2> QED BY <1>3, <2>1, <2>2
  <1>5. Tail(<<x>> \o (r \o t)) = r \o t
    BY <1>4
  <1> QED BY <1>1, <1>2, <1>3, <1>4, <1>5

\* Without takes off what was put on.
LEMMA TakenOff ==
  ASSUME NEW X, NEW s \in Seq(X), NEW t \in Seq(X), NEW lost, Len(lost) = Len(t)
  PROVE  Without(s \o t, lost) = s
  <1> DEFINE u == s \o t
  <1>1. PICK n \in Nat : n = Len(s)
    OBVIOUS
  <1>2. PICK m \in Nat : m = Len(t)
    OBVIOUS
  <1>3. /\ u \in Seq(X) /\ Len(u) = n + m
        /\ \A i \in 1..(n + m) : u[i] = IF i <= n THEN s[i] ELSE t[i - n]
    BY <1>1, <1>2, ConcatProperties
  <1>4. Without(u, lost) = SubSeq(u, 1, n)
    BY <1>2, <1>3 DEF Without
  <1> HIDE DEF u
  <1>5. SubSeq(u, 1, n) \in Seq(X) /\ Len(SubSeq(u, 1, n)) = n /\ \A i \in 1..n : SubSeq(u, 1, n)[i] = u[i]
    <2>1. n \in 0..Len(u)
      BY <1>3
    <2> QED BY <1>3, <2>1, Parts
  <1>6. \A i \in 1..n : i \in 1..(n + m) /\ i <= n
    OBVIOUS
  <1>7. \A i \in 1..n : SubSeq(u, 1, n)[i] = s[i]
    BY <1>3, <1>5, <1>6
  <1>8. SubSeq(u, 1, n) = s
    BY <1>1, <1>5, <1>7, SeqEqual
  <1> QED BY <1>4, <1>8 DEF u

\* The packets of messages, one for each.
LEMMA PacketsMade ==
  ASSUME NEW s \in Seq(Packets)
  PROVE  /\ AsPackets(s) \in Seq(Entries) /\ Len(AsPackets(s)) = Len(s)
         /\ AsPackets(<<>>) = <<>>
         /\ \A m \in Packets : /\ Packet(m) \in Entries
                               /\ AsPackets(Append(s, m)) = Append(AsPackets(s), Packet(m))
                               /\ AsPackets(<<m>> \o s) = <<Packet(m)>> \o AsPackets(s)
  <1>1. \A m \in Packets : Packet(m) \in Entries
    BY WhatIsSent
  <1>2. AsPackets(s) \in Seq(Entries) /\ Len(AsPackets(s)) = Len(s)
    BY <1>1 DEF AsPackets
  <1>3. AsPackets(<<>>) = <<>>
    BY DEF AsPackets
  <1>4. ASSUME NEW m \in Packets
        PROVE  AsPackets(Append(s, m)) = Append(AsPackets(s), Packet(m))
    <2> DEFINE u == Append(s, m)
               v == AsPackets(u)
               w == Append(AsPackets(s), Packet(m))
    <2>1. u \in Seq(Packets) /\ Len(u) = Len(s) + 1 /\ \A i \in 1..Len(s) : u[i] = s[i]
      OBVIOUS
    <2>2. u[Len(s) + 1] = m
      OBVIOUS
    <2> HIDE DEF u
    <2>3. v \in Seq(Entries) /\ Len(v) = Len(u) /\ \A i \in 1..Len(u) : v[i] = Packet(u[i])
      BY <1>1, <2>1 DEF AsPackets
    <2>4. \A i \in 1..Len(s) : AsPackets(s)[i] = Packet(s[i])
      BY DEF AsPackets
    <2> HIDE DEF v
    <2>5. /\ w \in Seq(Entries) /\ Len(w) = Len(s) + 1 /\ w[Len(s) + 1] = Packet(m)
          /\ \A i \in 1..Len(s) : w[i] = AsPackets(s)[i]
      <3> DEFINE a == AsPackets(s)
      <3>1. a \in Seq(Entries) /\ Len(a) = Len(s) /\ Packet(m) \in Entries
        BY <1>1, <1>2
      <3> HIDE DEF a
      <3>2. /\ Append(a, Packet(m)) \in Seq(Entries) /\ Len(Append(a, Packet(m))) = Len(a) + 1
            /\ \A i \in 1..Len(a) : Append(a, Packet(m))[i] = a[i]
            /\ Append(a, Packet(m))[Len(a) + 1] = Packet(m)
        BY <3>1, AppendProperties
      <3> QED BY <3>1, <3>2 DEF a
    <2> HIDE DEF w
    <2>6. ASSUME NEW i \in 1..Len(v) PROVE v[i] = w[i]
      <3>1. PICK n \in Nat : n = Len(s)
        OBVIOUS
      <3>2. i \in 1..(n + 1)
        BY <2>1, <2>3, <3>1
      <3>3. CASE i = n + 1
        BY <2>1, <2>2, <2>3, <2>5, <3>1, <3>3
      <3>4. CASE i # n + 1
        <4>1. i \in 1..Len(s)
          BY <3>1, <3>2, <3>4
        <4> QED BY <2>1, <2>3, <2>4, <2>5, <4>1
      <3> QED BY <3>3, <3>4
    <2>7. v = w
      BY <2>1, <2>3, <2>5, <2>6, SeqEqual
    <2> QED BY <2>7 DEF u, v, w
  <1>5. ASSUME NEW m \in Packets
        PROVE  AsPackets(<<m>> \o s) = <<Packet(m)>> \o AsPackets(s)
    <2> DEFINE u == <<m>> \o s
               v == AsPackets(u)
               w == <<Packet(m)>> \o AsPackets(s)
    <2>1. PICK n \in Nat : n = Len(s)
      OBVIOUS
    <2>2. /\ u \in Seq(Packets) /\ Len(u) = n + 1 /\ u[1] = m
          /\ \A i \in 1..n : u[1 + i] = s[i]
      BY <2>1
    <2> HIDE DEF u
    <2>3. v \in Seq(Entries) /\ Len(v) = n + 1 /\ \A i \in 1..(n + 1) : v[i] = Packet(u[i])
      BY <1>1, <2>2 DEF AsPackets
    <2>4. \A i \in 1..n : AsPackets(s)[i] = Packet(s[i])
      BY <2>1 DEF AsPackets
    <2> HIDE DEF v
    <2>5. /\ w \in Seq(Entries) /\ Len(w) = n + 1 /\ w[1] = Packet(m)
          /\ \A i \in 1..n : w[1 + i] = AsPackets(s)[i]
      <3> DEFINE a == AsPackets(s)
      <3>1. a \in Seq(Entries) /\ Len(a) = n /\ Packet(m) \in Entries
        BY <1>1, <1>2, <2>1
      <3> HIDE DEF a
      <3>2. /\ <<Packet(m)>> \o a \in Seq(Entries) /\ Len(<<Packet(m)>> \o a) = n + 1
            /\ (<<Packet(m)>> \o a)[1] = Packet(m)
            /\ \A i \in 1..n : (<<Packet(m)>> \o a)[1 + i] = a[i]
        BY <3>1
      <3> QED BY <3>2 DEF a
    <2> HIDE DEF w
    <2>6. ASSUME NEW i \in 1..Len(v) PROVE v[i] = w[i]
      <3>1. i \in 1..(n + 1)
        BY <2>3
      <3>2. CASE i = 1
        BY <2>2, <2>3, <2>5, <3>1, <3>2
      <3>3. CASE i # 1
        <4>1. PICK j \in 1..n : i = 1 + j
          <5>1. i - 1 \in 1..n /\ i = 1 + (i - 1)
            BY <3>1, <3>3
          <5> QED BY <5>1
        <4>2. v[i] = Packet(u[i])
          BY <2>3, <3>1
        <4> QED BY <2>2, <2>4, <2>5, <4>1, <4>2
      <3> QED BY <3>2, <3>3
    <2>7. v = w
      BY <2>3, <2>5, <2>6, SeqEqual
    <2> QED BY <2>7 DEF u, v, w
  <1> QED BY <1>1, <1>2, <1>3, <1>4, <1>5

-----------------------------------------------------------------------------
(***************************************************************************)
(* What is where.                                                          *)
(***************************************************************************)
\* The messages in memory, and those in transit.
LEMMA Contents ==
  ASSUME TypeInv, Own
  PROVE  /\ \A a \in DOMAIN heap : a \in Addresses /\ Content(a) = heap[a] /\ Content(a) \in Sent
         /\ reader.msg # 0 => reader.msg \in DOMAIN heap /\ Read = Content(reader.msg) /\ Read \in Sent
         /\ process # 0 => Content(process) \in Sent
         /\ InReader \in Seq(Sent) /\ InProcess \in Seq(Sent) /\ InQueue \in Seq(Sent)
         /\ Len(InQueue) = Len(qBuffer) /\ \A i \in 1..Len(qBuffer) : InQueue[i] = Content(qBuffer[i])
         /\ ForProcess \in Seq(Sent) /\ Len(ForProcess) = Len(InProcess) + Len(qBuffer)
         /\ Transit \in Seq(Sent) /\ onWire \in Seq(Sent)
         /\ reader.msg = 0 => Transit = onWire
         /\ reader.msg # 0 => Transit = <<Read>> \o onWire
  <1>1. ASSUME NEW a \in DOMAIN heap
        PROVE  a \in Addresses /\ Content(a) = heap[a] /\ Content(a) \in Sent
    <2>1. a \in 1..last /\ last \in Nat /\ heap[a] \in Sent
      BY DEF TypeInv
    <2>2. a \in Addresses
      BY <2>1 DEF Addresses
    <2> QED BY <2>1, <2>2 DEF Content
  <1>2. /\ reader.msg # 0 => reader.msg \in DOMAIN heap
        /\ process # 0 => process \in DOMAIN heap
        /\ \A i \in DOMAIN qBuffer : qBuffer[i] \in DOMAIN heap
    BY DEF Own, Single
  <1>3. reader.msg # 0 => Read = Content(reader.msg) /\ Read \in Sent
    BY <1>1, <1>2 DEF Read
  <1>4. onWire \in Seq(Sent) /\ qBuffer \in Seq(Addresses)
    BY DEF TypeInv
  <1>5. InReader \in Seq(Sent) /\ InProcess \in Seq(Sent) /\ (process # 0 => Content(process) \in Sent)
    <2>1. reader.msg # 0 => Content(reader.msg) \in Sent
      BY <1>1, <1>2
    <2>2. process # 0 => Content(process) \in Sent
      BY <1>1, <1>2
    <2> QED BY <2>1, <2>2 DEF InReader, InProcess
  <1>6. /\ InQueue \in Seq(Sent) /\ Len(InQueue) = Len(qBuffer)
        /\ \A i \in 1..Len(qBuffer) : InQueue[i] = Content(qBuffer[i])
    <2>1. DOMAIN qBuffer = 1..Len(qBuffer) /\ Len(qBuffer) \in Nat
      BY <1>4
    <2>2. \A i \in 1..Len(qBuffer) : Content(qBuffer[i]) \in Sent
      BY <1>1, <1>2, <2>1
    <2> QED BY <2>1, <2>2 DEF InQueue
  <1>7. ForProcess \in Seq(Sent) /\ Len(ForProcess) = Len(InProcess) + Len(qBuffer)
    <2>1. InProcess \in Seq(Sent) /\ InQueue \in Seq(Sent)
      BY <1>5, <1>6
    <2>2. ForProcess \in Seq(Sent) /\ Len(ForProcess) = Len(InProcess) + Len(InQueue)
      BY <2>1, ConcatProperties DEF ForProcess
    <2> QED BY <1>6, <2>2
  <1>8. Transit \in Seq(Sent)
    BY <1>4, <1>5, ConcatProperties DEF Transit
  <1>9. reader.msg = 0 => Transit = onWire
    BY <1>4, ConcatEmptySeq DEF Transit, InReader
  <1>10. reader.msg # 0 => Transit = <<Read>> \o onWire
    BY <1>3 DEF Transit, InReader
  <1> QED BY <1>1, <1>2, <1>3, <1>4, <1>5, <1>6, <1>7, <1>8, <1>9, <1>10

\* What has been selected is of the kind.
LEMMA SelectedSent ==
  ASSUME NEW s \in Seq(Sent)
  PROVE  /\ Selected(s, Queued) \in Seq(Sent) /\ Selected(s, Packets) \in Seq(Packets)
         /\ Len(Selected(s, Queued)) \in Nat /\ Len(Selected(s, Packets)) \in Nat
  <1>1. Selected(s, Queued) \in Seq(Sent \cap Queued) /\ Selected(s, Packets) \in Seq(Sent \cap Packets)
    BY SelectedType
  <1>2. Sent \cap Queued \subseteq Sent /\ Sent \cap Packets \subseteq Packets
    OBVIOUS
  <1>3. Selected(s, Queued) \in Seq(Sent) /\ Selected(s, Packets) \in Seq(Packets)
    BY <1>1, <1>2, SeqMonotonic
  <1> QED BY <1>3, LenProperties

\* An address is freed.
LEMMA Freed ==
  ASSUME TypeInv, Own, NEW a \in DOMAIN heap, Frees(a)
  PROVE  /\ DOMAIN heap' = DOMAIN heap \ {a} /\ ~misfreed' /\ forgotten' = forgotten
         /\ \A b \in DOMAIN heap' : heap'[b] = heap[b]
         /\ \A b : b # a => Content(b)' = Content(b)
  <1>1. a # 0
    BY Contents DEF Addresses
  <1>2. /\ heap' = [b \in DOMAIN heap \ {a} |-> heap[b]]
        /\ misfreed' = (misfreed \/ a \notin DOMAIN heap)
        /\ forgotten' = forgotten
    BY <1>1 DEF Frees
  <1>3. ~misfreed'
    BY <1>2, Zenon DEF Own
  <1>4. DOMAIN heap' = DOMAIN heap \ {a} /\ \A b \in DOMAIN heap' : heap'[b] = heap[b]
    BY <1>2
  <1>5. \A b : b # a => Content(b)' = Content(b)
    BY <1>4 DEF Content
  <1> QED BY <1>2, <1>3, <1>4, <1>5

\* ReadMessage hands over what it has read.
LEMMA HandsOver ==
  ASSUME TypeInv, Own, Has, onWire' = onWire
  PROVE  /\ reader.msg # 0 /\ reader.msg \in DOMAIN heap /\ Read = Content(reader.msg) /\ Read \in Sent
         /\ reader' = AtLength /\ reader'.msg = 0 /\ reader'.at = "length" /\ reader' \in Readers
         /\ Transit = <<Read>> \o onWire /\ Transit' = onWire
         /\ Selected(Transit, Queued) = Before(Read, Queued, Selected(Transit', Queued))
         /\ Selected(Transit, Packets) = Before(Read, Packets, Selected(Transit', Packets))
         /\ Selected(Transit', Queued) \in Seq(Sent) /\ Selected(Transit', Packets) \in Seq(Packets)
  <1>1. reader.at = "message" /\ reader' = AtLength /\ reader.msg # 0
    BY DEF Has, TypeInv
  <1>2. reader'.msg = 0 /\ reader'.at = "length" /\ reader' \in Readers
    <2>1. AtLength \in Readers /\ AtLength.msg = 0 /\ AtLength.at = "length"
      BY DEF AtLength, Readers
    <2> QED BY <1>1, <2>1
  <1>3. /\ reader.msg \in DOMAIN heap /\ Read = Content(reader.msg) /\ Read \in Sent
        /\ onWire \in Seq(Sent) /\ Transit = <<Read>> \o onWire
    BY <1>1, Contents
  <1>4. Transit' = onWire
    BY <1>2, <1>3, ConcatEmptySeq DEF Transit, InReader
  <1>5. /\ Selected(<<Read>> \o onWire, Queued) = Before(Read, Queued, Selected(onWire, Queued))
        /\ Selected(<<Read>> \o onWire, Packets) = Before(Read, Packets, Selected(onWire, Packets))
    BY <1>3, SelectedFirst
  <1>6. Selected(onWire, Queued) \in Seq(Sent) /\ Selected(onWire, Packets) \in Seq(Packets)
    BY <1>3, SelectedSent
  <1> QED BY <1>1, <1>2, <1>3, <1>4, <1>5, <1>6

\* What the Process thread has and will get stays as it is.
LEMMA Unmoved ==
  ASSUME TypeInv, Own, process' = process, qBuffer' = qBuffer,
         \A a \in DOMAIN heap : (a = process \/ \E k \in DOMAIN qBuffer : qBuffer[k] = a) => Content(a)' = Content(a)
  PROVE  InProcess' = InProcess /\ InQueue' = InQueue /\ ForProcess' = ForProcess
  <1>1. process # 0 => process \in DOMAIN heap
    BY DEF Own, Single
  <1>2. \A k \in DOMAIN qBuffer : qBuffer[k] \in DOMAIN heap
    BY DEF Own
  <1>3. InProcess' = InProcess
    BY <1>1 DEF InProcess
  <1>4. \A k \in DOMAIN qBuffer : Content(qBuffer[k])' = Content(qBuffer[k])
    <2>1. TAKE k \in DOMAIN qBuffer
    <2>2. PICK a : a = qBuffer[k]
      OBVIOUS
    <2>3. Content(a)' = Content(a)
      BY <1>2, <2>2
    <2>4. Content(qBuffer[k])' = Content(a)'
      BY <2>2 DEF Content
    <2> QED BY <2>2, <2>3, <2>4
  <1>5. InQueue' = InQueue
    BY <1>4 DEF InQueue
  <1> QED BY <1>3, <1>5 DEF ForProcess

\* The messages in transit are one fewer, and nothing changes for the request.
LEMMA NoResponseMoved ==
  ASSUME TypeInv, Own, Responses, reader.msg # 0, Transit' = onWire,
         UNCHANGED <<response, answer, seq, asked>>,
         \A a \in DOMAIN heap : (a = response.msg \/ a = answer) => Content(a)' = Content(a)
  PROVE  Responses'
  <1>1. Transit = <<Read>> \o onWire /\ Read \in Sent /\ onWire \in Seq(Sent)
    BY Contents
  <1>2. /\ DOMAIN Transit = 1..(Len(onWire) + 1) /\ DOMAIN onWire = 1..Len(onWire) /\ Len(onWire) \in Nat
        /\ \A k \in 1..Len(onWire) : k + 1 \in DOMAIN Transit /\ Transit[k + 1] = onWire[k]
    BY <1>1
  <1>3. (response.msg # 0 => response.msg \in DOMAIN heap) /\ (answer # 0 => answer \in DOMAIN heap)
    BY DEF Own, Single
  <1>4. /\ response.msg # 0 => Content(response.msg)' = Content(response.msg)
        /\ answer # 0 => Content(answer)' = Content(answer)
    <2>1. PICK a, b : a = response.msg /\ b = answer
      OBVIOUS
    <2>2. (a # 0 => Content(a)' = Content(a)) /\ (b # 0 => Content(b)' = Content(b))
      BY <1>3, <2>1
    <2>3. Content(response.msg)' = Content(a)' /\ Content(answer)' = Content(b)'
      BY <2>1 DEF Content
    <2> QED BY <2>1, <2>2, <2>3
  <1>5. /\ \A k \in DOMAIN Transit' : Transit'[k] \in Answers => \E n \in 1..seq : Transit'[k] = Answer(n)
        /\ \A k, l \in DOMAIN Transit' : Transit'[k] = Transit'[l] /\ Transit'[k] \in Answers => k = l
        /\ asked \/ response.msg # 0 => \A k \in DOMAIN Transit' : Transit'[k] # Answer(seq)
    <2>1. \A k \in DOMAIN Transit' : k \in 1..Len(onWire) /\ k \in Nat /\ Transit'[k] = onWire[k]
      BY <1>2
    <2>2. \A k \in DOMAIN Transit : Transit[k] \in Answers => \E n \in 1..seq : Transit[k] = Answer(n)
      BY DEF Responses
    <2>3. \A k, l \in DOMAIN Transit : Transit[k] = Transit[l] /\ Transit[k] \in Answers => k = l
      BY DEF Responses
    <2>4. (asked \/ response.msg # 0) => \A k \in DOMAIN Transit : Transit[k] # Answer(seq)
      BY DEF Responses
    <2>5. \A k \in DOMAIN Transit' : Transit'[k] \in Answers => \E n \in 1..seq : Transit'[k] = Answer(n)
      BY <1>2, <2>1, <2>2
    <2>6. \A k, l \in DOMAIN Transit' : Transit'[k] = Transit'[l] /\ Transit'[k] \in Answers => k = l
      <3>1. \A k, l \in DOMAIN Transit' : k + 1 = l + 1 => k = l
        BY <2>1
      <3> QED BY <1>2, <2>1, <2>3, <3>1
    <2>7. (asked \/ response.msg # 0) => \A k \in DOMAIN Transit' : Transit'[k] # Answer(seq)
      BY <1>2, <2>1, <2>4, Zenon
    <2> QED BY <2>5, <2>6, <2>7, Zenon
  <1>6. /\ response'.seq \in {0, seq'}
        /\ response'.msg # 0 => seq' # 0 /\ Content(response.msg)' = Answer(seq)'
        /\ answer' # 0 => seq' # 0 /\ Content(answer)' = Answer(seq)' /\ response' = NoResponse
    BY <1>4 DEF Responses, Answer
  <1>7. asked' => seq' # 0 /\ response'.msg = 0
    BY Zenon DEF Responses
  <1>8. Answer(seq)' = Answer(seq)
    BY DEF Answer
  <1> QED BY <1>5, <1>6, <1>7, <1>8, Zenon DEF Responses, NoResponse

-----------------------------------------------------------------------------
(***************************************************************************)
(* ReadMessage hands a message over.                                       *)
(***************************************************************************)
\* It frees the message: one that goes to the demuxer, or to nobody.
LEMMA ReaderFrees ==
  ASSUME TypeInv, Own, Responses, Has, Frees(reader.msg),
         UNCHANGED <<onWire, sent, last, qBuffer, process, answer, seq, response, asked>>,
         owed' \in [process : Seq(Sent), kodi : Seq(Entries)]
  PROVE  TypeInv' /\ Own' /\ Responses' /\ ForProcess' = ForProcess
  <1>1. /\ reader.msg # 0 /\ reader.msg \in DOMAIN heap
        /\ reader'.msg = 0 /\ reader'.at = "length" /\ reader' \in Readers /\ Transit' = onWire
    BY HandsOver
  <1>2. PICK r : r = reader.msg
    OBVIOUS
  <1>3. /\ DOMAIN heap' = DOMAIN heap \ {r} /\ ~misfreed' /\ forgotten' = forgotten
        /\ \A b \in DOMAIN heap' : heap'[b] = heap[b]
        /\ \A b : b # r => Content(b)' = Content(b)
    BY <1>1, <1>2, Freed
  <1>4. TypeInv'
    <2>1. DOMAIN heap' \subseteq 1..last' /\ \A a \in DOMAIN heap' : heap'[a] \in Sent
      BY <1>3 DEF TypeInv
    <2> QED BY <1>1, <2>1 DEF TypeInv
  <1>5. /\ r \notin {process, response.msg, answer}
        /\ \A k \in DOMAIN qBuffer : qBuffer[k] # r
    BY <1>1, <1>2 DEF Own, Single
  <1>6. Own'
    <2>1. \A a \in DOMAIN heap' : a \in Single' \/ a \in forgotten' \/ \E k \in DOMAIN qBuffer' : qBuffer'[k] = a
      BY <1>2, <1>3 DEF Own, Single
    <2>2. \A a \in Single' : a # 0 => a \in DOMAIN heap' /\ \A k \in DOMAIN qBuffer' : qBuffer'[k] # a
      BY <1>1, <1>3, <1>5 DEF Own, Single
    <2>3. /\ \A k \in DOMAIN qBuffer' : qBuffer'[k] \in DOMAIN heap'
          /\ \A k, l \in DOMAIN qBuffer' : qBuffer'[k] = qBuffer'[l] => k = l
      BY <1>3, <1>5 DEF Own
    <2>4. /\ process' # 0 => process' \notin {response'.msg, answer'}
          /\ response'.msg # 0 => response'.msg # answer'
      BY DEF Own
    <2> QED BY <1>1, <1>3, <2>1, <2>2, <2>3, <2>4, Zenon DEF Own
  <1>7. ForProcess' = ForProcess
    <2>1. \A a \in DOMAIN heap : (a = process \/ \E k \in DOMAIN qBuffer : qBuffer[k] = a) => Content(a)' = Content(a)
      BY <1>3, <1>5
    <2> QED BY <2>1, Unmoved
  <1>8. Responses'
    <2>1. \A a \in DOMAIN heap : (a = response.msg \/ a = answer) => Content(a)' = Content(a)
      BY <1>3, <1>5
    <2> QED BY <1>1, <2>1, NoResponseMoved
  <1> QED BY <1>4, <1>6, <1>7, <1>8

\* A late response: it was nothing that the others wait for.
LEMMA DestroysKeeps ==
  ASSUME MInv, Destroys
  PROVE  TypeInv' /\ Own' /\ Responses' /\ Order'
  <1>1. /\ Has /\ GetStr(Read, Method).err # OK /\ Frees(reader.msg) /\ buffer' = buffer
        /\ UNCHANGED <<onWire, sent, last, qBuffer, process, answer, seq, response, asked, owed>>
    BY DEF Destroys, wireVars, bufVars, qVars, respVars
  <1>2. TypeInv /\ Own /\ Responses /\ Order
    BY DEF MInv
  <1>3. TypeInv' /\ Own' /\ Responses' /\ ForProcess' = ForProcess
    BY <1>1, <1>2, ReaderFrees DEF TypeInv
  <1>4. Read \in Sent /\ Read \notin Queued /\ Read \notin Packets
    <2>1. Read \in Sent
      BY <1>1, <1>2, HandsOver
    <2> QED BY <1>1, <2>1, WhatIsSent DEF Sent
  <1>5. /\ Selected(Transit, Queued) = Selected(Transit', Queued)
        /\ Selected(Transit, Packets) = Selected(Transit', Packets)
    BY <1>1, <1>2, <1>4, HandsOver DEF Before
  <1>6. Order'
    BY <1>1, <1>2, <1>3, <1>5 DEF Order
  <1> QED BY <1>3, <1>6

\* What is dropped is the first one behind those in the buffer.
LEMMA Dropped ==
  ASSUME NEW X, NEW b \in Seq(X), NEW x \in X, NEW t \in Seq(X)
  PROVE  RemoveAt(b \o (<<x>> \o t), Len(b) + 1) = b \o t
  <1> DEFINE u == b \o (<<x>> \o t)
  <1>1. PICK n \in Nat : n = Len(b)
    OBVIOUS
  <1>2. <<x>> \in Seq(X) /\ Len(<<x>>) = 1
    OBVIOUS
  <1>3. PICK y \in Seq(X) : y = <<x>> /\ Len(y) = 1
    BY <1>2
  <1>4. y \o t \in Seq(X) /\ u = b \o (y \o t) /\ u = (b \o y) \o t /\ b \o y \in Seq(X) /\ Len(b \o y) = n + 1
    BY <1>1, <1>3, ConcatProperties, ConcatAssociative
  <1> HIDE DEF u
  <1>5. SubSeq(u, 1, n) = b
    <2>1. u \in Seq(X) /\ Len(u) \in Nat /\ Len(u) = n + Len(y \o t) /\ Len(y \o t) \in Nat
      BY <1>1, <1>4, ConcatProperties
    <2>2. Without(u, y \o t) = b
      BY <1>4, TakenOff
    <2>3. Len(u) - Len(y \o t) = n
      BY <2>1
    <2> QED BY <2>2, <2>3 DEF Without
  <1>6. SubSeq(u, (n + 1) + 1, Len(u)) = t
    <2>1. PICK v \in Seq(X) : v = b \o y
      BY <1>4
    <2>2. n + 1 \in 0..Len(v)
      BY <1>4, <2>1
    <2>3. Len(After(v, n + 1)) = 0 /\ After(v, n + 1) \in Seq(X)
      <3>1. Len(After(v, n + 1)) = Len(v) - (n + 1) /\ After(v, n + 1) \in Seq(X)
        BY <2>1, <2>2, Parts
      <3> QED BY <1>4, <2>1, <3>1
    <2>4. After(v, n + 1) \o t = t
      <3>1. After(v, n + 1) = <<>>
        BY <2>3, EmptySeq
      <3> QED BY <3>1, ConcatEmptySeq
    <2>5. After(v \o t, n + 1) = t
      BY <2>1, <2>2, <2>4, AfterConcat
    <2> QED BY <1>4, <2>1, <2>5 DEF After
  <1>7. RemoveAt(u, n + 1) = SubSeq(u, 1, (n + 1) - 1) \o SubSeq(u, (n + 1) + 1, Len(u))
    BY DEF RemoveAt
  <1>8. (n + 1) - 1 = n
    OBVIOUS
  <1>9. RemoveAt(u, n + 1) = b \o t
    BY <1>5, <1>6, <1>7, <1>8
  <1> QED BY <1>1, <1>9 DEF u

\* The demuxer makes a packet of it, if it is for one and is accepted.
LEMMA PassesKeeps ==
  ASSUME MInv, PassesToDemuxer
  PROVE  /\ TypeInv' /\ Own' /\ Responses' /\ Order'
         /\ [BufferNext]_bufVars
  <1>1. /\ Has /\ GetStr(Read, Method).err = OK /\ GetU32(Read, SubId).err = OK /\ Frees(reader.msg)
        /\ UNCHANGED <<onWire, sent, last, qBuffer, process, answer, seq, response, asked>>
        /\ \/ ~IsPacket(Read) /\ UNCHANGED bufVars /\ owed' = owed
           \/ IsPacket(Read) /\ Push(Packet(Read)) /\ owed' = owed
           \/ IsPacket(Read) /\ UNCHANGED bufVars /\ owed' = [owed EXCEPT !.kodi = RemoveAt(@, Len(buffer) + 1)]
    BY DEF PassesToDemuxer, wireVars, qVars, respVars
  <1>2. TypeInv /\ Own /\ Responses /\ Order /\ IInv /\ owed \in [process : Seq(Sent), kodi : Seq(Entries)]
    BY DEF MInv, TypeInv
  <1>3. ASSUME owed' \in [process : Seq(Sent), kodi : Seq(Entries)]
        PROVE  TypeInv' /\ Own' /\ Responses' /\ ForProcess' = ForProcess
    BY <1>1, <1>2, <1>3, ReaderFrees
  <1>4. Read \in Sent /\ Read \notin Queued
    <2>1. Read \in Sent
      BY <1>1, <1>2, HandsOver
    <2>2. Read \in Samples
      BY <1>1, <2>1, WhatIsSent
    <2> QED BY <1>1, <2>1, <2>2, WhatIsSent
  <1>5. /\ Selected(Transit, Queued) = Selected(Transit', Queued)
        /\ Selected(Transit, Packets) = Before(Read, Packets, Selected(Transit', Packets))
        /\ Selected(Transit', Packets) \in Seq(Packets)
    BY <1>1, <1>2, <1>4, HandsOver DEF Before
  <1>6. CASE IsPacket(Read)
    <2>1. Read \in Packets /\ Packet(Read) \in Entries
      BY <1>4, <1>6, WhatIsSent DEF Packets
    <2>2. PICK m, s : m = Read /\ s = Selected(Transit', Packets)
      OBVIOUS
    <2>3. m \in Packets /\ s \in Seq(Packets) /\ Selected(Transit, Packets) = <<m>> \o s
      BY <1>5, <2>1, <2>2 DEF Before
    <2>4. /\ AsPackets(<<m>> \o s) = <<Packet(m)>> \o AsPackets(s) /\ AsPackets(s) \in Seq(Entries)
          /\ Packet(m) \in Entries
      BY <2>3, PacketsMade
    <2>5. PICK y \in Entries, u \in Seq(Entries) : y = Packet(m) /\ u = AsPackets(s)
      BY <2>4
    <2>6. y \in Entries /\ u \in Seq(Entries) /\ <<y>> \in Seq(Entries) /\ <<y>> \o u \in Seq(Entries)
          /\ buffer \in Seq(Entries) /\ Len(buffer) \in Nat
      BY <1>2, <2>5, ConcatProperties DEF IInv, BufferTypeOK
    <2>7. buffer \o (<<y>> \o u) = owed.kodi /\ Len(owed.kodi) <= sent
      BY <1>2, <2>3, <2>4, <2>5 DEF Order
    <2>8. CASE Push(Packet(Read)) /\ owed' = owed
      <3>1. Len(buffer) # MaxSize
        <4>1. Len(<<y>> \o u) = 1 + Len(u) /\ Len(u) \in Nat
          BY <2>6
        <4>2. Len(buffer \o (<<y>> \o u)) = Len(buffer) + Len(<<y>> \o u)
          BY <2>6, ConcatProperties
        <4>3. sent <= MaxSent /\ MaxSent <= MaxSize /\ sent \in Nat /\ MaxSent \in Nat /\ MaxSize \in Nat
          BY <1>2, MessagesAssumption, SizeAssumption DEF TypeInv
        <4> QED BY <2>6, <2>7, <4>1, <4>2, <4>3
      <3>2. buffer' = Append(buffer, y)
        BY <2>2, <2>5, <2>8, <3>1 DEF Push
      <3>3. Append(buffer, y) \o u = buffer \o (<<y>> \o u)
        BY <2>6, Seams
      <3>4. TypeInv' /\ Own' /\ Responses' /\ ForProcess' = ForProcess
        BY <1>2, <1>3, <2>8
      <3>5. Order'
        BY <1>1, <1>2, <1>5, <2>2, <2>5, <2>7, <2>8, <3>2, <3>3, <3>4 DEF Order
      <3>6. BufferNext
        BY <2>1, <2>8 DEF BufferNext
      <3> QED BY <3>4, <3>5, <3>6
    <2>9. CASE UNCHANGED bufVars /\ owed' = [owed EXCEPT !.kodi = RemoveAt(@, Len(buffer) + 1)]
      <3>1. PICK k \in Seq(Entries) : k = buffer \o u
        BY <2>6, ConcatProperties
      <3>2. RemoveAt(owed.kodi, Len(buffer) + 1) = k
        <4>1. RemoveAt(buffer \o (<<y>> \o u), Len(buffer) + 1) = buffer \o u
          BY <2>6, Dropped
        <4> QED BY <2>7, <3>1, <4>1
      <3>3. owed'.kodi = k /\ owed'.process = owed.process /\ owed' \in [process : Seq(Sent), kodi : Seq(Entries)]
        BY <1>2, <2>9, <3>2
      <3>4. TypeInv' /\ Own' /\ Responses' /\ ForProcess' = ForProcess
        BY <1>3, <3>3
      <3>5. Len(k) <= sent
        <4>1. Len(k) = Len(buffer) + Len(u) /\ Len(u) \in Nat /\ Len(<<y>> \o u) = 1 + Len(u)
          BY <2>6, <3>1, ConcatProperties
        <4>2. Len(buffer \o (<<y>> \o u)) = Len(buffer) + Len(<<y>> \o u)
          BY <2>6, ConcatProperties
        <4>3. sent \in Nat
          BY <1>2, MessagesAssumption DEF TypeInv
        <4> QED BY <2>6, <2>7, <4>1, <4>2, <4>3
      <3>6. buffer' = buffer
        BY <2>9 DEF bufVars
      <3>7. Order'
        BY <1>1, <1>2, <1>5, <2>2, <2>5, <3>1, <3>3, <3>4, <3>5, <3>6 DEF Order
      <3> QED BY <2>9, <3>4, <3>7
    <2> QED BY <1>1, <1>6, <2>8, <2>9
  <1>7. CASE ~IsPacket(Read)
    <2>1. UNCHANGED bufVars /\ buffer' = buffer /\ owed' = owed
      BY <1>1, <1>7 DEF bufVars
    <2>2. Read \notin Packets
      BY <1>7 DEF Packets
    <2>3. TypeInv' /\ Own' /\ Responses' /\ ForProcess' = ForProcess
      BY <1>2, <1>3, <2>1
    <2>4. Order'
      BY <1>1, <1>2, <1>5, <2>1, <2>2, <2>3 DEF Order, Before
    <2> QED BY <2>1, <2>3, <2>4
  <1> QED BY <1>6, <1>7

\* The response to the request that waits: there has been none before.
LEMMA SetsKeeps ==
  ASSUME MInv, SetsResponse
  PROVE  TypeInv' /\ Own' /\ Responses' /\ Order'
  <1>1. /\ Has /\ GetU32(Read, Seqno).err = OK /\ response.seq # 0
        /\ GetU32(Read, Seqno).value = response.seq
        /\ response' = [response EXCEPT !.msg = reader.msg, !.flag = TRUE]
        /\ UNCHANGED <<onWire, sent, heap, last, misfreed, forgotten, buffer, qBuffer, process, answer, seq, asked, owed>>
    BY DEF SetsResponse, Answered, wireVars, heapVars, bufVars, qVars
  <1>2. TypeInv /\ Own /\ Responses /\ Order
    BY DEF MInv
  <1>3. /\ reader.msg # 0 /\ reader.msg \in DOMAIN heap /\ Read = Content(reader.msg) /\ Read \in Sent
        /\ reader'.msg = 0 /\ reader'.at = "length" /\ reader' \in Readers
        /\ Transit = <<Read>> \o onWire /\ Transit' = onWire
    BY <1>1, <1>2, HandsOver
  <1>4. /\ response \in [seq : Nat, flag : BOOLEAN, msg : Nat] /\ reader.msg \in Nat /\ onWire \in Seq(Sent)
    BY <1>2 DEF TypeInv, Readers
  <1>5. response'.msg = reader.msg /\ response'.seq = response.seq
        /\ response' \in [seq : Nat, flag : BOOLEAN, msg : Nat]
    BY <1>1, <1>4
  <1>6. Read = Answer(seq) /\ Read \in Answers /\ response.seq = seq
    <2>1. Read \in Answers
      BY <1>1, <1>3, WhatIsSent
    <2>2. PICK n \in 1..MaxRequests : Read = Answer(n)
      BY <2>1 DEF Answers
    <2>3. GetU32(Read, Seqno).value = n
      BY <2>2, AnswerFields DEF Result
    <2>4. response.seq = seq
      BY <1>1, <1>2 DEF Responses
    <2> QED BY <1>1, <2>1, <2>2, <2>3, <2>4
  <1>7. /\ DOMAIN Transit = 1..(Len(onWire) + 1) /\ DOMAIN onWire = 1..Len(onWire) /\ Len(onWire) \in Nat
        /\ Transit[1] = Read /\ 1 \in DOMAIN Transit
        /\ \A k \in 1..Len(onWire) : k + 1 \in DOMAIN Transit /\ Transit[k + 1] = onWire[k]
    BY <1>3, <1>4
  <1>8. ~asked /\ response.msg = 0
    <2>1. (asked \/ response.msg # 0) => \A k \in DOMAIN Transit : Transit[k] # Answer(seq)
      BY <1>2 DEF Responses
    <2> QED BY <1>6, <1>7, <2>1, Zenon
  <1>9. answer = 0
    BY <1>1, <1>2 DEF Responses, NoResponse
  <1>10. TypeInv'
    BY <1>1, <1>2, <1>3, <1>5 DEF TypeInv
  <1>11. Own'
    <2>1. Single = {reader.msg, process, 0} /\ Single' = {0, process, reader.msg}
      BY <1>1, <1>3, <1>5, <1>8, <1>9 DEF Single
    <2>2. /\ \A a \in DOMAIN heap' : a \in Single' \/ a \in forgotten' \/ \E k \in DOMAIN qBuffer' : qBuffer'[k] = a
          /\ \A a \in Single' : a # 0 => a \in DOMAIN heap' /\ \A k \in DOMAIN qBuffer' : qBuffer'[k] # a
          /\ \A k \in DOMAIN qBuffer' : qBuffer'[k] \in DOMAIN heap'
          /\ \A k, l \in DOMAIN qBuffer' : qBuffer'[k] = qBuffer'[l] => k = l
      BY <1>1, <1>2, <2>1 DEF Own
    <2>3. /\ reader'.msg # 0 => reader'.msg \notin {process', response'.msg, answer'}
          /\ process' # 0 => process' \notin {response'.msg, answer'}
          /\ response'.msg # 0 => response'.msg # answer'
      BY <1>1, <1>2, <1>3, <1>5, <1>9 DEF Own
    <2>4. ~misfreed'
      BY <1>1, <1>2, Zenon DEF Own
    <2> QED BY <2>2, <2>3, <2>4, Zenon DEF Own
  <1>12. ForProcess' = ForProcess
    <2>1. \A a : Content(a)' = Content(a)
      BY <1>1 DEF Content
    <2> QED BY <1>1, <1>2, <2>1, Unmoved
  <1>13. Responses'
    <2>1. Content(response.msg)' = Answer(seq)
      <3>1. Content(response.msg)' = Content(reader.msg)
        BY <1>1, <1>5 DEF Content
      <3> QED BY <1>3, <1>6, <3>1
    <2>2. Answer(seq)' = Answer(seq)
      BY <1>1 DEF Answer
    <2>3. \A k \in DOMAIN Transit' : k \in 1..Len(onWire) /\ k \in Nat /\ Transit'[k] = onWire[k]
      BY <1>3, <1>7
    <2>4. \A k \in DOMAIN Transit' : Transit'[k] \in Answers => \E n \in 1..seq' : Transit'[k] = Answer(n)
      <3>1. \A k \in DOMAIN Transit : Transit[k] \in Answers => \E n \in 1..seq : Transit[k] = Answer(n)
        BY <1>2 DEF Responses
      <3> QED BY <1>1, <1>7, <2>3, <3>1
    <2>5. \A k, l \in DOMAIN Transit : Transit[k] = Transit[l] /\ Transit[k] \in Answers => k = l
      BY <1>2 DEF Responses
    <2>6. \A k, l \in DOMAIN Transit' : Transit'[k] = Transit'[l] /\ Transit'[k] \in Answers => k = l
      <3>1. \A k, l \in DOMAIN Transit' : k + 1 = l + 1 => k = l
        BY <2>3
      <3> QED BY <1>7, <2>3, <2>5, <3>1
    <2>7. \A k \in DOMAIN Transit' : Transit'[k] # Answer(seq)
      <3>1. \A k \in DOMAIN Transit' : k + 1 # 1
        BY <2>3
      <3> QED BY <1>6, <1>7, <2>3, <2>5, <3>1
    <2>8. response'.seq \in {0, seq'} /\ seq' # 0
      BY <1>1, <1>5, <1>6
    <2>9. answer' = 0 /\ ~asked'
      BY <1>1, <1>8, <1>9, Zenon
    <2> QED BY <2>1, <2>2, <2>4, <2>6, <2>7, <2>8, <2>9, Zenon DEF Responses
  <1>14. Order'
    <2>1. Read \notin Queued /\ Read \notin Packets
      BY <1>6, WhatIsSent
    <2>2. /\ Selected(Transit, Queued) = Selected(Transit', Queued)
          /\ Selected(Transit, Packets) = Selected(Transit', Packets)
      BY <1>1, <1>2, <2>1, HandsOver DEF Before
    <2> QED BY <1>1, <1>2, <1>12, <2>2 DEF Order
  <1> QED BY <1>10, <1>11, <1>13, <1>14

\* m_queue owns the message: there is room for it.
LEMMA StoresKeeps ==
  ASSUME MInv, Stores
  PROVE  /\ TypeInv' /\ Own' /\ Responses' /\ Order'
         /\ [Q!BufferNext]_(Q!bufVars)
  <1>1. /\ Has /\ GetStr(Read, Method).err = OK /\ GetU32(Read, SubId).err # OK /\ Q!Push(reader.msg)
        /\ UNCHANGED <<onWire, sent, heap, last, misfreed, forgotten, buffer, process, response, answer, seq, asked, owed>>
    BY DEF Stores, CopiedFrom, Frees, wireVars, bufVars, respVars
  <1>2. TypeInv /\ Own /\ Responses /\ Order /\ QP!IInv
    BY DEF MInv
  <1>3. /\ reader.msg # 0 /\ reader.msg \in DOMAIN heap /\ Read = Content(reader.msg) /\ Read \in Sent
        /\ reader'.msg = 0 /\ reader'.at = "length" /\ reader' \in Readers
        /\ Transit = <<Read>> \o onWire /\ Transit' = onWire
    BY <1>1, <1>2, HandsOver
  <1>4. reader.msg \in Nat /\ reader.msg \in Addresses /\ qBuffer \in Seq(Addresses) /\ Len(qBuffer) \in Nat
    BY <1>2, <1>3 DEF TypeInv, Readers, Addresses
  <1>5. /\ InQueue \in Seq(Sent) /\ InProcess \in Seq(Sent) /\ Len(InQueue) = Len(qBuffer)
        /\ \A i \in 1..Len(qBuffer) : InQueue[i] = Content(qBuffer[i])
        /\ ForProcess \in Seq(Sent) /\ Len(ForProcess) = Len(InProcess) + Len(qBuffer)
    BY <1>2, Contents
  <1>6. Read \in Queued /\ Read \notin Packets
    BY <1>1, <1>3, WhatIsSent
  <1>7. PICK s \in Seq(Sent), x \in Sent : s = Selected(Transit', Queued) /\ x = Read
    BY <1>1, <1>2, <1>3, HandsOver
  <1>8. s \in Seq(Sent) /\ x \in Sent /\ <<x>> \in Seq(Sent)
    BY <1>7
  <1>9. Selected(Transit, Queued) = <<x>> \o s /\ Selected(Transit, Packets) = Selected(Transit', Packets)
    BY <1>1, <1>2, <1>6, <1>7, HandsOver DEF Before
  <1>10. ForProcess \o (<<x>> \o s) = owed.process
    BY <1>2, <1>9 DEF Order
  <1>11. Len(qBuffer) # MaxSize
    <2>1. PICK t \in Seq(Sent) : t = <<x>> \o s
      BY <1>8, ConcatProperties
    <2>2. Len(t) >= 1 /\ Len(t) \in Nat
      BY <1>8, <2>1, ConcatProperties
    <2>3. Len(owed.process) = Len(ForProcess) + Len(t)
      <3>1. ForProcess \in Seq(Sent) /\ t \in Seq(Sent)
        BY <1>5, <2>1
      <3>2. Len(ForProcess \o t) = Len(ForProcess) + Len(t)
        BY <3>1, ConcatProperties
      <3> QED BY <1>10, <2>1, <3>2
    <2>4. /\ sent <= MaxSent /\ MaxSent <= MaxSize /\ sent \in Nat /\ MaxSent \in Nat /\ MaxSize \in Nat
          /\ Len(owed.process) <= sent
      BY <1>2, MessagesAssumption, SizeAssumption DEF TypeInv, Order
    <2>5. Len(InProcess) \in Nat
      BY <1>5
    <2> QED BY <1>4, <1>5, <2>2, <2>3, <2>4, <2>5
  <1>12. PICK r \in Addresses : r = reader.msg
    BY <1>4
  <1>13. /\ qBuffer' = Append(qBuffer, r) /\ qBuffer' \in Seq(Addresses) /\ Len(qBuffer') = Len(qBuffer) + 1
         /\ DOMAIN qBuffer' = 1..(Len(qBuffer) + 1) /\ DOMAIN qBuffer = 1..Len(qBuffer)
         /\ \A k \in 1..Len(qBuffer) : qBuffer'[k] = qBuffer[k]
         /\ qBuffer'[Len(qBuffer) + 1] = r
    <2>1. qBuffer' = Append(qBuffer, r)
      BY <1>1, <1>11, <1>12 DEF Q!Push
    <2> QED BY <1>4, <1>12, <2>1
  <1>14. \A k \in DOMAIN qBuffer' : k \in DOMAIN qBuffer \/ k = Len(qBuffer) + 1
    BY <1>4, <1>13
  <1>15. TypeInv'
    BY <1>1, <1>2, <1>3, <1>13 DEF TypeInv
  <1>16. /\ r # 0 /\ r \in DOMAIN heap /\ r \notin {process, response.msg, answer}
         /\ \A k \in DOMAIN qBuffer : qBuffer[k] # r
    BY <1>2, <1>3, <1>12 DEF Own, Single
  <1>17. Own'
    <2>1. Single = {r, process, response.msg, answer} /\ Single' = {0, process, response.msg, answer}
      BY <1>1, <1>3, <1>12 DEF Single
    <2>2. \A a \in DOMAIN heap' : a \in Single' \/ a \in forgotten' \/ \E k \in DOMAIN qBuffer' : qBuffer'[k] = a
      <3>1. SUFFICES ASSUME NEW a \in DOMAIN heap, a \notin Single', a \notin forgotten'
                     PROVE  \E k \in DOMAIN qBuffer' : qBuffer'[k] = a
        BY <1>1
      <3>2. CASE a = r
        <4>1. Len(qBuffer) + 1 \in DOMAIN qBuffer'
          BY <1>4, <1>13
        <4> QED BY <1>13, <3>2, <4>1
      <3>3. CASE a # r
        <4>1. PICK k \in DOMAIN qBuffer : qBuffer[k] = a
          BY <1>1, <1>2, <2>1, <3>1, <3>3 DEF Own
        <4>2. k \in DOMAIN qBuffer' /\ qBuffer'[k] = a
          BY <1>4, <1>13, <4>1
        <4> QED BY <4>2
      <3> QED BY <3>2, <3>3
    <2>3. \A k \in DOMAIN qBuffer' : qBuffer'[k] = r \/ (k \in DOMAIN qBuffer /\ qBuffer'[k] = qBuffer[k])
      BY <1>13, <1>14
    <2>4. \A a \in Single' : a # 0 => a \in DOMAIN heap' /\ \A k \in DOMAIN qBuffer' : qBuffer'[k] # a
      BY <1>1, <1>2, <1>16, <2>1, <2>3 DEF Own
    <2>5. \A k \in DOMAIN qBuffer' : qBuffer'[k] \in DOMAIN heap'
      BY <1>1, <1>2, <1>16, <2>3 DEF Own
    <2>6. \A k, l \in DOMAIN qBuffer' : qBuffer'[k] = qBuffer'[l] => k = l
      <3>1. \A k, l \in DOMAIN qBuffer : qBuffer[k] = qBuffer[l] => k = l
        BY <1>2 DEF Own
      <3> QED BY <1>13, <1>14, <1>16, <3>1
    <2>7. /\ reader'.msg # 0 => reader'.msg \notin {process', response'.msg, answer'}
          /\ process' # 0 => process' \notin {response'.msg, answer'}
          /\ response'.msg # 0 => response'.msg # answer'
      BY <1>1, <1>2, <1>3 DEF Own
    <2>8. ~misfreed'
      BY <1>1, <1>2, Zenon DEF Own
    <2> QED BY <2>2, <2>4, <2>5, <2>6, <2>7, <2>8, Zenon DEF Own
  <1>18. \A a : Content(a)' = Content(a)
    BY <1>1 DEF Content
  <1>19. Responses'
    BY <1>1, <1>2, <1>3, <1>18, NoResponseMoved
  <1>20. ForProcess' = Append(ForProcess, x)
    <2>1. InProcess' = InProcess
      BY <1>1 DEF InProcess, Content
    <2>2. InQueue' = Append(InQueue, x)
      <3>1. DOMAIN InQueue' = 1..(Len(qBuffer) + 1)
        BY <1>13 DEF InQueue
      <3>2. \A k \in 1..(Len(qBuffer) + 1) : InQueue'[k] = Content(qBuffer[k])'
        BY <1>13 DEF InQueue
      <3>3. \A k \in 1..Len(qBuffer) : k \in 1..(Len(qBuffer) + 1) /\ Content(qBuffer[k])' = Content(qBuffer[k])
        BY <1>1, <1>4, <1>13 DEF Content
      <3>4. Len(qBuffer) + 1 \in 1..(Len(qBuffer) + 1)
        BY <1>4
      <3>5. InQueue'[Len(qBuffer) + 1] = x
        <4>1. PICK n : n = Len(qBuffer) + 1
          OBVIOUS
        <4>2. InQueue'[n] = Content(qBuffer[n])' /\ qBuffer'[n] = r
          BY <1>13, <3>2, <3>4, <4>1
        <4>3. Content(qBuffer[n])' = Content(r)
          BY <1>1, <4>2 DEF Content
        <4> QED BY <1>3, <1>7, <1>12, <4>1, <4>2, <4>3
      <3>6. \A k \in 1..Len(qBuffer) : InQueue'[k] = InQueue[k]
        BY <1>5, <3>2, <3>3
      <3> DEFINE t == Append(InQueue, x)
      <3>7. /\ DOMAIN t = 1..(Len(qBuffer) + 1) /\ t[Len(qBuffer) + 1] = x
            /\ \A k \in 1..Len(qBuffer) : t[k] = InQueue[k]
        BY <1>5, <1>8
      <3>8. \A k \in 1..(Len(qBuffer) + 1) : k \in 1..Len(qBuffer) \/ k = Len(qBuffer) + 1
        BY <1>4
      <3>9. InQueue' = [k \in 1..(Len(qBuffer) + 1) |-> InQueue'[k]]
        BY <1>13 DEF InQueue
      <3>10. t = [k \in 1..(Len(qBuffer) + 1) |-> t[k]]
        <4>1. t \in Seq(Sent) /\ Len(t) = Len(qBuffer) + 1
          BY <1>5, <1>8, AppendProperties
        <4> HIDE DEF t
        <4> QED BY <4>1
      <3> HIDE DEF t
      <3>11. \A k \in 1..(Len(qBuffer) + 1) : InQueue'[k] = t[k]
        BY <3>5, <3>6, <3>7, <3>8
      <3> QED BY <3>9, <3>10, <3>11 DEF t
    <2>3. Append(InProcess \o InQueue, x) = InProcess \o Append(InQueue, x)
      <3>1. InProcess \in Seq(Sent) /\ InQueue \in Seq(Sent) /\ x \in Sent
        BY <1>5, <1>8
      <3>2. PICK p \in Seq(Sent), q \in Seq(Sent), y \in Sent : p = InProcess /\ q = InQueue /\ y = x
        BY <3>1
      <3>3. p \in Seq(Sent) /\ q \in Seq(Sent) /\ y \in Sent
        BY <3>2
      <3>4. Append(p \o q, y) = p \o Append(q, y)
        BY <3>3, SMTT(60)
      <3> QED BY <3>2, <3>4
    <2> QED BY <2>1, <2>2, <2>3 DEF ForProcess
  <1>21. Order'
    <2>1. Append(ForProcess, x) \o s = ForProcess \o (<<x>> \o s)
      <3>1. ForProcess \in Seq(Sent) /\ s \in Seq(Sent) /\ x \in Sent
        BY <1>5, <1>8
      <3> QED BY <3>1, Seams
    <2> QED BY <1>1, <1>2, <1>7, <1>9, <1>10, <1>20, <2>1 DEF Order
  <1>22. Q!BufferNext
    BY <1>1, <1>4 DEF Q!BufferNext
  <1> QED BY <1>15, <1>17, <1>19, <1>21, <1>22

-----------------------------------------------------------------------------
(***************************************************************************)
(* The server sends, and the connection breaks.                            *)
(***************************************************************************)
\* A message is sent: it is the last one in transit.
LEMMA SendsKeeps ==
  ASSUME TypeInv, Own, Order, NEW m \in Sent, Sends(m), sent' \in 0..MaxSent, sent' >= sent,
         (m \in Queued \/ m \in Packets) => sent' = sent + 1,
         UNCHANGED <<reader, heap, last, misfreed, forgotten, buffer, qBuffer, process, seq, response, answer>>
  PROVE  TypeInv' /\ Own' /\ Order' /\ Transit' = Append(Transit, m)
  <1>1. /\ onWire' = Append(onWire, m)
        /\ owed' = [process |-> IF IsQueued(m) THEN Append(owed.process, m) ELSE owed.process,
                    kodi |-> IF IsPacket(m) THEN Append(owed.kodi, Packet(m)) ELSE owed.kodi]
    BY DEF Sends
  <1>2. (IsQueued(m) <=> m \in Queued) /\ (IsPacket(m) <=> m \in Packets)
    BY DEF Queued, Packets
  <1>3. /\ InReader \in Seq(Sent) /\ onWire \in Seq(Sent) /\ Transit \in Seq(Sent) /\ ForProcess \in Seq(Sent)
    BY Contents
  <1>4. \A a : Content(a)' = Content(a)
    BY DEF Content
  <1>5. ForProcess' = ForProcess
    BY <1>4, Unmoved
  <1>6. Transit' = Append(Transit, m)
    <2>1. InReader' = InReader
      BY DEF InReader, Content
    <2>2. PICK p \in Seq(Sent), q \in Seq(Sent) : p = InReader /\ q = onWire
      BY <1>3
    <2>3. Append(p \o q, m) = p \o Append(q, m)
      OBVIOUS
    <2> QED BY <1>1, <2>1, <2>2, <2>3 DEF Transit
  <1>7. Packet(m) \in Entries \/ m \notin Packets
    BY WhatIsSent
  <1>8. /\ owed.process \in Seq(Sent) /\ owed.kodi \in Seq(Entries) /\ Len(owed.process) <= sent
        /\ Len(owed.kodi) <= sent /\ Len(owed.process) \in Nat /\ Len(owed.kodi) \in Nat /\ sent \in Nat
    BY DEF TypeInv, Order
  <1>9. /\ owed'.process = IF m \in Queued THEN Append(owed.process, m) ELSE owed.process
        /\ owed'.kodi = IF m \in Packets THEN Append(owed.kodi, Packet(m)) ELSE owed.kodi
        /\ owed' = [process |-> owed'.process, kodi |-> owed'.kodi]
    BY <1>1, <1>2
  <1>10. owed'.process \in Seq(Sent) /\ owed'.kodi \in Seq(Entries)
    <2>1. owed'.process \in Seq(Sent)
      BY <1>8, <1>9
    <2>2. CASE m \in Packets
      <3>1. PICK y \in Entries : y = Packet(m)
        BY <1>7, <2>2
      <3>2. Append(owed.kodi, y) \in Seq(Entries)
        BY <1>8, <3>1
      <3> QED BY <1>9, <2>1, <2>2, <3>1, <3>2
    <2>3. CASE m \notin Packets
      BY <1>8, <1>9, <2>1, <2>3
    <2> QED BY <2>2, <2>3
  <1>11. Len(owed'.process) <= sent' /\ Len(owed'.kodi) <= sent'
    <2>1. Len(owed'.process) <= sent'
      BY <1>8, <1>9
    <2>2. CASE m \in Packets
      <3>1. PICK y \in Entries : y = Packet(m)
        BY <1>7, <2>2
      <3>2. Len(Append(owed.kodi, y)) = Len(owed.kodi) + 1
        BY <1>8, <3>1
      <3> QED BY <1>8, <1>9, <2>1, <2>2, <3>1, <3>2
    <2>3. CASE m \notin Packets
      BY <1>8, <1>9, <2>1, <2>3
    <2> QED BY <2>2, <2>3
  <1>12. TypeInv'
    <2>1. onWire' \in Seq(Sent)
      BY <1>1, <1>3
    <2>2. owed' \in [process : Seq(Sent), kodi : Seq(Entries)]
      BY <1>9, <1>10
    <2> QED BY <2>1, <2>2 DEF TypeInv
  <1>13. Own'
    BY Zenon DEF Own, Single
  <1>14. ForProcess \o Selected(Transit', Queued) = owed'.process
    <2>1. Selected(Transit', Queued) = IF m \in Queued THEN Append(Selected(Transit, Queued), m)
                                       ELSE Selected(Transit, Queued)
      BY <1>3, <1>6, SelectedAppend
    <2>2. CASE m \in Queued
      <3>1. PICK p \in Seq(Sent), q \in Seq(Sent) : p = ForProcess /\ q = Selected(Transit, Queued)
        BY <1>3, SelectedSent
      <3>2. Append(p \o q, m) = p \o Append(q, m)
        OBVIOUS
      <3>3. p \o q = owed.process
        BY <3>1 DEF Order
      <3> QED BY <1>9, <2>1, <2>2, <3>1, <3>2, <3>3
    <2>3. CASE m \notin Queued
      BY <1>9, <2>1, <2>3 DEF Order
    <2> QED BY <2>2, <2>3
  <1>15. buffer \o AsPackets(Selected(Transit', Packets)) = owed'.kodi
    <2>1. Selected(Transit', Packets) = IF m \in Packets THEN Append(Selected(Transit, Packets), m)
                                        ELSE Selected(Transit, Packets)
      BY <1>3, <1>6, SelectedAppend
    <2>2. CASE m \in Packets
      <3>1. PICK s \in Seq(Packets) : s = Selected(Transit, Packets)
        BY <1>3, SelectedSent
      <3>2. AsPackets(Append(s, m)) = Append(AsPackets(s), Packet(m)) /\ AsPackets(s) \in Seq(Entries)
        BY <2>2, <3>1, PacketsMade
      <3>3. PICK q \in Seq(Entries), y \in Entries : q = AsPackets(s) /\ y = Packet(m)
        BY <1>7, <2>2, <3>2
      <3>4. buffer \o q = owed.kodi
        BY <3>1, <3>3 DEF Order
      <3>5. buffer \o Append(q, y) = Append(buffer \o q, y)
        <4>1. buffer \o Append(q, y) = Append(buffer \o q, y)
          OBVIOUS
        <4> QED BY <4>1
      <3> QED BY <1>9, <2>1, <2>2, <3>1, <3>2, <3>3, <3>4, <3>5
    <2>3. CASE m \notin Packets
      BY <1>9, <2>1, <2>3 DEF Order
    <2> QED BY <2>2, <2>3
  <1> QED BY <1>5, <1>6, <1>11, <1>12, <1>13, <1>14, <1>15 DEF Order

\* The server sends something of its own accord.
LEMMA ServerSendsKeeps ==
  ASSUME MInv, ServerSends
  PROVE  TypeInv' /\ WireInv' /\ Own' /\ Responses' /\ Order'
  <1>1. PICK m \in Samples : Sends(m)
    BY DEF ServerSends
  <1>2. /\ sent < MaxSent /\ sent' = sent + 1
        /\ UNCHANGED <<reader, heap, last, misfreed, forgotten, buffer, qBuffer, process, seq, response, answer, asked>>
    BY DEF ServerSends, heapVars, bufVars, qVars, respVars
  <1>3. TypeInv /\ Own /\ Responses /\ Order /\ WireInv
    BY DEF MInv
  <1>4. m \in Sent /\ m \notin Answers
    BY <1>1, WhatIsSent DEF Sent
  <1>5. sent' \in 0..MaxSent /\ sent' >= sent
    BY <1>2, <1>3, MessagesAssumption DEF TypeInv
  <1>6. TypeInv' /\ Own' /\ Order' /\ Transit' = Append(Transit, m)
    BY <1>1, <1>2, <1>3, <1>4, <1>5, SendsKeeps
  <1>7. WireInv'
    BY <1>1, <1>2, <1>3, <1>4, WireSends
  <1>8. Responses'
    <2>1. Transit \in Seq(Sent)
      BY <1>3, Contents
    <2>2. /\ \A k \in DOMAIN Transit' : Transit'[k] \in Answers => k \in DOMAIN Transit /\ Transit'[k] = Transit[k]
      BY <1>4, <1>6, <2>1
    <2>3. Content(response.msg)' = Content(response.msg) /\ Content(answer)' = Content(answer)
      BY <1>2 DEF Content
    <2>4. \A k \in DOMAIN Transit' : Transit'[k] \in Answers => \E n \in 1..seq' : Transit'[k] = Answer(n)
      BY <1>2, <1>3, <2>2 DEF Responses
    <2>5. \A k, l \in DOMAIN Transit' : Transit'[k] = Transit'[l] /\ Transit'[k] \in Answers => k = l
      <3>1. \A k, l \in DOMAIN Transit : Transit[k] = Transit[l] /\ Transit[k] \in Answers => k = l
        BY <1>3 DEF Responses
      <3> QED BY <2>2, <3>1
    <2>6. (asked \/ response.msg # 0) => \A k \in DOMAIN Transit' : Transit'[k] # Answer(seq)
      <3>1. SUFFICES ASSUME asked \/ response.msg # 0, NEW k \in DOMAIN Transit', Transit'[k] = Answer(seq)
                     PROVE  FALSE
        BY Zenon
      <3>2. seq \in 1..MaxRequests
        <4>1. seq # 0
          <5>1. CASE asked
            BY <1>3, <5>1, Zenon DEF Responses
          <5>2. CASE response.msg # 0
            BY <1>3, <5>2 DEF Responses
          <5> QED BY <3>1, <5>1, <5>2, Zenon
        <4> QED BY <1>3, <4>1, MessagesAssumption DEF TypeInv
      <3>3. Transit'[k] \in Answers
        BY <3>1, <3>2 DEF Answers
      <3>4. (asked \/ response.msg # 0) => \A i \in DOMAIN Transit : Transit[i] # Answer(seq)
        BY <1>3 DEF Responses
      <3> QED BY <2>2, <3>1, <3>3, <3>4, Zenon
    <2>7. response'.seq \in {0, seq'}
      BY <1>2, <1>3 DEF Responses
    <2>8. asked' => seq' # 0 /\ response'.msg = 0
      BY <1>2, <1>3, Zenon DEF Responses
    <2>9. /\ response'.msg # 0 => seq' # 0 /\ Content(response.msg)' = Answer(seq)'
          /\ answer' # 0 => seq' # 0 /\ Content(answer)' = Answer(seq)' /\ response' = NoResponse
      BY <1>2, <1>3, <2>3 DEF Responses, Answer
    <2>10. Answer(seq)' = Answer(seq) /\ response' = response /\ asked' = asked /\ NoResponse' = NoResponse
      BY <1>2 DEF Answer, NoResponse
    <2> QED BY <2>4, <2>5, <2>6, <2>7, <2>8, <2>9, <2>10, Zenon DEF Responses
  <1> QED BY <1>3, <1>6, <1>7, <1>8

\* It answers the request, of which it had not yet sent the response.
LEMMA AnswersKeeps ==
  ASSUME MInv, ServerAnswers
  PROVE  TypeInv' /\ WireInv' /\ Own' /\ Responses' /\ Order'
  <1>1. /\ asked /\ asked' = FALSE /\ Sends(Answer(seq))
        /\ UNCHANGED <<sent, reader, heap, last, misfreed, forgotten, buffer, qBuffer, process, seq, response, answer>>
    BY DEF ServerAnswers, heapVars, bufVars, qVars
  <1>2. TypeInv /\ Own /\ Responses /\ Order /\ WireInv
    BY DEF MInv
  <1>3. seq # 0 /\ response.msg = 0
    BY <1>1, <1>2, Zenon DEF Responses
  <1>4. seq \in 1..MaxRequests /\ sent \in 0..MaxSent /\ sent >= sent
    BY <1>2, <1>3, MessagesAssumption DEF TypeInv
  <1>5. PICK m \in Sent : m = Answer(seq)
    BY <1>4 DEF Sent, Answers
  <1>6. m \in Sent /\ m \in Answers /\ m \notin Queued /\ m \notin Packets
    BY <1>4, <1>5, WhatIsSent DEF Answers
  <1>7. Sends(m)
    BY <1>1, <1>5
  <1>8. TypeInv' /\ Own' /\ Order' /\ Transit' = Append(Transit, m)
    BY <1>1, <1>2, <1>4, <1>6, <1>7, SendsKeeps
  <1>9. WireInv'
    BY <1>1, <1>2, <1>6, <1>7, WireSends
  <1>10. Responses'
    <2>1. Transit \in Seq(Sent)
      BY <1>2, Contents
    <2>2. \A k \in DOMAIN Transit' : (k \in DOMAIN Transit /\ Transit'[k] = Transit[k])
                                     \/ (k = Len(Transit) + 1 /\ Transit'[k] = m)
      BY <1>8, <2>1
    <2>3. \A k \in DOMAIN Transit : Transit[k] # m
      <3>1. (asked \/ response.msg # 0) => \A k \in DOMAIN Transit : Transit[k] # Answer(seq)
        BY <1>2 DEF Responses
      <3> QED BY <1>1, <1>5, <3>1, Zenon
    <2>4. \A k \in DOMAIN Transit' : Transit'[k] \in Answers => \E n \in 1..seq' : Transit'[k] = Answer(n)
      <3>1. \A k \in DOMAIN Transit : Transit[k] \in Answers => \E n \in 1..seq : Transit[k] = Answer(n)
        BY <1>2 DEF Responses
      <3>2. seq \in 1..seq
        BY <1>4
      <3> QED BY <1>1, <1>5, <2>2, <3>1, <3>2
    <2>5. \A k, l \in DOMAIN Transit' : Transit'[k] = Transit'[l] /\ Transit'[k] \in Answers => k = l
      <3>1. \A k, l \in DOMAIN Transit : Transit[k] = Transit[l] /\ Transit[k] \in Answers => k = l
        BY <1>2 DEF Responses
      <3> QED BY <2>2, <2>3, <3>1
    <2>6. ~asked' /\ response'.msg = 0
      BY <1>1, <1>3, Zenon
    <2>7. response'.seq \in {0, seq'}
      BY <1>1, <1>2 DEF Responses
    <2>8. answer' # 0 => seq' # 0 /\ Content(answer)' = Answer(seq)' /\ response' = NoResponse'
      BY <1>1, <1>2 DEF Responses, Answer, Content, NoResponse
    <2> QED BY <2>4, <2>5, <2>6, <2>7, <2>8, Zenon DEF Responses
  <1> QED BY <1>8, <1>9, <1>10

\* The connection breaks: what is lost is what is not owed any more.
LEMMA LossKeeps ==
  ASSUME MInv, Loss
  PROVE  TypeInv' /\ WireInv' /\ Own' /\ Responses' /\ Order'
  <1>1. /\ reader.msg = 0 /\ wire' = <<>> /\ onWire' = <<>> /\ asked' = FALSE /\ reader' = AtLength
        /\ owed' = [process |-> Without(owed.process, Chosen(onWire, IsQueued)),
                    kodi |-> Without(owed.kodi, Chosen(onWire, IsPacket))]
        /\ UNCHANGED <<sent, heap, last, misfreed, forgotten, buffer, qBuffer, process, seq, response, answer>>
    BY DEF Loss, Breaks, heapVars, bufVars, qVars
  <1>2. TypeInv /\ Own /\ Responses /\ Order /\ IInv
    BY DEF MInv
  <1>3. Transit = onWire /\ onWire \in Seq(Sent) /\ ForProcess \in Seq(Sent)
    BY <1>1, <1>2, Contents
  <1>4. reader'.msg = 0 /\ reader'.at = "length" /\ reader' \in Readers
    BY <1>1 DEF AtLength, Readers
  <1>5. Transit' = <<>>
    <2>1. InReader' = <<>> /\ onWire' = <<>>
      BY <1>1, <1>4 DEF InReader
    <2> QED BY <2>1 DEF Transit
  <1>6. PICK s \in Seq(Sent), t \in Seq(Packets) :
          s = Selected(onWire, Queued) /\ t = Selected(onWire, Packets)
    BY <1>3, SelectedSent
  <1>7. Chosen(onWire, IsQueued) = s /\ Chosen(onWire, IsPacket) = t
    BY <1>3, <1>6, ChosenQueued, ChosenPackets
  <1>8. PICK u \in Seq(Entries) : u = AsPackets(t) /\ Len(u) = Len(t)
    BY <1>6, PacketsMade
  <1>9. ForProcess \o s = owed.process /\ buffer \o u = owed.kodi
    BY <1>2, <1>3, <1>6, <1>8 DEF Order
  <1>10. PICK p \in Seq(Sent), b \in Seq(Entries) : p = ForProcess /\ b = buffer
    BY <1>2, <1>3 DEF IInv, BufferTypeOK
  <1>11. Without(p \o s, s) = p /\ Without(b \o u, t) = b
    <2>1. p \in Seq(Sent) /\ s \in Seq(Sent) /\ b \in Seq(Entries) /\ u \in Seq(Entries) /\ Len(t) = Len(u)
      BY <1>6, <1>8, <1>10
    <2>2. Without(p \o s, s) = p
      BY <2>1, TakenOff
    <2>3. Without(b \o u, t) = b
      BY <2>1, TakenOff
    <2> QED BY <2>2, <2>3
  <1>12. owed' = [process |-> p, kodi |-> b]
    BY <1>1, <1>7, <1>9, <1>10, <1>11
  <1>13. TypeInv'
    <2>1. owed' \in [process : Seq(Sent), kodi : Seq(Entries)]
      BY <1>12
    <2>2. onWire' \in Seq(Sent)
      BY <1>1
    <2> QED BY <1>1, <1>2, <1>4, <2>1, <2>2 DEF TypeInv
  <1>14. Own'
    <2>1. reader'.msg = reader.msg
      BY <1>1, <1>4
    <2>2. Single' = Single
      BY <1>1, <2>1 DEF Single
    <2> QED BY <1>1, <1>2, <2>1, <2>2, Zenon DEF Own
  <1>15. WireInv'
    BY <1>1, WireEmpty
  <1>16. \A a : Content(a)' = Content(a)
    BY <1>1 DEF Content
  <1>17. Responses'
    <2>1. DOMAIN Transit' = {}
      BY <1>5
    <2>2. ~asked'
      BY <1>1, Zenon
    <2>3. /\ response'.seq \in {0, seq'}
          /\ response'.msg # 0 => seq' # 0 /\ Content(response.msg)' = Answer(seq)'
          /\ answer' # 0 => seq' # 0 /\ Content(answer)' = Answer(seq)' /\ response' = NoResponse'
      BY <1>1, <1>2 DEF Responses, Answer, Content, NoResponse
    <2> QED BY <2>1, <2>2, <2>3, Zenon DEF Responses
  <1>18. Order'
    <2>1. ForProcess' = p /\ buffer' = b
      BY <1>1, <1>2, <1>10, <1>16, Unmoved
    <2>2. Selected(Transit', Queued) = <<>> /\ AsPackets(Selected(Transit', Packets)) = <<>>
      BY <1>5, SelectedNone DEF AsPackets
    <2>3. p \o <<>> = p /\ b \o <<>> = b
      OBVIOUS
    <2>4. Len(p) <= sent /\ Len(b) <= sent
      <3>1. Len(p \o s) <= sent /\ Len(b \o u) <= sent
        BY <1>2, <1>9, <1>10 DEF Order
      <3>2. Len(p \o s) = Len(p) + Len(s) /\ Len(b \o u) = Len(b) + Len(u)
        OBVIOUS
      <3>3. Len(p) \in Nat /\ Len(s) \in Nat /\ Len(b) \in Nat /\ Len(u) \in Nat /\ sent \in Nat
        BY <1>2, MessagesAssumption DEF TypeInv
      <3> QED BY <3>1, <3>2, <3>3
    <2>5. owed'.process = p /\ owed'.kodi = b /\ sent' = sent
      BY <1>1, <1>12
    <2> QED BY <2>1, <2>2, <2>3, <2>4, <2>5 DEF Order
  <1> QED BY <1>13, <1>14, <1>15, <1>17, <1>18

-----------------------------------------------------------------------------
(***************************************************************************)
(* ReadMessage reads.                                                      *)
(***************************************************************************)
\* Nothing has changed but the bytes.
LEMMA ReadsKeeps ==
  ASSUME MInv, ReadLength \/ ReadBody
  PROVE  TypeInv' /\ WireInv' /\ Own' /\ Responses' /\ Order'
  <1>1. TypeInv /\ Own /\ Responses /\ Order /\ WireInv
    BY DEF MInv
  <1>2. WireInv' /\ reader' \in Readers /\ reader'.msg = reader.msg /\ reader'.at = "body"
    BY <1>1, WireLength, WireBody
  <1>3. /\ reader.at # "message"
        /\ UNCHANGED <<onWire, sent, heap, last, misfreed, forgotten, buffer, qBuffer, process, seq, response, answer,
                       asked, owed>>
    BY DEF ReadLength, ReadBody, heapVars, bufVars, qVars, respVars
  <1>4. reader.msg = 0
    BY <1>1, <1>3 DEF TypeInv
  <1>5. TypeInv'
    BY <1>1, <1>2, <1>3, <1>4 DEF TypeInv
  <1>6. Own'
    <2>1. Single' = Single
      BY <1>2, <1>3 DEF Single
    <2>2. DOMAIN heap' = DOMAIN heap /\ DOMAIN qBuffer' = DOMAIN qBuffer
      BY <1>3
    <2> QED BY <1>1, <1>2, <1>3, <2>1, <2>2, Zenon DEF Own
  <1>7. \A a : Content(a)' = Content(a)
    BY <1>3 DEF Content
  <1>8. Transit' = Transit /\ ForProcess' = ForProcess
    <2>1. InReader' = InReader
      BY <1>2, <1>3, <1>4 DEF InReader
    <2>2. ForProcess' = ForProcess
      BY <1>1, <1>3, <1>7, Unmoved
    <2> QED BY <1>3, <2>1, <2>2 DEF Transit
  <1>9. Responses'
    <2>1. Content(response.msg)' = Content(response.msg) /\ Content(answer)' = Content(answer)
      BY <1>3 DEF Content
    <2>2. Answer(seq)' = Answer(seq) /\ NoResponse' = NoResponse
      BY <1>3 DEF Answer, NoResponse
    <2> QED BY <1>1, <1>3, <1>8, <2>1, <2>2, Zenon DEF Responses
  <1>10. Order'
    BY <1>1, <1>3, <1>8 DEF Order
  <1> QED BY <1>2, <1>5, <1>6, <1>9, <1>10

\* The message is where it was in the order, and has an address nobody has had.
LEMMA DeserializesKeeps ==
  ASSUME MInv, Deserializes
  PROVE  TypeInv' /\ WireInv' /\ Own' /\ Responses' /\ Order'
  <1>1. TypeInv /\ Own /\ Responses /\ Order /\ WireInv
    BY DEF MInv
  <1>2. /\ WireInv' /\ reader' = [AtLength EXCEPT !.at = "message", !.msg = last + 1]
        /\ onWire # <<>> /\ onWire' = Tail(onWire) /\ last' = last + 1
        /\ heap' = [a \in DOMAIN heap \cup {last + 1} |-> IF a = last + 1 THEN onWire[1] ELSE heap[a]]
        /\ asked' = asked /\ owed' = owed
    BY <1>1, WireDecodes
  <1>3. /\ reader.at = "body"
        /\ UNCHANGED <<sent, misfreed, forgotten, buffer, qBuffer, process, seq, response, answer>>
    BY DEF Deserializes, bufVars, qVars
  <1>4. PICK r \in Nat : r = last + 1
    BY <1>1 DEF TypeInv
  <1>5. r # 0 /\ last \in Nat /\ r \notin DOMAIN heap /\ reader.msg = 0
    <2>1. last \in Nat /\ DOMAIN heap \subseteq 1..last /\ reader.msg = 0
      BY <1>1, <1>3 DEF TypeInv
    <2> QED BY <1>4, <2>1
  <1>6. reader'.msg = r /\ reader'.at = "message" /\ reader' \in Readers
    <2>1. AtLength \in Readers
      BY DEF AtLength, Readers
    <2> QED BY <1>2, <1>4, <2>1 DEF AtLength, Readers
  <1>7. /\ onWire \in Seq(Sent) /\ onWire' \in Seq(Sent) /\ onWire[1] \in Sent
        /\ onWire = <<onWire[1]>> \o Tail(onWire)
    BY <1>1, <1>2, FirstOne DEF TypeInv
  <1>8. /\ DOMAIN heap' = DOMAIN heap \cup {r} /\ heap'[r] = onWire[1]
        /\ \A a \in DOMAIN heap : heap'[a] = heap[a]
    BY <1>2, <1>4, <1>5
  <1>9. \A a \in DOMAIN heap : Content(a)' = Content(a)
    BY <1>8 DEF Content
  <1>10. TypeInv'
    <2>1. DOMAIN heap' \subseteq 1..last' /\ \A a \in DOMAIN heap' : heap'[a] \in Sent
      <3>1. \A a \in DOMAIN heap : a \in 1..last /\ heap[a] \in Sent
        BY <1>1 DEF TypeInv
      <3>2. r \in 1..last' /\ \A a \in 1..last : a \in 1..last'
        BY <1>2, <1>4, <1>5
      <3> QED BY <1>7, <1>8, <3>1, <3>2
    <2>2. last' \in Nat
      BY <1>2, <1>5
    <2> QED BY <1>1, <1>2, <1>3, <1>5, <1>6, <1>7, <2>1, <2>2 DEF TypeInv
  <1>11. Own'
    <2>1. Single = {0, process, response.msg, answer} /\ Single' = {r, process, response.msg, answer}
      BY <1>3, <1>5, <1>6 DEF Single
    <2>2. r \notin {process, response.msg, answer} /\ \A k \in DOMAIN qBuffer : qBuffer[k] # r
      BY <1>1, <1>5, <2>1 DEF Own
    <2>3. \A a \in DOMAIN heap' : a \in Single' \/ a \in forgotten' \/ \E k \in DOMAIN qBuffer' : qBuffer'[k] = a
      <3>1. \A a \in DOMAIN heap : a \in Single \/ a \in forgotten \/ \E k \in DOMAIN qBuffer : qBuffer[k] = a
        BY <1>1 DEF Own
      <3>2. \A a \in DOMAIN heap : a # 0 /\ a \in Single => a \in Single'
        BY <2>1
      <3>3. 0 \notin DOMAIN heap
        BY <1>1, Contents DEF Addresses
      <3> QED BY <1>3, <1>8, <2>1, <3>1, <3>2, <3>3
    <2>4. \A a \in Single' : a # 0 => a \in DOMAIN heap' /\ \A k \in DOMAIN qBuffer' : qBuffer'[k] # a
      <3>1. \A a \in Single : a # 0 => a \in DOMAIN heap /\ \A k \in DOMAIN qBuffer : qBuffer[k] # a
        BY <1>1 DEF Own
      <3>2. \A a \in Single' : a = r \/ a \in Single
        BY <2>1
      <3> QED BY <1>3, <1>8, <2>2, <3>1, <3>2
    <2>5. /\ \A k \in DOMAIN qBuffer' : qBuffer'[k] \in DOMAIN heap'
          /\ \A k, l \in DOMAIN qBuffer' : qBuffer'[k] = qBuffer'[l] => k = l
      BY <1>1, <1>3, <1>8 DEF Own
    <2>6. /\ reader'.msg # 0 => reader'.msg \notin {process', response'.msg, answer'}
          /\ process' # 0 => process' \notin {response'.msg, answer'}
          /\ response'.msg # 0 => response'.msg # answer'
      BY <1>1, <1>3, <1>6, <2>2 DEF Own
    <2>7. ~misfreed'
      BY <1>1, <1>3, Zenon DEF Own
    <2> QED BY <2>3, <2>4, <2>5, <2>6, <2>7, Zenon DEF Own
  <1>12. Transit' = Transit /\ ForProcess' = ForProcess
    <2>1. InReader' = <<onWire[1]>>
      BY <1>5, <1>6, <1>8 DEF InReader, Content
    <2>2. Transit' = onWire
      BY <1>2, <1>7, <2>1 DEF Transit
    <2>3. Transit = onWire
      BY <1>1, <1>5, Contents
    <2>4. ForProcess' = ForProcess
      BY <1>1, <1>3, <1>9, Unmoved
    <2> QED BY <2>2, <2>3, <2>4
  <1>13. Responses'
    <2>1. /\ response.msg # 0 => Content(response.msg)' = Content(response.msg)
          /\ answer # 0 => Content(answer)' = Content(answer)
      <3>1. (response.msg # 0 => response.msg \in DOMAIN heap) /\ (answer # 0 => answer \in DOMAIN heap)
        BY <1>1 DEF Own, Single
      <3> QED BY <1>3, <1>8, <3>1 DEF Content
    <2>2. Answer(seq)' = Answer(seq) /\ NoResponse' = NoResponse
      BY <1>3 DEF Answer, NoResponse
    <2> QED BY <1>1, <1>2, <1>3, <1>12, <2>1, <2>2, Zenon DEF Responses
  <1>14. Order'
    BY <1>1, <1>2, <1>3, <1>12 DEF Order
  <1> QED BY <1>2, <1>10, <1>11, <1>13, <1>14

-----------------------------------------------------------------------------
(***************************************************************************)
(* The thread that waits for a response.                                   *)
(***************************************************************************)
\* A new number: no response to it is on its way.
LEMMA RequestsKeeps ==
  ASSUME MInv, Requests
  PROVE  TypeInv' /\ WireInv' /\ Own' /\ Responses' /\ Order'
  <1>1. TypeInv /\ Own /\ Responses /\ Order /\ WireInv
    BY DEF MInv
  <1>2. /\ response = NoResponse /\ answer = 0 /\ seq < MaxRequests
        /\ seq' = seq + 1 /\ response' = [NoResponse EXCEPT !.seq = seq + 1] /\ asked' = TRUE
        /\ UNCHANGED <<wire, onWire, sent, reader, heap, last, misfreed, forgotten, buffer, qBuffer, process, answer, owed>>
    BY DEF Requests, wireVars, heapVars, bufVars, qVars
  <1>3. /\ seq \in Nat /\ seq' \in 1..MaxRequests /\ seq' \in 0..MaxRequests /\ seq' # 0
        /\ \A n \in 1..seq : n \in 1..MaxRequests /\ n \in 1..seq' /\ n # seq'
    <2>1. seq \in 0..MaxRequests
      BY <1>1 DEF TypeInv
    <2>2. seq < MaxRequests /\ seq' = seq + 1 /\ MaxRequests \in Nat
      BY <1>2, MessagesAssumption
    <2> QED BY <2>1, <2>2
  <1>4. /\ response.msg = 0 /\ response'.msg = 0 /\ response'.seq = seq' /\ response'.flag = FALSE
        /\ response' = [seq |-> seq', flag |-> FALSE, msg |-> 0]
    BY <1>2 DEF NoResponse
  <1>5. TypeInv'
    <2>1. response' \in [seq : Nat, flag : BOOLEAN, msg : Nat]
      BY <1>3, <1>4
    <2> QED BY <1>1, <1>2, <1>3, <2>1 DEF TypeInv
  <1>6. WireInv'
    BY <1>1, <1>2, WireSame
  <1>7. Own'
    <2>1. response'.msg = response.msg
      BY <1>4
    <2>2. Single' = Single
      BY <1>2, <2>1 DEF Single
    <2>3. DOMAIN heap' = DOMAIN heap /\ DOMAIN qBuffer' = DOMAIN qBuffer
      BY <1>2
    <2> QED BY <1>1, <1>2, <2>1, <2>2, <2>3, Zenon DEF Own
  <1>8. \A a : Content(a)' = Content(a)
    BY <1>2 DEF Content
  <1>9. Transit' = Transit /\ ForProcess' = ForProcess
    <2>1. InReader' = InReader
      BY <1>2 DEF InReader, Content
    <2>2. ForProcess' = ForProcess
      BY <1>1, <1>2, <1>8, Unmoved
    <2> QED BY <1>2, <2>1, <2>2 DEF Transit
  <1>10. Responses'
    <2>1. PICK m : m = Answer(seq')
      OBVIOUS
    <2>2. Answer(seq)' = m
      BY <2>1 DEF Answer
    <2>3. \A k \in DOMAIN Transit : Transit[k] \in Answers => \E n \in 1..seq : Transit[k] = Answer(n)
      BY <1>1 DEF Responses
    <2>4. m \in Answers
      BY <1>3, <2>1 DEF Answers
    <2>5. \A k \in DOMAIN Transit : Transit[k] # m
      <3>1. \A n \in 1..seq : Answer(n) # m
        BY <1>3, <2>1, WhatIsSent
      <3> QED BY <2>3, <2>4, <3>1
    <2>6. \A k \in DOMAIN Transit' : Transit'[k] \in Answers => \E n \in 1..seq' : Transit'[k] = Answer(n)
      BY <1>3, <1>9, <2>3
    <2>7. \A k, l \in DOMAIN Transit' : Transit'[k] = Transit'[l] /\ Transit'[k] \in Answers => k = l
      BY <1>1, <1>9 DEF Responses
    <2>8. response'.msg = 0 /\ response'.seq \in {0, seq'} /\ seq' # 0 /\ answer' = 0
      BY <1>2, <1>3, <1>4
    <2> QED BY <1>9, <2>2, <2>5, <2>6, <2>7, <2>8, Zenon DEF Responses
  <1>11. Order'
    BY <1>1, <1>2, <1>9 DEF Order
  <1> QED BY <1>5, <1>6, <1>7, <1>10, <1>11

\* The response goes to the caller.
LEMMA GetsKeeps ==
  ASSUME MInv, Gets
  PROVE  TypeInv' /\ WireInv' /\ Own' /\ Responses' /\ Order'
  <1>1. TypeInv /\ Own /\ Responses /\ Order /\ WireInv
    BY DEF MInv
  <1>2. /\ response # NoResponse /\ answer' = response.msg /\ response' = NoResponse
        /\ UNCHANGED <<wire, onWire, sent, reader, heap, last, misfreed, forgotten, buffer, qBuffer, process, seq, asked, owed>>
    BY DEF Gets, wireVars, heapVars, bufVars, qVars
  <1>3. /\ response'.msg = 0 /\ response'.seq = 0 /\ response' \in [seq : Nat, flag : BOOLEAN, msg : Nat]
        /\ response.msg \in Nat
    BY <1>1, <1>2 DEF NoResponse, TypeInv
  <1>4. answer = 0
    BY <1>1, <1>2, Zenon DEF Responses
  <1>5. TypeInv'
    BY <1>1, <1>2, <1>3 DEF TypeInv
  <1>6. WireInv'
    BY <1>1, <1>2, WireSame
  <1>7. Own'
    <2>1. Single = {reader.msg, process, response.msg, 0} /\ Single' = {reader.msg, process, 0, response.msg}
      BY <1>2, <1>3, <1>4 DEF Single
    <2>2. /\ \A a \in DOMAIN heap' : a \in Single' \/ a \in forgotten' \/ \E k \in DOMAIN qBuffer' : qBuffer'[k] = a
          /\ \A a \in Single' : a # 0 => a \in DOMAIN heap' /\ \A k \in DOMAIN qBuffer' : qBuffer'[k] # a
          /\ \A k \in DOMAIN qBuffer' : qBuffer'[k] \in DOMAIN heap'
          /\ \A k, l \in DOMAIN qBuffer' : qBuffer'[k] = qBuffer'[l] => k = l
      BY <1>1, <1>2, <2>1 DEF Own
    <2>3. /\ reader'.msg # 0 => reader'.msg \notin {process', response'.msg, answer'}
          /\ process' # 0 => process' \notin {response'.msg, answer'}
          /\ response'.msg # 0 => response'.msg # answer'
      BY <1>1, <1>2, <1>3, <1>4 DEF Own
    <2>4. ~misfreed'
      BY <1>1, <1>2, Zenon DEF Own
    <2> QED BY <2>2, <2>3, <2>4, Zenon DEF Own
  <1>8. \A a : Content(a)' = Content(a)
    BY <1>2 DEF Content
  <1>9. Transit' = Transit /\ ForProcess' = ForProcess
    <2>1. InReader' = InReader
      BY <1>2 DEF InReader, Content
    <2>2. ForProcess' = ForProcess
      BY <1>1, <1>2, <1>8, Unmoved
    <2> QED BY <1>2, <2>1, <2>2 DEF Transit
  <1>10. Responses'
    <2>1. answer' # 0 => seq' # 0 /\ Content(answer)' = Answer(seq)
      BY <1>1, <1>2 DEF Responses, Content
    <2>2. Answer(seq)' = Answer(seq) /\ NoResponse' = NoResponse
      BY <1>2 DEF Answer, NoResponse
    <2>3. response'.seq \in {0, seq'} /\ response'.msg = 0 /\ response' = NoResponse'
      BY <1>2, <1>3, <2>2
    <2> QED BY <1>1, <1>2, <1>9, <2>1, <2>2, <2>3, Zenon DEF Responses
  <1>11. Order'
    BY <1>1, <1>2, <1>9 DEF Order
  <1> QED BY <1>5, <1>6, <1>7, <1>10, <1>11

\* It frees it.
LEMMA UsesKeeps ==
  ASSUME MInv, UsesAnswer
  PROVE  TypeInv' /\ WireInv' /\ Own' /\ Responses' /\ Order'
  <1>1. TypeInv /\ Own /\ Responses /\ Order /\ WireInv
    BY DEF MInv
  <1>2. /\ answer # 0 /\ answer' = 0 /\ Frees(answer)
        /\ UNCHANGED <<wire, onWire, sent, reader, last, buffer, qBuffer, process, seq, response, asked, owed>>
    BY DEF UsesAnswer, wireVars, bufVars, qVars
  <1>3. PICK r : r = answer
    OBVIOUS
  <1>4. r # 0 /\ r \in DOMAIN heap
    BY <1>1, <1>2, <1>3 DEF Own, Single
  <1>5. /\ DOMAIN heap' = DOMAIN heap \ {r} /\ ~misfreed' /\ forgotten' = forgotten
        /\ \A b \in DOMAIN heap' : heap'[b] = heap[b]
        /\ \A b : b # r => Content(b)' = Content(b)
    BY <1>1, <1>2, <1>3, <1>4, Freed
  <1>6. /\ response = NoResponse /\ response.msg = 0 /\ r \notin {reader.msg, process, response.msg}
        /\ \A k \in DOMAIN qBuffer : qBuffer[k] # r
    <2>1. response = NoResponse
      BY <1>1, <1>2, Zenon DEF Responses
    <2>2. response.msg = 0
      BY <2>1 DEF NoResponse
    <2> QED BY <1>1, <1>3, <1>4, <2>1, <2>2 DEF Own, Single
  <1>7. TypeInv'
    <2>1. DOMAIN heap' \subseteq 1..last' /\ \A a \in DOMAIN heap' : heap'[a] \in Sent
      BY <1>1, <1>2, <1>5 DEF TypeInv
    <2> QED BY <1>1, <1>2, <2>1 DEF TypeInv
  <1>8. WireInv'
    BY <1>1, <1>2, WireSame
  <1>9. Own'
    <2>1. Single = {reader.msg, process, 0, r} /\ Single' = {reader.msg, process, 0}
      BY <1>2, <1>3, <1>6 DEF Single
    <2>2. /\ \A a \in DOMAIN heap' : a \in Single' \/ a \in forgotten' \/ \E k \in DOMAIN qBuffer' : qBuffer'[k] = a
          /\ \A a \in Single' : a # 0 => a \in DOMAIN heap' /\ \A k \in DOMAIN qBuffer' : qBuffer'[k] # a
          /\ \A k \in DOMAIN qBuffer' : qBuffer'[k] \in DOMAIN heap'
          /\ \A k, l \in DOMAIN qBuffer' : qBuffer'[k] = qBuffer'[l] => k = l
      BY <1>1, <1>2, <1>4, <1>5, <1>6, <2>1 DEF Own
    <2>3. /\ reader'.msg # 0 => reader'.msg \notin {process', response'.msg, answer'}
          /\ process' # 0 => process' \notin {response'.msg, answer'}
          /\ response'.msg # 0 => response'.msg # answer'
      BY <1>1, <1>2, <1>6 DEF Own
    <2> QED BY <1>5, <2>2, <2>3, Zenon DEF Own
  <1>10. Transit' = Transit /\ ForProcess' = ForProcess
    <2>1. InReader' = InReader
      <3>1. PICK a : a = reader.msg
        OBVIOUS
      <3>2. Content(a)' = Content(a)
        BY <1>5, <1>6, <3>1
      <3> QED BY <1>2, <3>1, <3>2 DEF InReader, Content
    <2>2. \A a \in DOMAIN heap : (a = process \/ \E k \in DOMAIN qBuffer : qBuffer[k] = a) => Content(a)' = Content(a)
      BY <1>5, <1>6
    <2>3. ForProcess' = ForProcess
      BY <1>1, <1>2, <2>2, Unmoved
    <2> QED BY <1>2, <2>1, <2>3 DEF Transit
  <1>11. Responses'
    <2>1. Answer(seq)' = Answer(seq)
      BY <1>2 DEF Answer
    <2>2. response'.seq \in {0, seq'} /\ response'.msg = 0 /\ answer' = 0
      BY <1>1, <1>2, <1>6 DEF Responses
    <2> QED BY <1>1, <1>2, <1>10, <2>1, <2>2, Zenon DEF Responses
  <1>12. Order'
    BY <1>1, <1>2, <1>10 DEF Order
  <1> QED BY <1>7, <1>8, <1>9, <1>11, <1>12

\* SendFileRead forgets it.
LEMMA ForgetsKeeps ==
  ASSUME MInv, FileReadForgets
  PROVE  TypeInv' /\ WireInv' /\ Own' /\ Forgot' /\ Responses' /\ Order'
  <1>1. TypeInv /\ Own /\ Forgot /\ Responses /\ Order /\ WireInv
    BY DEF MInv
  <1>2. /\ answer # 0 /\ answer' = 0 /\ forgotten' = forgotten \cup {answer}
        /\ GetBin(heap[answer], Data).err # OK
        /\ UNCHANGED <<wire, onWire, sent, reader, heap, last, misfreed, buffer, qBuffer, process, seq, response,
                       asked, owed>>
    BY DEF FileReadForgets, wireVars, bufVars, qVars
  <1>3. PICK r : r = answer
    OBVIOUS
  <1>4. r # 0 /\ r \in DOMAIN heap /\ r \in Addresses
    BY <1>1, <1>2, <1>3, Contents DEF Own, Single
  <1>5. /\ response = NoResponse /\ response.msg = 0 /\ r \notin {reader.msg, process, response.msg}
        /\ \A k \in DOMAIN qBuffer : qBuffer[k] # r
    <2>1. response = NoResponse
      BY <1>1, <1>2, Zenon DEF Responses
    <2>2. response.msg = 0
      BY <2>1 DEF NoResponse
    <2> QED BY <1>1, <1>3, <1>4, <2>1, <2>2 DEF Own, Single
  <1>6. heap[r] \in Answers
    <2>1. heap[r] = Answer(seq)
      BY <1>1, <1>2, <1>3, <1>4, Contents DEF Responses
    <2>2. seq \in 0..MaxRequests /\ GetU32(Answer(seq), Seqno) = GetU32(heap[r], Seqno) /\ heap[r] \in Sent
      BY <1>1, <1>4, <2>1 DEF TypeInv
    <2>3. seq # 0
      BY <1>1, <1>2 DEF Responses
    <2>4. seq \in 1..MaxRequests
      BY <2>2, <2>3, MessagesAssumption
    <2> QED BY <2>1, <2>4 DEF Answers
  <1>7. TypeInv'
    BY <1>1, <1>2 DEF TypeInv
  <1>8. WireInv'
    BY <1>1, <1>2, WireSame
  <1>9. Single = {reader.msg, process, 0, r} /\ Single' = {reader.msg, process, 0}
    BY <1>2, <1>3, <1>5 DEF Single
  <1>10. Own'
    <2>1. /\ \A a \in DOMAIN heap' : a \in Single' \/ a \in forgotten' \/ \E k \in DOMAIN qBuffer' : qBuffer'[k] = a
          /\ \A a \in Single' : a # 0 => a \in DOMAIN heap' /\ \A k \in DOMAIN qBuffer' : qBuffer'[k] # a
          /\ \A k \in DOMAIN qBuffer' : qBuffer'[k] \in DOMAIN heap'
          /\ \A k, l \in DOMAIN qBuffer' : qBuffer'[k] = qBuffer'[l] => k = l
      BY <1>1, <1>2, <1>3, <1>4, <1>5, <1>9 DEF Own
    <2>2. /\ reader'.msg # 0 => reader'.msg \notin {process', response'.msg, answer'}
          /\ process' # 0 => process' \notin {response'.msg, answer'}
          /\ response'.msg # 0 => response'.msg # answer'
      BY <1>1, <1>2, <1>5 DEF Own
    <2>3. ~misfreed'
      BY <1>1, <1>2, Zenon DEF Own
    <2> QED BY <2>1, <2>2, <2>3, Zenon DEF Own
  <1>11. Forgot'
    <2>1. \A a \in Held' : a \in Held /\ a # r
      BY <1>2, <1>5, <1>9 DEF Held
    <2> QED BY <1>1, <1>2, <1>3, <1>4, <1>6, <2>1 DEF Forgot
  <1>12. Transit' = Transit /\ ForProcess' = ForProcess
    BY <1>2 DEF Content, Transit, InReader, ForProcess, InProcess, InQueue
  <1>13. Responses'
    <2>1. Answer(seq)' = Answer(seq) /\ NoResponse' = NoResponse
      BY <1>2 DEF Answer, NoResponse
    <2>2. response'.seq \in {0, seq'} /\ response'.msg = 0 /\ answer' = 0
      BY <1>1, <1>2, <1>5 DEF Responses
    <2> QED BY <1>1, <1>2, <1>12, <2>1, <2>2, Zenon DEF Responses
  <1>14. Order'
    BY <1>1, <1>2, <1>12 DEF Order
  <1> QED BY <1>7, <1>8, <1>10, <1>11, <1>13, <1>14

\* Every other step leaves what is forgotten where it is.
LEMMA ForgotStays ==
  ASSUME TypeInv, Own, Forgot, forgotten' = forgotten,
         \A a \in DOMAIN heap : a \notin Held => a \in DOMAIN heap' /\ heap'[a] = heap[a],
         \A a \in Held' : a \in Held \/ a \notin DOMAIN heap
  PROVE  Forgot'
  BY DEF Forgot
LEMMA ForgotKeeps ==
  ASSUME MInv, Next, ~FileReadForgets
  PROVE  Forgot'
  <1>1. TypeInv /\ Own /\ Forgot /\ qBuffer \in Seq(Addresses) /\ last \in Nat /\ DOMAIN heap \subseteq 1..last
        /\ FrontExists /\ QP!FrontExists
    BY DEF MInv, TypeInv, IInv, QP!IInv
  <1>2. ASSUME NEW a, a # 0, a \in Single, Frees(a)
        PROVE  /\ forgotten' = forgotten
               /\ \A b \in DOMAIN heap : b \notin Held => b \in DOMAIN heap' /\ heap'[b] = heap[b]
    <2>1. a \in DOMAIN heap /\ a \in Addresses
      BY <1>1, <1>2, Contents DEF Own
    <2>2. DOMAIN heap' = DOMAIN heap \ {a} /\ forgotten' = forgotten /\ \A b \in DOMAIN heap' : heap'[b] = heap[b]
      BY <1>1, <1>2, <2>1, Freed
    <2>3. a \in Held
      BY <1>2, <2>1 DEF Held
    <2> QED BY <2>2, <2>3
  <1>3. ASSUME qBuffer # <<>>, qBuffer' = Tail(qBuffer)
        PROVE  \A k \in DOMAIN qBuffer' : k + 1 \in DOMAIN qBuffer /\ qBuffer'[k] = qBuffer[k + 1]
    BY <1>1, <1>3
  <1>4. reader.at = "message" => reader.msg # 0
    BY <1>1 DEF TypeInv
  <1>5. CASE \/ ServerSends \/ ServerAnswers \/ Loss \/ ReadLength \/ ReadBody \/ Requests
    <2>1. UNCHANGED <<heap, forgotten, qBuffer, process, answer>>
      BY <1>5 DEF ServerSends, ServerAnswers, Loss, ReadLength, ReadBody, Requests, heapVars, qVars, respVars
    <2>2. reader'.msg \in {0, reader.msg} /\ response'.msg \in {0, response.msg}
      <3>1. CASE ServerSends \/ ServerAnswers
        BY <3>1 DEF ServerSends, ServerAnswers, respVars
      <3>2. CASE Loss
        BY <3>2 DEF Loss, Breaks, AtLength
      <3>3. CASE ReadLength \/ ReadBody
        <4>1. response' = response /\ reader \in Readers
          BY <1>1, <3>3 DEF ReadLength, ReadBody, respVars, TypeInv
        <4>2. reader'.msg = reader.msg
          BY <3>3, <4>1 DEF ReadLength, ReadBody, Receives, Readers
        <4> QED BY <4>1, <4>2
      <3>4. CASE Requests
        BY <3>4 DEF Requests, NoResponse
      <3> QED BY <1>5, <3>1, <3>2, <3>3, <3>4
    <2>3. \A a \in Held' : a \in Held
      BY <2>1, <2>2 DEF Held, Single, Addresses
    <2> QED BY <1>1, <2>1, <2>3, ForgotStays
  <1>6. CASE Deserializes
    <2>1. /\ forgotten' = forgotten /\ UNCHANGED <<qBuffer, process, response, answer>>
          /\ \A a \in DOMAIN heap : a \in DOMAIN heap' /\ heap'[a] = heap[a]
          /\ reader'.msg = 0 \/ reader'.msg = last + 1
      <3>1. /\ reader' = [AtLength EXCEPT !.at = "message", !.msg = last + 1]
            /\ heap' = [a \in DOMAIN heap \cup {last + 1} |-> IF a = last + 1 THEN onWire[1] ELSE heap[a]]
        BY <1>6, WireDecodes DEF MInv
      <3>2. reader'.msg = last + 1 /\ last + 1 \notin DOMAIN heap
        BY <1>1, <3>1 DEF AtLength
      <3> QED BY <1>6, <3>1, <3>2 DEF Deserializes, qVars
    <2>2. \A a \in Held' : a \in Held \/ a = last + 1
      BY <2>1 DEF Held, Single, Addresses
    <2> QED BY <1>1, <2>1, <2>2, ForgotStays
  <1>7. CASE SetsResponse \/ Gets
    <2>1. UNCHANGED <<heap, forgotten, qBuffer, process>>
      BY <1>7 DEF SetsResponse, Gets, heapVars, qVars
    <2>2. /\ reader'.msg \in {0, reader.msg} /\ response'.msg \in {0, reader.msg, response.msg}
          /\ answer' \in {answer, response.msg}
      <3>1. CASE SetsResponse
        BY <1>1, <3>1 DEF SetsResponse, Has, AtLength, TypeInv
      <3>2. CASE Gets
        BY <3>2 DEF Gets, NoResponse
      <3> QED BY <1>7, <3>1, <3>2
    <2>3. \A a \in Held' : a \in Held
      BY <2>1, <2>2 DEF Held, Single, Addresses
    <2> QED BY <1>1, <2>1, <2>3, ForgotStays
  <1>8. CASE Destroys \/ PassesToDemuxer
    <2>1. Has /\ Frees(reader.msg) /\ UNCHANGED <<qBuffer, process, response, answer>>
      BY <1>8 DEF Destroys, PassesToDemuxer, qVars, respVars
    <2>2. reader.msg # 0 /\ reader.msg \in Single /\ reader'.msg = 0
      BY <1>4, <2>1 DEF Has, AtLength, Single
    <2>3. \A a \in Held' : a \in Held
      BY <2>1, <2>2 DEF Held, Single, Addresses
    <2> QED BY <1>1, <1>2, <2>1, <2>2, <2>3, ForgotStays
  <1>9. CASE Stores
    <2>1. /\ Has /\ Frees(0) /\ UNCHANGED <<process, response, answer>>
          /\ qBuffer' = qBuffer \/ qBuffer' = Append(qBuffer, reader.msg)
      BY <1>9 DEF Stores, CopiedFrom, Q!Push, Q!bufVars, respVars
    <2>2. UNCHANGED <<heap, forgotten>> /\ reader.msg # 0 /\ reader'.msg = 0
      BY <1>4, <2>1 DEF Frees, Has, AtLength
    <2>3. \A k \in DOMAIN qBuffer' : qBuffer'[k] = reader.msg \/ \E l \in DOMAIN qBuffer : qBuffer[l] = qBuffer'[k]
      BY <1>1, <2>1
    <2>4. \A a \in Held' : a \in Held
      BY <2>1, <2>2, <2>3 DEF Held, Single, Addresses
    <2> QED BY <1>1, <2>2, <2>4, ForgotStays
  <1>10. CASE UsesAnswer \/ ProcessHandles
    <2>1. PICK a : /\ a # 0 /\ a \in Single /\ Frees(a)
                   /\ process' \in {0, process} /\ answer' \in {0, answer}
                   /\ UNCHANGED <<reader, qBuffer, response>>
      BY <1>10 DEF UsesAnswer, ProcessHandles, qVars, respVars, Single
    <2>2. \A b \in Held' : b \in Held
      BY <2>1 DEF Held, Single, Addresses
    <2> QED BY <1>1, <1>2, <2>1, <2>2, ForgotStays
  <1>11. CASE ProcessPops
    <2>1. UNCHANGED <<heap, forgotten, reader, response, answer>>
      BY <1>11 DEF ProcessPops, heapVars, respVars
    <2>2. CASE (Q!PopNow("process") \/ Q!PopTakes("process")) /\ process' = Head(qBuffer)
      <3>1. qBuffer # <<>> /\ qBuffer' = Tail(qBuffer)
        <4>1. CASE Q!PopNow("process")
          BY <4>1 DEF Q!PopNow, Q!Takes
        <4>2. CASE Q!PopTakes("process")
          <5>1. qHasData /\ qBuffer' = Tail(qBuffer)
            BY <4>2 DEF Q!PopTakes, Q!Takes
          <5> QED BY <1>1, <5>1, Zenon DEF QP!FrontExists
        <4> QED BY <2>2, <4>1, <4>2
      <3>2. process' = qBuffer[1] /\ 1 \in DOMAIN qBuffer
        BY <1>1, <2>2, <3>1
      <3>3. \A a \in Held' : a \in Held
        BY <1>3, <2>1, <3>1, <3>2 DEF Held, Single, Addresses
      <3> QED BY <1>1, <2>1, <3>3, ForgotStays
    <2>3. CASE (Q!PopWaits("process") \/ Q!PopWaitsOn("process") \/ Q!PopTimesOut("process")) /\ UNCHANGED process
      <3>1. qBuffer' = qBuffer /\ process' = process
        BY <2>3 DEF Q!PopWaits, Q!PopWaitsOn, Q!PopTimesOut
      <3>2. \A a \in Held' : a \in Held
        BY <2>1, <3>1 DEF Held, Single, Addresses
      <3> QED BY <1>1, <2>1, <3>2, ForgotStays
    <2> QED BY <1>11, <2>2, <2>3 DEF ProcessPops
  <1>12. CASE KodiReads \/ Flushes
    <2>1. UNCHANGED <<heap, forgotten, reader, response, answer, qBuffer, process>>
      BY <1>12 DEF KodiReads, Flushes, heapVars, respVars, qVars
    <2>2. \A a \in Held' : a \in Held
      BY <2>1 DEF Held, Single
    <2> QED BY <1>1, <2>1, <2>2, ForgotStays
  <1> QED BY <1>5, <1>6, <1>7, <1>8, <1>9, <1>10, <1>11, <1>12 DEF Next, ReaderStep

-----------------------------------------------------------------------------
(***************************************************************************)
(* The threads that pop.                                                   *)
(***************************************************************************)
\* The Process thread takes the front of m_queue.
LEMMA PopsKeeps ==
  ASSUME TypeInv, Own, Responses, Order, WireInv, process = 0, qBuffer # <<>>,
         qBuffer' = Tail(qBuffer), process' = Head(qBuffer),
         UNCHANGED <<wire, onWire, sent, reader, heap, last, misfreed, forgotten, buffer, seq, response, answer, asked, owed>>
  PROVE  TypeInv' /\ WireInv' /\ Own' /\ Responses' /\ Order'
  <1>1. qBuffer \in Seq(Addresses)
    BY DEF TypeInv
  <1>2. /\ Head(qBuffer) \in Addresses /\ Head(qBuffer) = qBuffer[1] /\ Tail(qBuffer) \in Seq(Addresses)
        /\ Len(qBuffer) \in Nat /\ Len(qBuffer) >= 1 /\ Len(Tail(qBuffer)) = Len(qBuffer) - 1
        /\ \A i \in 1..(Len(qBuffer) - 1) : Tail(qBuffer)[i] = qBuffer[i + 1]
    <2>1. <<>> \in Seq(Addresses)
      OBVIOUS
    <2> QED BY <1>1, <2>1, FirstOne
  <1>3. PICK h \in Addresses, n \in Nat : h = qBuffer[1] /\ n = Len(qBuffer)
    BY <1>2
  <1>4. /\ DOMAIN qBuffer = 1..n /\ DOMAIN qBuffer' = 1..(n - 1) /\ n >= 1 /\ 1 \in 1..n
        /\ \A k \in 1..(n - 1) : k + 1 \in 1..n /\ qBuffer'[k] = qBuffer[k + 1] /\ k \in Nat
        /\ process' = h /\ h # 0
    BY <1>1, <1>2, <1>3 DEF Addresses
  <1>5. \A k \in 1..n : k = 1 \/ (k - 1 \in 1..(n - 1) /\ (k - 1) + 1 = k)
    BY <1>4
  <1>6. TypeInv'
    <2>1. process' \in Nat /\ qBuffer' \in Seq(Addresses)
      BY <1>2, <1>4 DEF Addresses
    <2> QED BY <2>1 DEF TypeInv
  <1>7. WireInv'
    BY WireSame
  <1>8. h \in DOMAIN heap /\ h \notin Single
    <2>1. /\ \A a \in Single : a # 0 => a \in DOMAIN heap /\ \A k \in DOMAIN qBuffer : qBuffer[k] # a
          /\ \A k \in DOMAIN qBuffer : qBuffer[k] \in DOMAIN heap
      BY DEF Own
    <2> QED BY <1>3, <1>4, <2>1
  <1>9. Own'
    <2>1. Single = {reader.msg, 0, response.msg, answer} /\ Single' = {reader.msg, h, response.msg, answer}
      BY <1>4 DEF Single
    <2>2. \A k, l \in DOMAIN qBuffer : qBuffer[k] = qBuffer[l] => k = l
      BY DEF Own
    <2>3. \A k \in DOMAIN qBuffer' : qBuffer'[k] # h
      <3>1. \A k \in 1..(n - 1) : k + 1 # 1
        BY <1>4
      <3> QED BY <1>3, <1>4, <2>2, <3>1
    <2>4. \A a \in DOMAIN heap' : a \in Single' \/ a \in forgotten' \/ \E k \in DOMAIN qBuffer' : qBuffer'[k] = a
      <3>1. SUFFICES ASSUME NEW a \in DOMAIN heap, a \notin Single', a \notin forgotten'
                     PROVE  \E k \in DOMAIN qBuffer' : qBuffer'[k] = a
        OBVIOUS
      <3>2. a # 0 /\ a \notin Single
        <4>1. a # 0
          BY Contents DEF Addresses
        <4> QED BY <2>1, <3>1, <4>1
      <3>3. PICK k \in DOMAIN qBuffer : qBuffer[k] = a
        BY <3>1, <3>2 DEF Own
      <3>4. k # 1
        BY <1>3, <2>1, <3>1, <3>3
      <3>5. k \in 1..n /\ k - 1 \in 1..(n - 1) /\ (k - 1) + 1 = k
        BY <1>4, <1>5, <3>3, <3>4
      <3>6. qBuffer'[k - 1] = a
        BY <1>4, <3>3, <3>5
      <3> QED BY <1>4, <3>5, <3>6
    <2>5. \A a \in Single' : a # 0 => a \in DOMAIN heap' /\ \A k \in DOMAIN qBuffer' : qBuffer'[k] # a
      <3>1. \A a \in Single : a # 0 => a \in DOMAIN heap /\ \A k \in DOMAIN qBuffer : qBuffer[k] # a
        BY DEF Own
      <3>2. \A a \in Single' : a = h \/ a \in Single
        BY <2>1
      <3>3. \A a \in Single' : a # 0 => a \in DOMAIN heap'
        BY <1>8, <3>1, <3>2
      <3>4. \A a \in Single : a # 0 => \A k \in DOMAIN qBuffer' : qBuffer'[k] # a
        BY <1>4, <3>1
      <3> QED BY <2>3, <3>2, <3>3, <3>4
    <2>6. \A k \in DOMAIN qBuffer' : qBuffer'[k] \in DOMAIN heap'
      <3>1. \A k \in DOMAIN qBuffer : qBuffer[k] \in DOMAIN heap
        BY DEF Own
      <3> QED BY <1>4, <3>1
    <2>7. \A k, l \in DOMAIN qBuffer' : qBuffer'[k] = qBuffer'[l] => k = l
      <3>1. \A k, l \in 1..(n - 1) : k + 1 = l + 1 => k = l
        OBVIOUS
      <3> QED BY <1>4, <2>2, <3>1
    <2>8. /\ reader'.msg # 0 => reader'.msg \notin {process', response'.msg, answer'}
          /\ process' # 0 => process' \notin {response'.msg, answer'}
          /\ response'.msg # 0 => response'.msg # answer'
      BY <1>4, <1>8, <2>1 DEF Own
    <2> QED BY <2>4, <2>5, <2>6, <2>7, <2>8, Zenon DEF Own
  <1>10. Transit' = Transit
    BY DEF Transit, InReader, Content
  <1>11. ForProcess' = ForProcess
    <2>1. InQueue \in Seq(Sent) /\ Len(InQueue) = n /\ \A i \in 1..n : InQueue[i] = Content(qBuffer[i])
      BY <1>3, Contents
    <2>2. PICK q \in Seq(Sent) : q = InQueue
      BY <2>1
    <2>3. q # <<>> /\ <<>> \in Seq(Sent) /\ q \in Seq(Sent)
      BY <1>4, <2>1, <2>2
    <2>4. /\ Head(q) = q[1] /\ Tail(q) \in Seq(Sent) /\ q = <<Head(q)>> \o Tail(q)
          /\ Len(Tail(q)) = n - 1 /\ \A i \in 1..(n - 1) : Tail(q)[i] = q[i + 1]
      <3>1. /\ Head(q) = q[1] /\ Tail(q) \in Seq(Sent) /\ q = <<Head(q)>> \o Tail(q)
            /\ Len(Tail(q)) = Len(q) - 1 /\ \A i \in 1..(Len(q) - 1) : Tail(q)[i] = q[i + 1]
        BY <2>3, FirstOne
      <3> QED BY <2>1, <2>2, <3>1
    <2>5. ForProcess = q
      <3>1. InProcess = <<>>
        BY DEF InProcess
      <3> QED BY <2>2, <2>3, <3>1, ConcatEmptySeq DEF ForProcess
    <2>6. InProcess' = <<Head(q)>>
      <3>1. Content(process)' = Content(h)
        BY <1>4 DEF Content
      <3>2. InProcess' = <<Content(h)>>
        BY <1>4, <3>1 DEF InProcess
      <3>3. q[1] = Content(h)
        BY <1>3, <1>4, <2>1, <2>2
      <3> QED BY <2>4, <3>2, <3>3
    <2>7. InQueue' = Tail(q)
      <3>1. InQueue' = [k \in 1..(n - 1) |-> Content(qBuffer[k])']
        BY <1>4 DEF InQueue
      <3>2. \A k \in 1..(n - 1) : Content(qBuffer[k])' = q[k + 1]
        <4>1. \A k \in 1..(n - 1) : Content(qBuffer[k])' = Content(qBuffer[k + 1])
          BY <1>4 DEF Content
        <4> QED BY <1>4, <2>1, <2>2, <4>1
      <3>3. InQueue' = [k \in 1..(n - 1) |-> q[k + 1]]
        BY <3>1, <3>2
      <3>4. Tail(q) = [k \in 1..(n - 1) |-> q[k + 1]]
        <4>1. PICK t \in Seq(Sent) : t = Tail(q)
          BY <2>4
        <4>2. Len(t) = n - 1 /\ \A i \in 1..(n - 1) : t[i] = q[i + 1]
          BY <2>4, <4>1
        <4>3. t = [k \in 1..(n - 1) |-> q[k + 1]]
          BY <4>2
        <4> QED BY <4>1, <4>3
      <3> QED BY <3>3, <3>4
    <2> QED BY <2>4, <2>5, <2>6, <2>7 DEF ForProcess
  <1>12. Responses'
    <2>1. Content(response.msg)' = Content(response.msg) /\ Content(answer)' = Content(answer)
      BY DEF Content
    <2>2. Answer(seq)' = Answer(seq) /\ NoResponse' = NoResponse
      BY DEF Answer, NoResponse
    <2> QED BY <1>10, <2>1, <2>2, Zenon DEF Responses
  <1>13. Order'
    BY <1>10, <1>11 DEF Order
  <1> QED BY <1>6, <1>7, <1>9, <1>12, <1>13

\* It has handled a message, and frees it.
LEMMA HandlesKeeps ==
  ASSUME MInv, ProcessHandles
  PROVE  TypeInv' /\ WireInv' /\ Own' /\ Responses' /\ Order'
  <1>1. TypeInv /\ Own /\ Responses /\ Order /\ WireInv
    BY DEF MInv
  <1>2. /\ process # 0 /\ process' = 0 /\ Frees(process) /\ owed' = [owed EXCEPT !.process = Tail(@)]
        /\ UNCHANGED <<wire, onWire, sent, reader, last, buffer, qBuffer, seq, response, answer, asked>>
    BY DEF ProcessHandles, Handed, wireVars, bufVars, qVars, respVars
  <1>3. PICK r : r = process
    OBVIOUS
  <1>4. r # 0 /\ r \in DOMAIN heap
    BY <1>1, <1>2, <1>3 DEF Own, Single
  <1>5. /\ DOMAIN heap' = DOMAIN heap \ {r} /\ ~misfreed' /\ forgotten' = forgotten
        /\ \A b \in DOMAIN heap' : heap'[b] = heap[b]
        /\ \A b : b # r => Content(b)' = Content(b)
    BY <1>1, <1>2, <1>3, <1>4, Freed
  <1>6. r \notin {reader.msg, response.msg, answer} /\ \A k \in DOMAIN qBuffer : qBuffer[k] # r
    BY <1>1, <1>3, <1>4 DEF Own, Single
  <1>7. PICK x \in Sent, q \in Seq(Sent), s \in Seq(Sent) :
          x = Content(process) /\ q = InQueue /\ s = Selected(Transit, Queued)
    <2>1. Transit \in Seq(Sent)
      BY <1>1, Contents
    <2>2. Selected(Transit, Queued) \in Seq(Sent)
      BY <2>1, SelectedSent
    <2> QED BY <1>1, <1>2, <2>2, Contents
  <1>8. owed.process = (<<x>> \o q) \o s /\ owed.process \in Seq(Sent) /\ Len(owed.process) <= sent
    BY <1>1, <1>2, <1>7 DEF Order, ForProcess, InProcess, TypeInv
  <1>9. Tail((<<x>> \o q) \o s) = q \o s /\ <<>> \o q = q /\ q \o s \in Seq(Sent)
        /\ Len((<<x>> \o q) \o s) = 1 + Len(q \o s) /\ Len(q \o s) \in Nat
    OBVIOUS
  <1>10. /\ owed'.process = q \o s /\ owed'.kodi = owed.kodi
         /\ owed' \in [process : Seq(Sent), kodi : Seq(Entries)]
    BY <1>1, <1>2, <1>8, <1>9 DEF TypeInv
  <1>11. TypeInv'
    <2>1. DOMAIN heap' \subseteq 1..last' /\ \A a \in DOMAIN heap' : heap'[a] \in Sent
      BY <1>1, <1>2, <1>5 DEF TypeInv
    <2> QED BY <1>1, <1>2, <1>10, <2>1 DEF TypeInv
  <1>12. WireInv'
    BY <1>1, <1>2, WireSame
  <1>13. Own'
    <2>1. Single = {reader.msg, r, response.msg, answer} /\ Single' = {reader.msg, 0, response.msg, answer}
      BY <1>2, <1>3 DEF Single
    <2>2. /\ \A a \in DOMAIN heap' : a \in Single' \/ a \in forgotten' \/ \E k \in DOMAIN qBuffer' : qBuffer'[k] = a
          /\ \A a \in Single' : a # 0 => a \in DOMAIN heap' /\ \A k \in DOMAIN qBuffer' : qBuffer'[k] # a
          /\ \A k \in DOMAIN qBuffer' : qBuffer'[k] \in DOMAIN heap'
          /\ \A k, l \in DOMAIN qBuffer' : qBuffer'[k] = qBuffer'[l] => k = l
      BY <1>1, <1>2, <1>4, <1>5, <1>6, <2>1 DEF Own
    <2>3. /\ reader'.msg # 0 => reader'.msg \notin {process', response'.msg, answer'}
          /\ process' # 0 => process' \notin {response'.msg, answer'}
          /\ response'.msg # 0 => response'.msg # answer'
      BY <1>1, <1>2, <1>6 DEF Own
    <2> QED BY <1>5, <2>2, <2>3, Zenon DEF Own
  <1>14. Transit' = Transit
    <2>1. PICK a : a = reader.msg
      OBVIOUS
    <2>2. Content(a)' = Content(a)
      BY <1>5, <1>6, <2>1
    <2> QED BY <1>2, <2>1, <2>2 DEF Transit, InReader, Content
  <1>15. ForProcess' = q
    <2>1. InProcess' = <<>>
      BY <1>2 DEF InProcess
    <2>2. \A k \in DOMAIN qBuffer : Content(qBuffer[k])' = Content(qBuffer[k])
      <3>1. TAKE k \in DOMAIN qBuffer
      <3>2. PICK a : a = qBuffer[k]
        OBVIOUS
      <3>3. Content(a)' = Content(a)
        BY <1>5, <1>6, <3>2
      <3> QED BY <1>2, <3>2, <3>3 DEF Content
    <2>3. InQueue' = q
      BY <1>2, <1>7, <2>2 DEF InQueue
    <2> QED BY <1>9, <2>1, <2>3 DEF ForProcess
  <1>16. Responses'
    <2>1. Content(response.msg)' = Content(response.msg) /\ Content(answer)' = Content(answer)
      <3>1. PICK a, b : a = response.msg /\ b = answer
        OBVIOUS
      <3>2. Content(a)' = Content(a) /\ Content(b)' = Content(b)
        BY <1>5, <1>6, <3>1
      <3> QED BY <1>2, <3>1, <3>2 DEF Content
    <2>2. Answer(seq)' = Answer(seq) /\ NoResponse' = NoResponse
      BY <1>2 DEF Answer, NoResponse
    <2> QED BY <1>1, <1>2, <1>14, <2>1, <2>2, Zenon DEF Responses
  <1>17. Order'
    <2>1. Len(q \o s) <= sent
      BY <1>1, <1>8, <1>9, MessagesAssumption DEF TypeInv
    <2>2. buffer' \o AsPackets(Selected(Transit', Packets)) = owed'.kodi
      BY <1>1, <1>2, <1>10, <1>14 DEF Order
    <2>3. Len(owed'.kodi) <= sent' /\ sent' = sent
      BY <1>1, <1>2, <1>10 DEF Order
    <2> QED BY <1>7, <1>10, <1>14, <1>15, <2>1, <2>2, <2>3 DEF Order
  <1> QED BY <1>11, <1>12, <1>13, <1>16, <1>17

\* One of Kodi's threads takes the front of m_pktBuffer, which there is.
LEMMA KodiTakes ==
  ASSUME MInv, buffer # <<>>, buffer' = Tail(buffer), Handed("kodi"),
         UNCHANGED <<wire, onWire, sent, reader, heap, last, misfreed, forgotten, qBuffer, process, seq, response, answer, asked>>
  PROVE  TypeInv' /\ WireInv' /\ Own' /\ Responses' /\ Order'
  <1>1. TypeInv /\ Own /\ Responses /\ Order /\ WireInv /\ IInv
    BY DEF MInv
  <1>2. owed' = [owed EXCEPT !.kodi = Tail(@)] /\ owed \in [process : Seq(Sent), kodi : Seq(Entries)]
    BY <1>1 DEF Handed, TypeInv
  <1>3. PICK b \in Seq(Entries), s \in Seq(Entries) : b = buffer /\ s = AsPackets(Selected(Transit, Packets))
    <2>1. Transit \in Seq(Sent)
      BY <1>1, Contents
    <2>2. Selected(Transit, Packets) \in Seq(Packets)
      BY <2>1, SelectedSent
    <2>3. AsPackets(Selected(Transit, Packets)) \in Seq(Entries)
      BY <2>2, PacketsMade
    <2> QED BY <1>1, <2>3 DEF IInv, BufferTypeOK
  <1>4. b \in Seq(Entries) /\ s \in Seq(Entries) /\ b # <<>> /\ buffer' = Tail(b)
    BY <1>3
  <1>5. owed.kodi = b \o s /\ Len(owed.kodi) <= sent /\ sent \in Nat
    BY <1>1, <1>3, MessagesAssumption DEF Order, TypeInv
  <1>6. /\ Tail(b \o s) = Tail(b) \o s /\ Tail(b) \in Seq(Entries)
        /\ Len(b) \in Nat /\ Len(Tail(b)) = Len(b) - 1
    BY <1>4, FirstOne
  <1>7. /\ b \o s \in Seq(Entries) /\ Len(b \o s) = Len(b) + Len(s) /\ Len(s) \in Nat
        /\ Tail(b) \o s \in Seq(Entries) /\ Len(Tail(b) \o s) = Len(Tail(b)) + Len(s)
    BY <1>4, <1>6, ConcatProperties
  <1>8. /\ owed'.kodi = Tail(b) \o s /\ owed'.process = owed.process
        /\ owed' \in [process : Seq(Sent), kodi : Seq(Entries)]
    BY <1>2, <1>5, <1>6, <1>7
  <1>9. TypeInv'
    BY <1>1, <1>8 DEF TypeInv
  <1>10. WireInv'
    BY <1>1, WireSame
  <1>11. /\ \A a : Content(a)' = Content(a)
         /\ Transit' = Transit /\ ForProcess' = ForProcess
    BY DEF Content, Transit, InReader, ForProcess, InProcess, InQueue
  <1>12. Own'
    <2>1. Single' = Single
      BY DEF Single
    <2> QED BY <1>1, <2>1, Zenon DEF Own
  <1>13. Responses'
    <2>1. Content(response.msg)' = Content(response.msg) /\ Content(answer)' = Content(answer)
      BY DEF Content
    <2>2. Answer(seq)' = Answer(seq) /\ NoResponse' = NoResponse
      BY DEF Answer, NoResponse
    <2> QED BY <1>1, <1>11, <2>1, <2>2, Zenon DEF Responses
  <1>14. Order'
    <2>1. Len(owed'.kodi) <= sent'
      BY <1>5, <1>6, <1>7, <1>8
    <2>2. buffer' \o AsPackets(Selected(Transit', Packets)) = owed'.kodi
      BY <1>3, <1>4, <1>8, <1>11
    <2> QED BY <1>1, <1>8, <1>11, <2>1, <2>2 DEF Order
  <1> QED BY <1>9, <1>10, <1>12, <1>13, <1>14

\* Nothing of what the invariant is about changes: a thread begins or ends to wait.
LEMMA Same ==
  ASSUME TypeInv, WireInv, Own, Responses, Order,
         UNCHANGED <<wire, onWire, sent, reader, heap, last, misfreed, forgotten, buffer, qBuffer, process, seq, response,
                     answer, asked, owed>>
  PROVE  TypeInv' /\ WireInv' /\ Own' /\ Responses' /\ Order'
  <1>1. TypeInv'
    BY DEF TypeInv
  <1>2. WireInv'
    BY WireSame
  <1>3. Transit' = Transit /\ ForProcess' = ForProcess
    BY DEF Content, Transit, InReader, ForProcess, InProcess, InQueue
  <1>4. Own'
    <2>1. Single' = Single
      BY DEF Single
    <2> QED BY <2>1, Zenon DEF Own
  <1>5. Responses'
    <2>1. Content(response.msg)' = Content(response.msg) /\ Content(answer)' = Content(answer)
      BY DEF Content
    <2>2. Answer(seq)' = Answer(seq) /\ NoResponse' = NoResponse
      BY DEF Answer, NoResponse
    <2> QED BY <1>3, <2>1, <2>2, Zenon DEF Responses
  <1>6. Order'
    BY <1>3 DEF Order
  <1> QED BY <1>1, <1>2, <1>4, <1>5, <1>6

\* HTSPDemuxer::Read and Flush.
LEMMA KodiKeeps ==
  ASSUME MInv, KodiReads \/ Flushes
  PROVE  TypeInv' /\ WireInv' /\ Own' /\ Responses' /\ Order'
  <1>1. /\ TypeInv /\ Own /\ Responses /\ Order /\ WireInv /\ FrontExists
        /\ UNCHANGED <<wire, onWire, sent, reader, heap, last, misfreed, forgotten, qBuffer, process, seq, response,
                       answer, asked>>
    BY DEF MInv, IInv, KodiReads, Flushes, wireVars, heapVars, qVars, respVars
  <1>2. ASSUME NEW p, PopNow(p) \/ PopTakes(p), Handed("kodi")
        PROVE  TypeInv' /\ WireInv' /\ Own' /\ Responses' /\ Order'
    <2>1. buffer # <<>> /\ buffer' = Tail(buffer)
      <3>1. CASE PopNow(p)
        BY <3>1 DEF PopNow, Takes
      <3>2. CASE PopTakes(p)
        <4>1. hasData /\ buffer' = Tail(buffer)
          BY <3>2 DEF PopTakes, Takes
        <4> QED BY <1>1, <4>1, Zenon DEF FrontExists
      <3> QED BY <1>2, <3>1, <3>2
    <2> QED BY <1>1, <1>2, <2>1, KodiTakes
  <1>3. ASSUME NEW p, PopWaits(p) \/ PopWaitsOn(p) \/ PopTimesOut(p), UNCHANGED owed
        PROVE  TypeInv' /\ WireInv' /\ Own' /\ Responses' /\ Order'
    <2>1. buffer' = buffer
      BY <1>3 DEF PopWaits, PopWaitsOn, PopTimesOut
    <2> QED BY <1>1, <1>3, <2>1, Same
  <1> QED BY <1>2, <1>3 DEF KodiReads, Flushes

\* The Process thread takes the front of m_queue, or waits.
LEMMA ProcessKeeps ==
  ASSUME MInv, ProcessPops
  PROVE  TypeInv' /\ WireInv' /\ Own' /\ Responses' /\ Order'
  <1>1. /\ TypeInv /\ Own /\ Responses /\ Order /\ WireInv /\ QP!FrontExists /\ process = 0
        /\ UNCHANGED <<wire, onWire, sent, reader, heap, last, misfreed, forgotten, buffer, seq, response,
                       answer, asked, owed>>
    BY DEF MInv, QP!IInv, ProcessPops, wireVars, heapVars, bufVars, respVars
  <1>2. CASE (Q!PopNow("process") \/ Q!PopTakes("process")) /\ process' = Head(qBuffer)
    <2>1. qBuffer # <<>> /\ qBuffer' = Tail(qBuffer)
      <3>1. CASE Q!PopNow("process")
        BY <3>1 DEF Q!PopNow, Q!Takes
      <3>2. CASE Q!PopTakes("process")
        <4>1. qHasData /\ qBuffer' = Tail(qBuffer)
          BY <3>2 DEF Q!PopTakes, Q!Takes
        <4> QED BY <1>1, <4>1, Zenon DEF QP!FrontExists
      <3> QED BY <1>2, <3>1, <3>2
    <2> QED BY <1>1, <1>2, <2>1, PopsKeeps
  <1>3. CASE (Q!PopWaits("process") \/ Q!PopWaitsOn("process") \/ Q!PopTimesOut("process")) /\ UNCHANGED process
    <2>1. qBuffer' = qBuffer
      BY <1>3 DEF Q!PopWaits, Q!PopWaitsOn, Q!PopTimesOut
    <2> QED BY <1>1, <1>3, <2>1, Same
  <1> QED BY <1>2, <1>3 DEF ProcessPops

-----------------------------------------------------------------------------
(***************************************************************************)
(* Both buffers are only used as SyncedBuffer has it.                      *)
(***************************************************************************)
\* What SyncedBuffer assumes holds of m_queue, and so what follows from it.
LEMMA QueueAssumption == QP!PoppersAssumption /\ QP!SizeAssumption
  <1>1. IsFiniteSet({"process"})
    BY FS_Singleton
  <1>2. QP!PoppersAssumption
    BY <1>1 DEF QP!PoppersAssumption, QP!IsFiniteSet, IsFiniteSet
  <1>3. QP!SizeAssumption
    BY SizeAssumption DEF QP!SizeAssumption
  <1> QED BY <1>2, <1>3
LEMMA QueueStarts == QP!BufferInit => QP!IInv
  BY QueueAssumption, QP!BufferStarts, Zenon
LEMMA QueueKeeps == QP!IInv /\ [QP!BufferNext]_(QP!bufVars) => QP!IInv'
  BY QueueAssumption, QP!BufferInductive, Zenon

\* Every step is one of the buffer, or leaves it alone: likewise of m_queue.
LEMMA BufferSteps ==
  ASSUME MInv, Next
  PROVE  [BufferNext]_bufVars /\ [Q!BufferNext]_(Q!bufVars)
  <1>1. (Q!bufVars)' = Q!bufVars <=> UNCHANGED qVars
    BY DEF Q!bufVars, qVars
  <1>2. CASE PassesToDemuxer
    BY <1>1, <1>2, PassesKeeps DEF PassesToDemuxer
  <1>3. CASE Stores
    BY <1>1, <1>3, StoresKeeps DEF Stores
  <1>4. CASE ProcessPops
    <2>1. UNCHANGED bufVars
      BY <1>4 DEF ProcessPops
    <2>2. Q!BufferNext
      BY <1>4 DEF ProcessPops, Q!BufferNext
    <2> QED BY <2>1, <2>2
  <1>5. CASE KodiReads \/ Flushes
    <2>1. UNCHANGED qVars
      BY <1>5 DEF KodiReads, Flushes
    <2>2. "kodi" \in Poppers /\ "flush" \in Poppers
      BY MessagesAssumption
    <2>3. BufferNext
      BY <1>5, <2>2 DEF KodiReads, Flushes, BufferNext
    <2> QED BY <1>1, <2>1, <2>3
  <1>6. CASE \/ ServerSends \/ ServerAnswers \/ Loss \/ ReadLength \/ ReadBody \/ Deserializes
             \/ SetsResponse \/ Destroys \/ Requests \/ Gets \/ UsesAnswer \/ FileReadForgets
             \/ ProcessHandles
    <2>1. UNCHANGED bufVars /\ UNCHANGED qVars
      BY <1>6 DEF ServerSends, ServerAnswers, Loss, ReadLength, ReadBody, Deserializes,
        SetsResponse, Destroys, Requests, Gets, UsesAnswer, FileReadForgets, ProcessHandles
    <2> QED BY <1>1, <2>1
  <1> QED BY <1>2, <1>3, <1>4, <1>5, <1>6 DEF Next, ReaderStep

-----------------------------------------------------------------------------
(***************************************************************************)
(* The invariant.                                                          *)
(***************************************************************************)
\* At first there is nothing anywhere.
LEMMA InvInit == Init => MInv
  <1> SUFFICES ASSUME Init PROVE MInv
    OBVIOUS
  <1>1. /\ wire = <<>> /\ onWire = <<>> /\ sent = 0 /\ reader = AtLength
        /\ heap = [a \in {} |-> <<>>] /\ last = 0 /\ ~misfreed /\ forgotten = {}
        /\ buffer = <<>> /\ qBuffer = <<>> /\ process = 0
        /\ seq = 0 /\ response = NoResponse /\ answer = 0 /\ ~asked
        /\ owed = [process |-> <<>>, kodi |-> <<>>]
    BY DEF Init, BufferInit, Q!BufferInit
  <1>2. /\ reader \in Readers /\ reader.msg = 0 /\ reader.at = "length" /\ reader.buf = <<>>
        /\ response \in [seq : Nat, flag : BOOLEAN, msg : Nat] /\ response.msg = 0 /\ response.seq = 0
    BY <1>1 DEF AtLength, Readers, NoResponse
  <1>3. DOMAIN heap = {} /\ DOMAIN qBuffer = {}
    BY <1>1
  <1>4. TypeInv
    BY <1>1, <1>2, <1>3, MessagesAssumption DEF TypeInv
  <1>5. WireInv
    <2> DEFINE at == [k \in 1..1 |-> 0]
    <2>1. Cut(<<>>, <<>>, at)
      BY DEF Cut
    <2>2. <<>> \in Seq(Bytes) /\ After(<<>>, 0) = <<>> /\ Len(<<>>) = 0
      BY DEF After
    <2> HIDE DEF at
    <2>3. Lies(<<>>, at, 0)
      BY <1>1, <1>2, <2>1, <2>2 DEF Lies
    <2> QED BY <2>2, <2>3 DEF WireInv
  <1>6. IInv
    BY BufferStarts DEF Init
  <1>7. QP!IInv
    <2>1. QP!BufferInit
      BY DEF Init, QP!BufferInit, Q!BufferInit
    <2> QED BY <2>1, QueueStarts
  <1>8. Own
    <2>1. Single = {0}
      BY <1>1, <1>2 DEF Single
    <2> QED BY <1>1, <1>2, <1>3, <2>1 DEF Own
  <1>9. Transit = <<>> /\ ForProcess = <<>>
    <2>1. Transit = <<>>
      BY <1>1, <1>2 DEF Transit, InReader
    <2>2. InQueue = <<>> /\ InProcess = <<>>
      BY <1>1, <1>3 DEF InQueue, InProcess
    <2> QED BY <2>1, <2>2 DEF ForProcess
  <1>10. Responses
    <2>1. DOMAIN Transit = {}
      BY <1>9
    <2> QED BY <1>1, <1>2, <2>1, Zenon DEF Responses
  <1>11. Order
    <2>1. Selected(Transit, Queued) = <<>> /\ Selected(Transit, Packets) = <<>>
      BY <1>9, SelectedNone
    <2>2. AsPackets(<<>>) = <<>>
      BY DEF AsPackets
    <2> QED BY <1>1, <1>9, <2>1, <2>2 DEF Order
  <1>12. Forgot
    BY <1>1 DEF Forgot
  <1> QED BY <1>4, <1>5, <1>6, <1>7, <1>8, <1>10, <1>11, <1>12 DEF MInv

\* Every step keeps it.
LEMMA InvNext == MInv /\ [Next]_vars => MInv'
  <1> SUFFICES ASSUME MInv, [Next]_vars PROVE MInv'
    OBVIOUS
  <1>1. TypeInv /\ Own /\ Forgot /\ Responses /\ Order /\ WireInv /\ IInv /\ QP!IInv
    BY DEF MInv
  <1>2. CASE Next
    <2>1. [BufferNext]_bufVars /\ [Q!BufferNext]_(Q!bufVars)
      BY <1>2, BufferSteps
    <2>2. IInv'
      BY <1>1, <2>1, BufferInductive
    <2>3. QP!IInv'
      <3>1. [QP!BufferNext]_(QP!bufVars)
        BY <2>1 DEF QP!BufferNext, QP!bufVars, Q!BufferNext, Q!bufVars,
          QP!Push, QP!PopNow, QP!PopWaits, QP!PopTakes, QP!PopWaitsOn, QP!PopTimesOut, QP!Takes, QP!Leaves,
          QP!NotifyOne, QP!Asleep,
          Q!Push, Q!PopNow, Q!PopWaits, Q!PopTakes, Q!PopWaitsOn, Q!PopTimesOut, Q!Takes, Q!Leaves,
          Q!NotifyOne, Q!Asleep
      <3> QED BY <1>1, <3>1, QueueKeeps
    <2>4. TypeInv' /\ WireInv' /\ Own' /\ Responses' /\ Order'
      <3>1. CASE ServerSends
        BY <3>1, ServerSendsKeeps
      <3>2. CASE ServerAnswers
        BY <3>2, AnswersKeeps
      <3>3. CASE Loss
        BY <3>3, LossKeeps
      <3>4. CASE ReadLength \/ ReadBody
        BY <3>4, ReadsKeeps
      <3>5. CASE Deserializes
        BY <3>5, DeserializesKeeps
      <3>6. CASE SetsResponse \/ Destroys \/ PassesToDemuxer \/ Stores
        <4>1. UNCHANGED <<wire, onWire>> /\ Has /\ reader' = AtLength
          BY <3>6 DEF SetsResponse, Destroys, PassesToDemuxer, Stores, wireVars, Has
        <4>2. WireInv'
          BY <1>1, <4>1, WireSame
        <4> QED BY <3>6, <4>2, SetsKeeps, DestroysKeeps, PassesKeeps, StoresKeeps
      <3>7. CASE Requests
        BY <3>7, RequestsKeeps
      <3>8. CASE Gets
        BY <3>8, GetsKeeps
      <3>9. CASE UsesAnswer
        BY <3>9, UsesKeeps
      <3>10. CASE ProcessPops
        BY <3>10, ProcessKeeps
      <3>11. CASE ProcessHandles
        BY <3>11, HandlesKeeps
      <3>12. CASE KodiReads \/ Flushes
        BY <3>12, KodiKeeps
      <3>13. CASE FileReadForgets
        BY <3>13, ForgetsKeeps
      <3> QED
        BY <1>2, <3>1, <3>2, <3>3, <3>4, <3>5, <3>6, <3>7, <3>8, <3>9, <3>10, <3>11, <3>12, <3>13
        DEF Next, ReaderStep
    <2>5. Forgot'
      BY <1>2, ForgetsKeeps, ForgotKeeps
    <2> QED BY <2>2, <2>3, <2>4, <2>5 DEF MInv
  <1>3. CASE UNCHANGED vars
    <2>1. UNCHANGED <<wire, onWire, sent, reader, heap, last, misfreed, forgotten, buffer, qBuffer, process, seq, response,
                      answer, asked, owed>>
      BY <1>3 DEF vars, wireVars, heapVars, bufVars, qVars, respVars
    <2>2. TypeInv' /\ WireInv' /\ Own' /\ Responses' /\ Order'
      BY <1>1, <2>1, Same
    <2>3. UNCHANGED <<buffer, hasData, waiting, notified>> /\ UNCHANGED <<qBuffer, qHasData, qWaiting, qNotified>>
      BY <1>3 DEF vars, bufVars, qVars
    <2>4. IInv'
      BY <1>1, <2>3 DEF IInv, BufferTypeOK, FrontExists, NobodySleeps, Asleep
    <2>5. QP!IInv'
      BY <1>1, <2>3 DEF QP!IInv, QP!BufferTypeOK, QP!FrontExists, QP!NobodySleeps, QP!Asleep
    <2>6. Forgot'
      <3>1. Held' = Held
        BY <2>1 DEF Held, Single
      <3> QED BY <1>1, <2>1, <3>1, ForgotStays
    <2> QED BY <2>2, <2>4, <2>5, <2>6 DEF MInv
  <1> QED BY <1>2, <1>3

-----------------------------------------------------------------------------
(***************************************************************************)
(* What it says.                                                           *)
(***************************************************************************)
\* Each place that holds an address holds one that none of the others does.
LEMMA OwnsOne == TypeInv /\ Own /\ Forgot => OneOwner
  <1> SUFFICES ASSUME TypeInv, Own, Forgot PROVE OneOwner
    OBVIOUS
  <1>1. qBuffer \in Seq(Addresses)
    BY DEF TypeInv
  <1>2. PICK n \in Nat : n = Len(qBuffer)
    BY <1>1
  <1> DEFINE first == <<reader.msg, process, response.msg, answer>>
  <1>3. /\ DOMAIN qBuffer = 1..n
        /\ \A k \in 1..n : qBuffer[k] # 0 /\ qBuffer[k] \in Nat
    BY <1>1, <1>2 DEF Addresses
  <1>4. first \in Seq(Nat) /\ qBuffer \in Seq(Nat) /\ Len(first) = 4
    <2>1. reader.msg \in Nat /\ process \in Nat /\ response.msg \in Nat /\ answer \in Nat
      BY DEF TypeInv, Readers
    <2>2. Addresses \subseteq Nat
      BY DEF Addresses
    <2>3. qBuffer \in Seq(Nat)
      BY <1>1, <2>2, SeqMonotonic
    <2> QED BY <2>1, <2>3
  <1>5. /\ first[1] = reader.msg /\ first[2] = process /\ first[3] = response.msg /\ first[4] = answer
    OBVIOUS
  <1> HIDE DEF first
  <1>6. /\ DOMAIN Holds = 1..(4 + n)
        /\ \A i \in 1..(4 + n) : Holds[i] = IF i <= 4 THEN first[i] ELSE qBuffer[i - 4]
    <2>1. Holds = first \o qBuffer
      BY DEF Holds, first
    <2>2. /\ first \o qBuffer \in Seq(Nat) /\ Len(first \o qBuffer) = 4 + n
          /\ \A i \in 1..(4 + n) : (first \o qBuffer)[i] = IF i <= 4 THEN first[i] ELSE qBuffer[i - 4]
      <3>1. first \in Seq(Nat) /\ qBuffer \in Seq(Nat)
        BY <1>4
      <3>2. /\ first \o qBuffer \in Seq(Nat) /\ Len(first \o qBuffer) = Len(first) + Len(qBuffer)
            /\ \A i \in 1..(Len(first) + Len(qBuffer)) :
                 (first \o qBuffer)[i] = IF i <= Len(first) THEN first[i] ELSE qBuffer[i - Len(first)]
        BY <3>1, ConcatProperties
      <3>3. Len(first) = 4 /\ Len(qBuffer) = n
        BY <1>2, <1>4
      <3> QED BY <3>2, <3>3
    <2> QED BY <2>1, <2>2
  <1>7. \A i \in 1..(4 + n) : \/ i \in {1, 2, 3, 4} /\ i <= 4
                              \/ i - 4 \in 1..n /\ ~(i <= 4)
    OBVIOUS
  <1>8. \A i \in 1..(4 + n) : \/ i \in {1, 2, 3, 4} /\ Holds[i] = first[i]
                              \/ i - 4 \in 1..n /\ Holds[i] = qBuffer[i - 4]
    BY <1>6, <1>7
  <1>9. \A k \in 1..n : k + 4 \in 1..(4 + n) /\ ~(k + 4 <= 4) /\ (k + 4) - 4 = k
    OBVIOUS
  <1>10. /\ \A k \in 1..n : k + 4 \in DOMAIN Holds /\ Holds[k + 4] = qBuffer[k]
         /\ \A k \in {1, 2, 3, 4} : k \in DOMAIN Holds /\ Holds[k] = first[k]
    <2>1. \A k \in {1, 2, 3, 4} : k \in 1..(4 + n) /\ k <= 4
      OBVIOUS
    <2> QED BY <1>6, <1>9, <2>1
  <1>11. Single = {first[1], first[2], first[3], first[4]}
    BY <1>5 DEF Single
  <1>12. {Holds[i] : i \in Owners} \cup forgotten = DOMAIN heap
    <2>1. ASSUME NEW i \in Owners PROVE Holds[i] \in DOMAIN heap
      <3>1. i \in 1..(4 + n) /\ Holds[i] # 0
        BY <1>6 DEF Owners
      <3>2. CASE i \in {1, 2, 3, 4} /\ Holds[i] = first[i]
        <4>1. Holds[i] \in Single
          BY <1>11, <3>2
        <4> QED BY <3>1, <4>1 DEF Own
      <3>3. CASE i - 4 \in 1..n /\ Holds[i] = qBuffer[i - 4]
        BY <1>3, <3>3 DEF Own
      <3> QED BY <1>8, <3>1, <3>2, <3>3
    <2>2. ASSUME NEW a \in DOMAIN heap, a \notin forgotten PROVE \E i \in Owners : Holds[i] = a
      <3>1. a # 0
        BY Contents DEF Addresses
      <3>2. CASE a \in Single
        <4>1. PICK i \in {1, 2, 3, 4} : a = first[i]
          BY <1>11, <3>2
        <4>2. i \in DOMAIN Holds /\ Holds[i] = a
          BY <1>10, <4>1
        <4> QED BY <3>1, <4>2 DEF Owners
      <3>3. CASE \E k \in DOMAIN qBuffer : qBuffer[k] = a
        <4>1. PICK k \in 1..n : qBuffer[k] = a
          BY <1>3, <3>3
        <4>2. k + 4 \in DOMAIN Holds /\ Holds[k + 4] = a
          BY <1>10, <4>1
        <4> QED BY <3>1, <4>2 DEF Owners
      <3> QED BY <2>2, <3>2, <3>3 DEF Own
    <2>3. forgotten \subseteq DOMAIN heap
      BY DEF Forgot
    <2> QED BY <2>1, <2>2, <2>3
  <1>13. ASSUME NEW i \in Owners, NEW j \in Owners, Holds[i] = Holds[j] PROVE i = j
    <2>1. i \in 1..(4 + n) /\ j \in 1..(4 + n) /\ Holds[i] # 0
      BY <1>6 DEF Owners
    <2>2. CASE /\ i \in {1, 2, 3, 4} /\ Holds[i] = first[i]
               /\ j \in {1, 2, 3, 4} /\ Holds[j] = first[j]
      <3>1. /\ first[1] # 0 => first[1] \notin {first[2], first[3], first[4]}
            /\ first[2] # 0 => first[2] \notin {first[3], first[4]}
            /\ first[3] # 0 => first[3] # first[4]
        BY <1>5 DEF Own
      <3>2. first[i] = first[j] /\ first[i] # 0
        BY <1>13, <2>1, <2>2
      <3> QED BY <2>2, <3>1, <3>2
    <2>3. ASSUME NEW k \in {1, 2, 3, 4}, NEW l \in 1..n, first[k] = qBuffer[l], first[k] # 0
          PROVE  FALSE
      <3>1. first[k] \in Single
        BY <1>11
      <3> QED BY <1>3, <2>3, <3>1 DEF Own
    <2>4. CASE /\ i - 4 \in 1..n /\ Holds[i] = qBuffer[i - 4]
               /\ j - 4 \in 1..n /\ Holds[j] = qBuffer[j - 4]
      <3>1. qBuffer[i - 4] = qBuffer[j - 4]
        BY <1>13, <2>4
      <3>2. i - 4 = j - 4
        BY <1>3, <2>4, <3>1 DEF Own
      <3> QED BY <2>1, <3>2
    <2> QED BY <1>8, <1>13, <2>1, <2>2, <2>3, <2>4
  <1>14. ~misfreed
    BY Zenon DEF Own
  <1>15. forgotten \cap {Holds[i] : i \in Owners} = {}
    <2>1. ASSUME NEW i \in Owners PROVE Holds[i] \in Held
      <3>1. i \in 1..(4 + n) /\ Holds[i] # 0
        BY <1>6 DEF Owners
      <3>2. CASE i \in {1, 2, 3, 4} /\ Holds[i] = first[i]
        <4>1. Holds[i] \in Single
          BY <1>11, <3>2
        <4>2. Holds[i] \in DOMAIN heap
          BY <3>1, <4>1 DEF Own
        <4> QED BY <4>1, <4>2, Contents DEF Held
      <3>3. CASE i - 4 \in 1..n /\ Holds[i] = qBuffer[i - 4]
        BY <1>3, <3>3 DEF Held, Addresses
      <3> QED BY <1>8, <3>1, <3>2, <3>3
    <2> QED BY <2>1 DEF Forgot
  <1>16. \A a \in forgotten : heap[a] \in Answers /\ GetBin(heap[a], Data).err # OK
    BY DEF Forgot
  <1> QED BY <1>12, <1>13, <1>14, <1>15, <1>16, Zenon DEF OneOwner

\* What is selected from the messages in transit is what OnTheWay chooses.
LEMMA AsSent == MInv => HandedOnAsSent
  <1> SUFFICES ASSUME MInv PROVE HandedOnAsSent
    OBVIOUS
  <1>1. TypeInv /\ Own /\ Responses /\ Order
    BY DEF MInv
  <1>2. Transit \in Seq(Sent) /\ InQueue \in Seq(Sent) /\ InProcess \in Seq(Sent)
    BY <1>1, Contents
  <1>3. OnTheWay(IsQueued) = Selected(Transit, Queued)
    <2>1. OnTheWay(IsQueued) = Chosen(Transit, IsQueued)
      BY DEF OnTheWay, Transit
    <2> QED BY <1>2, <2>1, ChosenQueued
  <1>4. OnTheWay(IsPacket) = Selected(Transit, Packets)
    <2>1. OnTheWay(IsPacket) = Chosen(Transit, IsPacket)
      BY DEF OnTheWay, Transit
    <2> QED BY <1>2, <2>1, ChosenPackets
  <1>5. InProcess \o InQueue \o OnTheWay(IsQueued) = owed.process
    BY <1>1, <1>3 DEF Order, ForProcess
  <1>6. buffer \o [i \in DOMAIN OnTheWay(IsPacket) |-> Packet(OnTheWay(IsPacket)[i])] = owed.kodi
    BY <1>1, <1>4 DEF Order, AsPackets
  <1>7. /\ response.msg # 0 => Content(response.msg) = Answer(seq)
        /\ answer # 0 => Content(answer) = Answer(seq)
    BY <1>1 DEF Responses
  <1> QED BY <1>5, <1>6, <1>7, Zenon DEF HandedOnAsSent, InQueue

\* Every message that was received and is in memory has one owner, who will free
\* it, but for the answers that SendFileRead forgets, and none has been freed
\* twice, however the server, the reader, the requests and the threads
\* that pop take turns, and wherever the connection breaks.
THEOREM OneOwnerAlways == Spec => []OneOwner
  <1>1. MInv => OneOwner
    BY OwnsOne DEF MInv
  <1> QED BY <1>1, InvInit, InvNext, PTL DEF Spec

\* What the Process thread and Kodi get is what the server has sent, in its
\* order and nothing twice, however the bytes arrive; of the messages for the
\* Process thread none is missing but for a loss, of the packets only those that
\* ParseMuxPacket does not accept or that are flushed; and a request gets the
\* response to it, or none.
THEOREM HandedOnAlways == Spec => []HandedOnAsSent
  <1> QED BY AsSent, InvInit, InvNext, PTL DEF Spec

\* No thread sleeps beside a packet, nor the Process thread beside a message.
THEOREM NobodySleepsAlways == Spec => [](NobodySleeps /\ QP!NobodySleeps)
  <1>1. MInv => NobodySleeps /\ QP!NobodySleeps
    BY DEF MInv, IInv, QP!IInv
  <1> QED BY <1>1, InvInit, InvNext, PTL DEF Spec
=============================================================================
