------------------------- MODULE SyncedBufferProofs -------------------------
(***************************************************************************)
(* What SyncedBuffer promises to any number of threads, for entries of any *)
(* kind and a buffer of any size.                                          *)
(***************************************************************************)
EXTENDS SyncedBuffer, FiniteSetTheorems, TLAPS

\* The inductive invariant. NobodySleeps counts the notified threads, which
\* takes their finiteness; that it holds when a thread has waited in vain takes
\* FrontExists, for m_hasData and not the queue is what the thread looked at.
IInv == BufferTypeOK /\ FrontExists /\ NobodySleeps

\* The notified threads are finitely many.
LEMMA NotifiedFinite ==
  ASSUME BufferTypeOK
  PROVE  IsFiniteSet(notified) /\ Cardinality(notified) \in Nat
<1>1. notified \subseteq Poppers
  BY DEF BufferTypeOK
<1>2. IsFiniteSet(notified)
  BY <1>1, PoppersAssumption, FS_Subset
<1> QED
  BY <1>2, FS_CardinalityType

\* One thread fewer: what is left of the notified.
LEMMA OneFewer ==
  ASSUME BufferTypeOK, NEW p
  PROVE  Cardinality(notified \ {p}) =
           IF p \in notified THEN Cardinality(notified) - 1 ELSE Cardinality(notified)
BY NotifiedFinite, FS_RemoveElement

\* Push keeps the invariant: the entry that is added sends a sleeper for it, or
\* there is none.
LEMMA PushKeeps ==
  ASSUME IInv, NEW entry \in Entries, Push(entry)
  PROVE  IInv'
<1>1. CASE Len(buffer) = MaxSize
  BY <1>1 DEF IInv, BufferTypeOK, FrontExists, NobodySleeps, Push, bufVars, Asleep
<1>2. CASE Len(buffer) # MaxSize
  <2>1. /\ buffer' = Append(buffer, entry) /\ hasData' = TRUE /\ waiting' = waiting /\ NotifyOne
    BY <1>2 DEF Push
  <2>2. /\ buffer' \in Seq(Entries) /\ Len(buffer') = Len(buffer) + 1 /\ Len(buffer) \in Nat
        /\ buffer' # <<>>
    BY <2>1 DEF IInv, BufferTypeOK
  <2>3. CASE Asleep = {}
    <3>1. notified' = notified
      BY <2>1, <2>3 DEF NotifyOne
    <3> QED
      BY <1>2, <2>1, <2>2, <2>3, <3>1, SizeAssumption
      DEF IInv, BufferTypeOK, FrontExists, NobodySleeps, Asleep
  <2>4. CASE Asleep # {}
    <3>1. PICK p \in Asleep : notified' = notified \cup {p}
      BY <2>1, <2>4 DEF NotifyOne
    <3>2. p \in waiting /\ p \notin notified
      BY <3>1 DEF Asleep
    <3>3. BufferTypeOK /\ IsFiniteSet(notified) /\ Cardinality(notified) \in Nat
      BY NotifiedFinite DEF IInv
    <3>4. Cardinality(notified') = Cardinality(notified) + 1
      BY <3>1, <3>2, <3>3, FS_AddElement
    <3>5. Cardinality(notified) >= Len(buffer)
      BY <2>4 DEF IInv, NobodySleeps
    <3>6. Cardinality(notified') >= Len(buffer')
      BY <2>2, <3>3, <3>4, <3>5
    <3>7. BufferTypeOK'
      BY <1>2, <2>1, <2>2, <3>1, <3>2, SizeAssumption DEF IInv, BufferTypeOK
    <3>8. FrontExists'
      BY <2>1, <2>2 DEF FrontExists
    <3> QED
      BY <3>6, <3>7, <3>8 DEF IInv, NobodySleeps
  <2> QED
    BY <2>3, <2>4
<1> QED
  BY <1>1, <1>2

\* Taking the front keeps m_hasData true to the queue.
LEMMA TakesKeeps ==
  ASSUME IInv, buffer # <<>>, Takes
  PROVE  /\ buffer' \in Seq(Entries) /\ Len(buffer') = Len(buffer) - 1 /\ Len(buffer) \in Nat
         /\ Len(buffer') <= MaxSize /\ hasData' \in BOOLEAN /\ FrontExists'
<1>1. buffer \in Seq(Entries) /\ Len(buffer) <= MaxSize
  BY DEF IInv, BufferTypeOK
<1>2. buffer' = Tail(buffer) /\ hasData' = (Tail(buffer) # <<>>)
  BY DEF Takes
<1>3. hasData' \in BOOLEAN /\ FrontExists'
  BY <1>2, Zenon DEF FrontExists
<1>4. /\ buffer' \in Seq(Entries) /\ Len(buffer') = Len(buffer) - 1 /\ Len(buffer) \in Nat
      /\ Len(buffer') <= MaxSize
  BY <1>1, <1>2, SizeAssumption
<1> QED
  BY <1>3, <1>4

\* Every step of the buffer keeps the invariant.
THEOREM BufferInductive ==
  IInv /\ [BufferNext]_bufVars => IInv'
<1> SUFFICES ASSUME IInv, [BufferNext]_bufVars PROVE IInv'
  OBVIOUS
<1>0. /\ BufferTypeOK /\ IsFiniteSet(notified) /\ Cardinality(notified) \in Nat
      /\ Len(buffer) \in Nat /\ waiting \subseteq Poppers /\ notified \subseteq waiting
  BY NotifiedFinite DEF IInv, BufferTypeOK
<1>1. ASSUME NEW entry \in Entries, Push(entry) PROVE IInv'
  BY <1>1, PushKeeps
<1>2. ASSUME NEW p \in Poppers, PopNow(p) PROVE IInv'
  <2>1. buffer # <<>> /\ Takes /\ waiting' = waiting /\ notified' = notified
    BY <1>2 DEF PopNow
  <2> QED
    BY <1>0, <2>1, TakesKeeps DEF IInv, BufferTypeOK, NobodySleeps, Asleep
<1>3. ASSUME NEW p \in Poppers, PopWaits(p) PROVE IInv'
  <2>1. /\ buffer = <<>> /\ buffer' = buffer /\ hasData' = hasData /\ notified' = notified
        /\ waiting' = waiting \cup {p}
    BY <1>3 DEF PopWaits
  <2>2. BufferTypeOK' /\ FrontExists'
    BY <1>0, <2>1 DEF IInv, BufferTypeOK, FrontExists
  <2>3. Cardinality(notified') >= Len(buffer')
    BY <1>0, <2>1
  <2> QED
    BY <2>2, <2>3 DEF IInv, NobodySleeps
<1>4. ASSUME NEW p \in Poppers, PopTakes(p) PROVE IInv'
  <2>1. /\ p \in waiting /\ hasData /\ Takes /\ waiting' = waiting \ {p} /\ notified' = notified \ {p}
    BY <1>4 DEF PopTakes, Leaves
  <2>2. buffer # <<>>
    BY <2>1 DEF IInv, FrontExists
  <2>3. BufferTypeOK' /\ FrontExists' /\ Len(buffer') = Len(buffer) - 1
    BY <1>0, <2>1, <2>2, TakesKeeps DEF BufferTypeOK
  <2>4. CASE Asleep = {}
    BY <2>1, <2>3, <2>4 DEF IInv, NobodySleeps, Asleep
  <2>5. CASE Cardinality(notified) >= Len(buffer)
    <3>1. Cardinality(notified') >= Cardinality(notified) - 1
      BY <1>0, <2>1, OneFewer
    <3>2. Cardinality(notified') \in Nat
      BY <1>0, <2>1, FS_RemoveElement, FS_CardinalityType
    <3>3. Cardinality(notified') >= Len(buffer')
      BY <1>0, <2>3, <2>5, <3>1, <3>2
    <3> QED
      BY <2>3, <3>3 DEF IInv, NobodySleeps
  <2> QED
    BY <2>4, <2>5 DEF IInv, NobodySleeps
<1>5. ASSUME NEW p \in Poppers, PopWaitsOn(p) PROVE IInv'
  <2>1. /\ p \in notified /\ ~hasData /\ notified' = notified \ {p}
        /\ buffer' = buffer /\ hasData' = hasData /\ waiting' = waiting
    BY <1>5 DEF PopWaitsOn
  <2>2. buffer = <<>> /\ Len(buffer') = 0
    BY <2>1 DEF IInv, FrontExists
  <2>3. BufferTypeOK' /\ FrontExists'
    BY <1>0, <2>1 DEF IInv, BufferTypeOK, FrontExists
  <2>4. Cardinality(notified') \in Nat
    BY <1>0, <2>1, FS_RemoveElement, FS_CardinalityType
  <2> QED
    BY <2>2, <2>3, <2>4 DEF IInv, NobodySleeps
<1>6. ASSUME NEW p \in Poppers, PopTimesOut(p) PROVE IInv'
  <2>1. /\ p \in waiting /\ ~hasData /\ waiting' = waiting \ {p} /\ notified' = notified \ {p}
        /\ buffer' = buffer /\ hasData' = hasData
    BY <1>6 DEF PopTimesOut, Leaves
  <2>2. buffer = <<>> /\ Len(buffer') = 0
    BY <2>1 DEF IInv, FrontExists
  <2>3. BufferTypeOK' /\ FrontExists'
    BY <1>0, <2>1 DEF IInv, BufferTypeOK, FrontExists
  <2>4. Cardinality(notified') \in Nat
    BY <1>0, <2>1, FS_RemoveElement, FS_CardinalityType
  <2> QED
    BY <2>2, <2>3, <2>4 DEF IInv, NobodySleeps
<1>7. CASE UNCHANGED bufVars
  BY <1>7 DEF IInv, BufferTypeOK, FrontExists, NobodySleeps, Asleep, bufVars
<1> QED
  BY <1>1, <1>2, <1>3, <1>4, <1>5, <1>6, <1>7 DEF BufferNext

\* The empty buffer satisfies it.
LEMMA BufferStarts == BufferInit => IInv
<1> SUFFICES ASSUME BufferInit PROVE IInv
  OBVIOUS
<1>1. buffer = <<>> /\ hasData = FALSE /\ waiting = {} /\ notified = {}
  BY DEF BufferInit
<1>2. BufferTypeOK
  <2>1. buffer \in Seq(Entries) /\ Len(buffer) <= MaxSize
    BY <1>1, SizeAssumption
  <2>2. hasData \in BOOLEAN /\ waiting \subseteq Poppers /\ notified \subseteq waiting
    BY <1>1
  <2> QED
    BY <2>1, <2>2 DEF BufferTypeOK
<1>3. FrontExists /\ NobodySleeps
  BY <1>1 DEF FrontExists, NobodySleeps, Asleep
<1> QED
  BY <1>2, <1>3 DEF IInv

\* A Pop never takes the front of an empty queue: what m_hasData says is so.
THEOREM FrontAlwaysExists == BufferSpec => []FrontExists
<1>1. IInv => FrontExists
  BY DEF IInv
<1> QED
  BY <1>1, BufferStarts, BufferInductive, PTL DEF BufferSpec

\* No thread that waits is left asleep beside an entry nobody has been sent for,
\* whoever else pops before the notified thread gets the mutex.
THEOREM NobodyEverSleeps == BufferSpec => []NobodySleeps
<1>1. IInv => NobodySleeps
  BY DEF IInv
<1> QED
  BY <1>1, BufferStarts, BufferInductive, PTL DEF BufferSpec
=============================================================================
