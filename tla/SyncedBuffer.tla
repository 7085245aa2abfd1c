---------------------------- MODULE SyncedBuffer ----------------------------
(***************************************************************************)
(* SyncedBuffer<T> (utilities/SyncedBuffer.h): the queue between the       *)
(* thread that reads from the server and the threads that use what has     *)
(* been read. Every method is one critical section of m_mutex, but a Pop   *)
(* that waits is two, and a thread that has been notified gets the mutex   *)
(* whenever it does: others may have popped before it.                     *)
(***************************************************************************)
EXTENDS Naturals, Sequences, FiniteSets

CONSTANTS
  Entries,   (* what is queued                                             *)
  Poppers,   (* the threads that pop                                       *)
  MaxSize    (* m_maxSize                                                  *)

ASSUME SizeAssumption == MaxSize \in Nat \ {0}
ASSUME PoppersAssumption == IsFiniteSet(Poppers)

VARIABLES
  buffer,    (* m_buffer                                                   *)
  hasData,   (* m_hasData                                                  *)
  waiting,   (* the threads that wait for m_condition                      *)
  notified   (* those of them that have been notified since                *)

bufVars == <<buffer, hasData, waiting, notified>>

BufferInit == buffer = <<>> /\ hasData = FALSE /\ waiting = {} /\ notified = {}

Asleep == waiting \ notified

\* notify_one.
NotifyOne ==
  IF Asleep = {} THEN UNCHANGED notified ELSE \E p \in Asleep : notified' = notified \cup {p}

\* Push: a full buffer refuses the entry.
\* (Mutant of Push: nobody is notified.)
PushQuietly(entry) ==
  IF Len(buffer) = MaxSize THEN UNCHANGED bufVars
  ELSE buffer' = Append(buffer, entry) /\ hasData' = TRUE /\ UNCHANGED <<waiting, notified>>
Push(entry) ==
  IF Len(buffer) = MaxSize THEN UNCHANGED bufVars
  ELSE /\ buffer' = Append(buffer, entry) /\ hasData' = TRUE
       /\ NotifyOne /\ UNCHANGED waiting

\* The end of a successful Pop: the entry is Head(buffer).
Takes == buffer' = Tail(buffer) /\ hasData' = (Tail(buffer) # <<>>)
Leaves(p) == waiting' = waiting \ {p} /\ notified' = notified \ {p}

\* Pop finds an entry at once.
PopNow(p) == p \notin waiting /\ buffer # <<>> /\ Takes /\ UNCHANGED <<waiting, notified>>

\* Pop with a timeout finds none.
PopWaits(p) ==
  /\ p \notin waiting /\ buffer = <<>>
  /\ waiting' = waiting \cup {p} /\ UNCHANGED <<buffer, hasData, notified>>

\* The wait ends with data: after a notification, a spurious one, or the timeout.
PopTakes(p) == p \in waiting /\ hasData /\ Takes /\ Leaves(p)

\* It was notified and another was quicker: it waits on.
PopWaitsOn(p) ==
  /\ p \in notified /\ ~hasData
  /\ notified' = notified \ {p} /\ UNCHANGED <<buffer, hasData, waiting>>

\* The timeout, without data.
PopTimesOut(p) == p \in waiting /\ ~hasData /\ Leaves(p) /\ UNCHANGED <<buffer, hasData>>

BufferNext ==
  \/ \E entry \in Entries : Push(entry)
  \/ \E p \in Poppers : PopNow(p) \/ PopWaits(p) \/ PopTakes(p) \/ PopWaitsOn(p) \/ PopTimesOut(p)

BufferSpec == BufferInit /\ [][BufferNext]_bufVars

-----------------------------------------------------------------------------
BufferTypeOK ==
  /\ buffer \in Seq(Entries) /\ Len(buffer) <= MaxSize /\ hasData \in BOOLEAN
  /\ waiting \subseteq Poppers /\ notified \subseteq waiting

\* m_hasData, which a waiting Pop trusts when it takes the front of the queue,
\* says exactly whether there is one.
FrontExists == hasData <=> buffer # <<>>

\* No thread sleeps beside an entry that nobody has been sent for.
NobodySleeps == Asleep = {} \/ Cardinality(notified) >= Len(buffer)
=============================================================================
