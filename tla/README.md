# pvr.hts in TLA+

pvr.hts is the Kodi add-on for the Tvheadend server. It keeps one HTSP
connection to the server, mirrors the server's channels, tags, recordings and
programme guide, and plays live and recorded streams. The code is C++ with
several threads and three kinds of mutexes; what is hard in it is the order in
which these threads, the server and a connection that comes and goes act. This
directory holds models of that behaviour, the configurations that check them
with TLC, and proofs checked by TLAPS. Paths below are relative to the root of
the repository.

## The system

| part | state | operations | talks to |
|---|---|---|---|
| HTSP connection (`src/tvheadend/HTSPConnection.cpp`, `utilities/TCPSocket.cpp`) | `m_socket`, `m_messages` (sequence number to waiting `HTSPResponse`), `m_seq`, `m_ready`, `m_suspended`, `m_state` | `Process`/`ReadMessage` (connection thread), `Register` (registration thread), `SendAndWait`/`SendAndWait0` (any thread), `Disconnect`, `OnSleep`, `OnWake`, `Stop` | the server; calls `Connected`, `ProcessMessage`, `ConnectionStateChange` of `CTvheadend` |
| Asynchronous sync (`src/Tvheadend.cpp`, `utilities/AsyncState.cpp`) | `m_asyncState`, `m_stateRebuilt`, `m_queue`, `m_events`, the maps `m_channels`, `m_tags`, `m_recordings`, `m_schedules` with a dirty flag per entity | `Connected`, `ProcessMessage` (enqueue), `Process` (apply), `Sync*Completed`, `Parse*` | the connection, Kodi (`Trigger*Update`, guide events), `Get*` calls of Kodi that wait for a state |
| Demuxer and subscription (`HTSPDemuxer.cpp`, `Subscription.cpp`) | subscription id, channel, weight, speed, state; packet buffer, streams, seek in progress, requested and actual speed | `Open`, `Close`, `Read`, `Seek`, `Speed`, `FillBuffer`, `Weight`, `Abort`, `RebuildState`, `Parse*` of stream messages | calls the connection; the connection thread delivers packets; the `Process` thread rebuilds it after a reconnect and closes it when it has expired |
| Predictive tuning (`Tvheadend.cpp` 3233-3329, `ChannelTuningPredictor.cpp`) | several demuxers, the active one, the set of channels by number | `OpenLiveStream`, `PredictiveTune`, `TuneOnOldest`, `CloseExpiredSubscriptions` | demuxers, channel map |
| Recorded streams (`HTSPVFS.cpp`) | server file id, offset, pause state; the map `m_vfs` | `Open`, `Read`, `Seek`, `Size`, `Close`, `RebuildState` | connection, `Process` thread |
| Queues between threads (`utilities/SyncedBuffer.h`) | a bounded queue and a flag | `Push`, `Pop` with time-out | connection thread to `Process`, connection thread to Kodi's player |
| Timers (`Tvheadend.cpp` 565-1540, `TimeRecordings.cpp`, `AutoRecordings.cpp`, `entity/*Recording*`, `LifetimeMapper.h`) | maps of recordings and recurring timers, integer ids generated for string ids | add, update, delete requests of the user; the server's messages about them; Kodi's lists | connection, `Process` thread, Kodi |
| Message encoding (`lib/libhts/htsmsg*.c`, `HTSPMessage.h`) | messages in memory and who owns them | build, serialize, deserialize, look fields up | connection thread, queues |
| Settings, logging, RDS and AAC parsing, `lib/` | values | getters, bit-stream parsing | - |

The behaviours that are hard, component by component, are the `hazards` of
`PROJECT.json`, each with the line where it bites and the properties that are
aimed at it.

What makes each part correct:

- *connection*: a waiting call gets its own answer or none, and always returns;
  no pointer into a dead stack frame is left in `m_messages`; requests that
  wait for the registration are not sent before it; after any failure the
  connection comes back; stopping ends the thread.
- *sync*: nothing the server has is ever dropped from the mirror, nothing it
  deleted is kept, Kodi is told of every change, and an interrupted sync
  finishes on the next connection.
- *demuxer*: what Kodi plays is subscribed, what it closed is not; a channel
  change delivers no packet of the channel before; pausing and resuming reach
  the server; a reconnect restores all this.
- *predictive tuning*: the channel that is tuned next exists; the active
  demuxer is never the one taken for pre-tuning nor closed as expired.
- *recorded streams*: after a reconnect reading continues where it was.
- *queues*: first in first out, nothing lost below the bound, no lost wake-up.
- *timers*: Kodi's lists end up as the server's; what a user picks from a list,
  however old, is what the request names; a running recording is stopped and
  not aborted; what was set is what is shown again.
- *message encoding*: what arrives is what was sent, however the bytes are cut
  into pieces; every message in memory has one owner.

## Modules

| module | stands for | note |
|---|---|---|
| `HtspConnection` | the connection | one action per section of code between two places where `m_mutex` is released |
| `RequestService` | what a caller of the connection may rely on | abstract; `HtspConnection` implements it (`RefinesService`) |
| `MCHtspConnection` | instance for TLC | the callers are symmetric |
| `HtspConnectionProofs` | theorems about `HtspConnection`: types, responses, what `m_ready` promises, and that it implements `RequestService` | |
| `AsyncSync` | the asynchronous sync | connection reduced to up, down and what is under way on it |
| `MCAsyncSync` | instance for TLC | |
| `AsyncSyncProofs` | theorems about `AsyncSync` | |
| `LiveStream` | a demuxer with its subscription | connection reduced to four states; the server executes a request when it is written |
| `MCLiveStream` | instance for TLC | |
| `LiveStreamProofs` | theorems about `LiveStream` | |
| `PredictiveTuning` | several demuxers, the predictor, their weights and their expiry | packets and reconnects of one stream are left to `LiveStream` |
| `MCPredictiveTuning` | instance for TLC | |
| `PredictiveTuningProofs` | theorems about `PredictiveTuning` | |
| `RecordedStream` | the VFS and `m_vfs` across reconnects | two players |
| `MCRecordedStream` | instance for TLC | |
| `RecordedStreamProofs` | theorems about `RecordedStream` | |
| `StartWindows` | times of the day as rules send and show them | pure operators |
| `Timers` | recordings, one-shot timers and rules: user, server, Kodi's lists | extends `StartWindows` |
| `MCTimers` | instance for TLC | |
| `TimersProofs` | theorems about `StartWindows` and `Timers` | |
| `HtsMsg` | messages in memory, the look-up of fields | pure operators |
| `HtsMsgBinary` | the binary form of messages | pure operators, recursive, and therefore kept out of what is reasoned about |
| `SyncedBuffer` | the queue between threads | no fairness; used twice in `Messages` |
| `SyncedBufferProofs` | theorems about `SyncedBuffer` | |
| `Messages` | the way of a message from the wire to the thread that uses it | composes `HtsMsg` with `SyncedBuffer` as `m_pktBuffer` (extended) and as `m_queue` (instance `Q`) |
| `MCMessages` | instance for TLC, with `HtsMsgBinary` as the encoding, and the assumptions that check it | |
| `MessagesProofs` | theorems about `Messages` | uses those of `SyncedBufferProofs` for either queue |

### HtspConnection

`m_mutex` is held from one condition wait to the next, so the code between two
waits is one action. `pc[t]` says where a thread is: a caller (`Clients`) is
`gate` in `WaitForConnection`, `wait` in `HTSPResponse::Get`, then `ok` or
`null`. The registration thread sends `hello`, `authenticate`, the queries of
`CTvheadend::Connected` and `enableAsyncMetadata`, keeping the mutex between a
response and the next request (`pc = "send"`, which disables every other
thread's locked action, `LockFree`). `mainPc` is the connection thread: `top`
of the loop, `gate` (the wait for wake-up), `open` and `opening` (connect),
`read` and `dispatch` (`ReadMessage` before and under the mutex), `join`.
`sock` joins `m_socket` and the TCP connection below it; a write to a
connection that the peer has left may still succeed, and a peer that leaves in
the middle of a packet (`torn`) makes `TCPSocket::Read` return 0 again and
again. `m_messages` is a function from sequence numbers to threads, because
what its pointers lead to is the stack of a thread. A request is in `wire` from
the write to the dispatch of its response; the server may answer in any order.
`stopping` and `suspended` are read without the mutex where the code does so.

Reduced: `m_state` to "Kodi was last told CONNECTED", responses to good or bad,
messages that are not responses to nothing (they do not touch this state).

### AsyncSync

The connection thread queues messages (`queue`), `Process` applies them under
`CTvheadend::m_mutex`, the registration thread changes `m_asyncState` and
`m_stateRebuilt` without it, and so does Kodi's thread in `GetEPGForChannel`,
which calls `ParseEvent`. Therefore a `Sync*Completed` function is two actions,
`Tests` and `Acts`, and handling a message is the sequence of these for all the
states up to the one its handler ends with (`Target`), then the message's own
work. `known` and `dirty` stand for the maps and their flags, `events` for
`m_events`, `trig` for what Kodi has been told to fetch, and `seen` for what it
has fetched (or, of the guide, been sent).

Reduced: an entity has no contents, so an update of one that is known changes
nothing; providers are not told apart from channels; recurring timers are left
out (their messages test no state, and they are erased with the recordings).

### LiveStream

One demuxer (`m_dmx.size() == 1`, no predictive tuning). `call[t]` is the step a
thread is at: waiting for `m_ready` (`gate`), for a response or, in `Seek`, for
the time (`wait`), or running with the mutex of the connection (`run`) between
two steps that the connection thread can fall between, because its handlers of
packets, starts and statuses do not take that mutex: after `Flush` and before
`Abort0`, after `Abort0` and before `ResetStatus`. `ReadMessage` finds the
demuxer by `GetSubscriptionId`, and the handler runs in a second step. `Ask`
and `Continues` are `SendAndWait` up to its wait and from it on; `GivesUp` is
its time-out, which closes whatever connection there is. `link` joins `m_ready`
and the socket. `pending` is `!m_stateRebuilt`; `RebuildState` to `RebuildEnds`
are `HTSPDemuxer::RebuildState` on the `Process` thread.

`net` holds what the server has sent, responses included, in order. `srv` is
what it has subscribed on this connection. A stamp stands for the position a
packet was taken from; it grows with every subscription and every seek, so that
an old packet can be told from a new one. `m_seektime` is two variables, because
the pointer and the object it leads to have different lives: `seekp` (null, set,
dangling) and `seekGot`.

Reduced: the state of a subscription to active or not, which is all the code
tests; streams to the subscription they came with; the buffer to packets that
carry data; speeds to paused, normal and fast; the suspended system.
`source`, `disturbed`, `since` and `crashed` are observed only.

### PredictiveTuning

`dmx[d]` is a demuxer with its subscription: channel, weight, active or not,
paused, last use. Kodi's thread (`kodi.at`) goes through `OpenLiveStream`:
the searches for a demuxer that is already on the channel (`OpenSame`,
`OpenLingering`) or for the oldest one (`OpenOldest`), `Close`, `subscribe`,
the two requests that change weights, and `PredictiveTune` with
`TuneOnOldest`; every request is a place where the other thread may act.
`Process` is `CloseExpiredSubscriptions`: the test of a demuxer, and its `Close`
as a step of its own. The server's changes of the channel list keep `channels`
and the predictor's set of pairs, which need not agree with it for ever.
`PredictNextChannelId` is a function of that set; an iterator is a set with one
pair or none, so that `end()` is a value like any other.

Requests can fail. A subscribe that the server takes or does not take may be
answered late (`OpenFails`). Of `SendWeight` and `SendUnsubscribe` the addon
ignores the response and keeps its own state whatever the server did: a weight
that was not changed leaves `stale` at the server's subscription, an unsubscribe
that was not executed leaves `kept`. `ParseSubscriptionStatus` makes the demuxer
whose id the status has active, whatever it says; it runs on the thread of the
connection, without the mutex of the requests, so it may come at any moment
once the server has taken the subscription. Behind an unsubscribe it makes a
demuxer active that the server has ended or is about to end. From then on the
code is not what it is meant to be: the demuxer counts as open, and `Open`
returns it as such, although nothing is sent to it. `hist` observes this, and
`NoDuplicates`, `WeightOrder` and `ServerAgrees` leave such a demuxer out (`Live`,
`Phantom`), because of it they do not hold. `PlaysWhatWasAsked` and `ExpiredGoes`
are about every demuxer. When `Close` of the expiry falls between the subscribe of
`Open` and its response, the demuxer is made active by the response behind that
unsubscribe; it is left out in the same way.

Reduced: a channel is its number and its id; time is a counter; what a status says
beyond that it makes active (`LiveStream` has packets, reconnects and the rest of
one stream).

### RecordedStream

A client is a thread of Kodi that plays the recording of its own name. Each
call is two actions, the request (`Asks`, executed by the server when it is
written) and what the thread does with the response (`SeekReturns`,
`SizeReturns`, ...); between them the connection may be lost, and the `Process`
thread may rebuild the object, which nothing locks. `mVfs` leads from stream ids
to objects, `files` is what the server has open on this connection, whose ids
start again with every connection. `RebuildState` asks for the file and then
for the position, in two steps. `m_eofOffsetSecs`, `m_pauseTime` and
`m_isRealTimeStream` are kept, because the time a growing recording is paused
moves its end.

Reduced: positions are counted in seconds of recording, so that a bit rate is
1; the wait for the sync state before a file is opened.
`want`, `misread`, `drift` and `disturbed` are observed only. `disturbed` is
true once a call was under way at a loss or before the rebuild was over, a seek or
a request of the rebuild was refused, or a new stream got the id of an old one
(`Disturb` lists all): what the properties claim is then not so in the code, and
the hazards say how.

### StartWindows and Timers

`StartWindows` has the window that is sent for an approximate start time and
the start time that is shown for it, both modulo a day. `Timers` has the three
parties that share recordings and rules: the server, which executes a request
and sends what it changed; the `Process` thread, which applies its messages one
by one (with the dirty flags of the sync, `level`); and a user, who picks an
entry of a list that may be out of date (`list`, fetched by `GetTimers` after
`told`). A user's call is a request (`call.at = "asked"`), the server's doing
or refusal, and the return with its error code (`Returns`); while it waits it
holds `m_mutex` where the code does, which stops the `Process` thread. A rule
has a string id at the server and an integer id (`intId`) for Kodi. A rule that
is deleted takes its scheduled timers with it, whose deletions the server sends in
any order.

Reduced: of the fields of an entry, those that a user sets and finds again
(enabled, lifetime, times) and those that tie entries together. Numbers of 32
bits have the range `Wide`; conversions between signed and unsigned are modelled
as they are (`Unsigned`, `TvhToKodi`). Changing the lifetime of a recording
stands for the requests of the same form (name, play count, position).

Duplicates. A message about an entry that the server marks as a duplicate is not
looked at when the setting says so (`IgnoreDuplicates`, the default and its value
in both runs; guard `Ignored`). A duplicate timer is therefore not listed; one that
Kodi has and that becomes a duplicate stays in Kodi's lists as it was, with the
user's later changes not shown, until it is a duplicate no more or is deleted.
`KodiAgrees` and `ShownAsSet` leave these entries out (`Hidden`); `DeletedIsGone` and
`StopsGracefully` do not, and hold of them too. That only timers that have not
begun are duplicates is an assumption about the server, taken from the setting's
name in `pvr.hts/changelog.txt:369`. The state `"missed"` of the server stands for
"invalid" as well; both are shown as errors (`StateOf`).

### HtsMsg, HtsMsgBinary, SyncedBuffer and Messages

`HtsMsgBinary` writes and reads the binary form byte by byte, with the widths of
integers scaled down (`Long`, `Short`) and everything else as it is: headers,
nested lists, the zero-byte integer, the test for the smallest field. The
look-ups of `HtsMsg` convert and range-check as `htsmsg_get_*` do, by way of
strings too.
`SyncedBuffer` has one action per critical section; a `Pop` that waits is two,
and a thread that was notified gets the mutex whenever it does. `Messages` is
`ReadMessage` with partial reads, which makes an object in `heap` and hands it
to a waiting `HTSPResponse`, to the demuxer, or to `m_queue`; every `htsmsg_destroy`
of a message that was received is in the model (`Frees`), and so is the one that is
missing: `SendFileRead` returns without it when the response has no data
(`HTSPVFS.cpp:361-365`, `FileReadForgets`). `ParseMuxPacket` copies a packet out of
a message only if its subscription is active, `stream` and `payload` are there, the
stream is known and no seek is under way. What it finds of the first, the third
and the last is any combination at every packet (`Demuxers`), because the other
threads and the messages of the subscription change it between two packets. It has the encoding as two
parameters, `Encode` and `Decode`, of which it assumes that a message is read back
from the bytes that were written of it (`ReadBack`); every run gives them
`HtsMsgBinary`, and TLC evaluates the assumption with it.

Reduced: a packet to its stream, time and payload; one request waits at a time;
`Flushes` stands for `Flush` and `Trim`. Left out are the packets that the demuxer
makes itself (a change of streams, RDS), the requests the addon builds (`SendAndWait`
forgets its own when `WaitForConnection` fails, `HTSPConnection.cpp:478-479`), and a
field that breaks off after its name, which `htsmsg_binary_des0` forgets (lines
101-102): the server sends well-formed messages.

## Runs

| run | asks | instance |
|---|---|---|
| `conn_safety` | do stale responses, dangling entries, early requests or double answers occur | two callers with one call each per connection and the registration; loss (also inside a packet), error responses, suspend and resume, disconnects by the demuxer |
| `conn_recovery` | does every call return, does the connection come back, does Stop end it | one caller; loss, unreachable server, errors, stop, then calm |
| `sync_recover` | is anything missed, does the sync end, when it is interrupted | two connections, one change of the server, loss, late answers, and changes of the time span of the guide |
| `sync_steady` | are deletions, additions and notifications complete | one connection, two changes, the guide read concurrently once the initial sync has listed recordings |
| `sync_ghosts` | are deletions during a loss noticed: violated | |
| `live` | do packets of another channel or position reach Kodi, is a subscription left behind | four calls of any kind, one connection; aborts, refused requests and seeks |
| `live_recover` | does a stream come back | two calls; a loss, a stall or a given-up request at any moment |
| `tuning` | is a channel subscribed twice, is the demuxer that plays taken for a prediction or closed as expired, do addon and server agree, does what has expired go, with requests that fail and statuses at any time | two demuxers, two channels at first and a third that may be added, also with the number of another, two channel changes of Kodi, any statuses in time, one event (a change of the list, a weight or unsubscribe request that fails, or a status behind an unsubscribe), three times of the clock |
| `recorded` | is what is read what was asked for, also after a reconnect, is a file left open, is the distance to the end right | two players, one recording still growing, four calls, one loss, one refusal or change |
| `timers` | do Kodi's lists end as the server's, does a request name what was picked, is anything aborted, resurrected or shown otherwise than set | a rule with its timer at first, two calls of the user, two events of the server, late, lost and refusing answers, duplicates ignored |
| `timers_lifetime` | does the server keep the lifetime that was meant: violated | one call |
| `messages` | does what is handed on arrive as it was sent, with only what may be dropped missing, is memory owned by one, does a popper sleep beside an entry | samples with every type of field, two messages, two requests, one loss, partial reads, two poppers |

Bounds. `MaxSeq` bounds when a call may start, per connection; `m_seq` itself
starts again with every connection, so the runs go through any number of
connections, and one call per caller and connection is enough for calls of an
old connection to meet calls of the next one with the same number, which is the
case that matters. `Queries` is what the code does, 2. In `AsyncSync`
`MaxConns = 2` gives an interrupted sync and the one after it, with messages of
the first still queued; `MaxChanges` lets an entity come or go at any moment of
them. One entity of a kind is enough where the properties speak of single
entities; `sync_steady` has two channels so that a listed and an added one
coexist.
In `LiveStream` two messages on their way and
two packets to read are enough for a status or a packet to overtake a call, and
four calls for open, seek, open or pause and close with something between; a
second loss adds nothing that is claimed, since `ComesBack` and the invariants
of `live` do not speak of streams hit in the middle of a request.
In `tuning` two demuxers are the fewest with which one is played and one
predicted or lingering, and one of them is always the oldest; two channel
changes give a promotion of the one that lingers, with a prediction on either
side of it, and a clock of three lets a subscription expire (`CloseDelay = 1`)
during and after a change. One event is one deviation from what the addon
believes (a failed request or a late status) or one change of the list, at any
moment; statuses before an unsubscribe are not bounded. In `recorded` two players are needed for one
to get the other's id, and four calls for open, seek or pause and resume, read
and close around one loss. In `timers` the day has six minutes and
`MaxDiff = 1`, so that a window begins before midnight, ends after it, or
neither; two calls are enough for a second one that uses a list from before the
first, two events for a recording that starts and ends or a rule that makes a
timer and goes, or a timer that becomes a duplicate and is none again. The theorem about windows has no bounds. In `messages` two
messages and two requests interleave all three kinds of message on one
connection and let a late response meet the next request; what one message
looks like is covered by the samples and by the assumptions of `MCMessages`,
which TLC evaluates: `ReadAsWritten` (length and contents of every sample),
`NumbersArrive` (numbers of no, one and two bytes, through every getter) and
`FieldsFound`. The largest sizes of the buffers are never reached in the code
(`MaxSize`), and the proofs of `SyncedBuffer` hold for any.

Deadlock is checked where the system goes on for ever (`conn_safety`); the other
runs end when their bounds are used up.

Fairness. Weak fairness of the threads' own steps: they are scheduled, and each
wait of theirs has a time-out (`wait_for`). `SF` for the callers and for the
second half of `Stop`: they need the mutex, which the registration thread takes
and releases again and again, and a mutex that is free infinitely often is
eventually obtained. Nothing is assumed of the server and the network, except
after `CalmDown` in `conn_recovery`: from then on it accepts, answers, and a
time-out fires only if no answer can come; without that, nothing could be said
about recovery. In `sync_recover` the last connection is not lost.
In `LiveStream` the connection thread reconnects and the threads go on; the
player's calls and the server's messages are not fair, and the number of calls
and losses is bounded, so weak fairness is enough for the mutex as well.
In `PredictiveTuning` the steps of a call that Kodi has begun and the `Process`
thread go on, since each request is answered or times out; Kodi's calls, the
server's changes and the clock are not fair. The other modules state safety
only and no fairness.

## Findings

Two are checked as runs that TLC finds violated:

1. After a reconnect the sync state is still `ASYNC_DONE`; what the server
   deleted in the meantime stays in Kodi until the add-on is restarted
   (`sync_ghosts`), although the comment says all is flagged "in case they've
   been deleted".
2. Rules are sent with Kodi's numbers for "forever" and "until space needed"
   and not with the server's (`timers_lifetime`). They come back as the same
   numbers, so that the user does not notice (`ShownAsSet` holds).

Others were met while modelling and have no run. Where they are behaviours of the
modules, the property they would break excludes them and says so; the rest is at
its hazard.

- *Connection.* `Disconnect` says it signals the waiters; it only forgets them,
  and they return by their time-out and disconnect whatever connection there is
  then. `OnSleep` says it prevents a reconnect; the connection thread may
  already be past its test. A packet that is cut off spins the read loop.
- *Sync.* `GetEPGForChannel` before the first sync has got that far takes the
  arrival of a programme for the end of the recordings and channels, and erases
  nothing only because nothing is dirty then. What was stored while
  `enableAsyncMetadata` had failed is never announced.
- *Demuxer.* A status that is read while `Close` waits for its unsubscribe makes
  the subscription active again. A refused seek leaves `m_seektime` pointing to
  a frame that is gone; `Abort` during `Seek` leads to a null pointer; a stream
  that is resumed before its pause is confirmed stays paused; `Close` during
  `RebuildState` is lost.
- *Tuning.* Log calls with `m_channels[id]` (3254, 3291, 3318) store an empty
  channel for an id that is gone, two of them without the mutex. A status that is
  read behind the unsubscribe makes a demuxer active again: it is then found as
  lingering on a channel that the server does not send, or counted as open when the
  subscribe of `Open` was refused. A weight or unsubscribe request that fails is
  never repeated.
- *Recorded streams.* `RebuildState` closes a file at position 0 and keeps one
  whose seek failed; a failed seek is reported as position 0 to the player; the
  server's file ids start again after a reconnect, and `m_vfs` may then have two
  streams for one id; `OpenRecordedStream` returns an error code as `true`.
- *Timers.* The rules' handlers call no Sync function. If the server lists no
  tag and no channel before them, the first recording of the listing calls
  `SyncInitCompleted`, which flags the rules that have just been received, and
  `SyncDvrCompleted` erases them: they are not in Kodi's list until the server
  changes them (constant `ChannelFirst`; the theorems say where it is needed).
  `DeleteTimer` looks the index of a rule up among the recordings first; beyond
  the server's first recording number (`FirstId`) that is another's number.
  With duplicates ignored (the default), a timer that becomes one is frozen in
  Kodi's lists; the setting hides only those that were duplicates from the start.
  A response without `success` counts as a success, because
  `PVR_ERROR_FAILED` is given as an unsigned default (`Malformed`).

## Proofs

`HtspConnectionProofs` proves for every set of callers, every number of queries
and calls and every choice of events:

- `TypeCorrect`: the type invariant.
- `OneRegistration`: outside the span from `CreateThread` to `StopThread` of the
  connection thread the registration thread is off. This is an invariant of its
  own, because the steps of the connection thread need it to know that nobody
  holds the mutex when they replace the socket.
- `NoDangling` and `ResponsesMatch`. Neither is inductive. The inductive
  invariant `IInv` adds where a sequence number may still occur: a request on
  the wire, and a response that has been read and not dispatched, belong to a
  thread and a number such that, if `m_messages` has that number, it leads to
  the thread that sent it (`WireOwners`, `InmsgOwner`). This is what makes the
  reuse of numbers by the next connection harmless: the wire is emptied before
  `m_seq` is reset, and an entry that survives is either found by its own
  response or overwritten by the call that uses the number next.

About the registration:

- `RegisteredFirst`: `NoRequestBeforeRegistration`. The invariant `RInv` adds
  that `m_ready` is set only when the server has granted what it requires
  (`ReadyGranted`), that `Register` passed each request of the registration
  only when it was granted or need not be (`RegGranted`), and that the request
  which `Register` waits for is the one it takes it for (`RegAsked`). A grant is
  only lost with the socket, which is replaced while nobody registers
  (`RegParked`, behind `OneRegistration`).
- `ReadyReported`: `ReadyIsReported`, assuming that nobody suspends the system;
  with `OnSleep` the property does not hold, which is why the run that checks
  it leaves that event out.

About the abstract service:

- `Implements`: `RefinesService`. Each step changes the stages of calls as
  `RequestService` allows, or not at all. What `IInv` does not say and the
  proof needs is `OneRequest`: on one connection a number is used for one
  request, which is on the wire or whose response is read, not both; so a
  call that was executed cannot look submitted again.

`LiveStreamProofs` proves for any number of calls, losses and messages, and
whatever is called, aborted, refused or given up:

- `LiveTypes`: the type invariant. It takes that a speed which the server confirms
  is one that was asked for.
- `NothingStale` and `NothingLeftBehind`: `NoStalePackets` and `NoOrphans`, both
  with the premise `losses = 0` that is their own. (After a loss the code does not
  keep them in every case: see Findings.) Neither is inductive: whether a packet is
  stale shows when it is read, and was settled when the server sent it. The
  inductive invariant `LInv` says that until the first loss nobody but the player
  waits (`Undisturbed`, `PlayerAt`) and one response is on its way to him
  (`OneAnswer`); that the server has at most the current subscription
  (`ServedOnly`); that the response to the request which ends a subscription is the
  last the server says, so that nothing is left on its way when the player clears
  the buffer (`LastWord`, `Drained`); hence that all that is on its way is of the
  current subscription (`ThisOne`), and that stamps come in order, those behind a
  jump not before it (`InOrder`, with `Follows` for a part of the way). The lemmas
  about a step are about what it does to the messages on their way: one more
  sent, the first one taken, a subscription ended or begun, a seek. TLC checked
  `LInv` on the instance of run `live` (1,469,994 states) before it was proved.

`AsyncSyncProofs` proves for any finite sets of entities and any bounds:

- `SyncTypes`: the type invariant, for every choice of events. It takes
  `InBounds`, that no thread takes the sync further than the message it handles
  calls for.
- `NothingIsMissed`: `NothingMissed` through any number of broken, stalled or
  repeated syncs. The invariant `MInv` looks at everything the `Process` thread
  still has to handle as one sequence (`Stream`: the message at hand, `m_queue`,
  what is on the wire) and says that each entity of the server is either
  safely known (not dirty, or dirty and listed again before the state is reached
  whose handler erases it) or listed in the stream with no deletion behind it.
  `NothingMissed` alone is not inductive, because what is known and dirty may be
  erased.
- `KeepsNoGhosts`, `TellsKodi` and `ChannelsAreComplete`: `NoGhosts`,
  `KodiInformed` and `ChannelsComplete` while the connection lasts. The
  invariant `SInv` says how far the registration and the sync are with respect to
  the listing, that what is known and not the server's any more has its deletion
  in the stream, and that what Kodi has not seen it has been told to fetch.

`NothingIsMissed` has the premise `"guide" \notin Events`, the others have `Lasts`:
no event but the guide, and that only read once the recordings are listed. These
are not conveniences of the proof. With the guide read before, Kodi's thread
takes the sync past a state for which the listing has not come
(`GetEPGForChannel`, a hazard), and what is erased then depends on that race;
after a loss there are ghosts (`sync_ghosts`). `NothingMissed` with a guide that
is read late is checked by `sync_steady`.

`PredictiveTuningProofs` proves for any channels, any finite set of demuxers and
any bounds:

- `TuningInductive`: the inductive invariant. It says of every moment, not only
  of rest, that the server has what the demuxers have, but for what failed
  requests leave (`ServerHas`), that no other demuxer is subscribed to the channel
  that one is being opened for (`OpeningAlone`), and in which step of
  `OpenLiveStream` the normal weight is held by nobody, by the one before, or by
  the one that plays (`Playing`). It holds with statuses at any moment and with any number of failed
  requests; a demuxer that a status has made active behind its unsubscribe is left
  out of it where the properties leave it out.
- `TuningTypes`, `OneTunerPerChannel`, `PlaysTheRightOne`, `WeightsAreOrdered`,
  `ServerKnows`: the invariants of run `tuning` follow from it.

`RecordedStreamProofs` proves for any set of players, any bounds, and any
lengths:

- `RecordedTypes`: the type invariant. It needs that `m_vfs` and the ids of the
  clients lead to each other (`Named`), that no file is beyond the end of its
  recording (`Within`), and that the clock is never 0, by which `Resume`
  recognises a pause.
- `ReadsAreRight`, `OffsetsAreRight`, `FilesAreClosed`, `StreamsGoOn` and
  `PausesCounted`: the invariants of run `recorded`, with the premise
  `~disturbed` that is their own. The invariant `Calm` says who holds a file
  of the server at every moment: the client to which the id belongs, a response
  with the id of a new file that nobody has read yet, a close that is not yet
  written, or the rebuild between `fileOpen` and `fileSeek` (`Holds`). Every
  file is held (`Held`), what is held is there and of the holder's recording
  (`Kept`), and it is at the position that the holder is at once it has seen its
  response (`Placed`). The connection part says that calls are under way only
  while the connection stands and, `open` apart, while nothing is rebuilt, so
  that a step of a client disturbs no other's files (`ClientActs`) and a step of
  the rebuild none but those of its object (`ObjectRebuilt`).

Four definitions were changed for these proofs, none of them in what it allows on
the instances that are run: `MaxTime` is not 0 in `PredictiveTuning`, the recorded
length is within `MaxTime` in `RecordedStream`, the sets of entities are
finite; and the objects that the rebuild still has to visit (`rebuild.todo`) are
a set whose least id is next, which is how `std::map` is walked. `Target` in
`AsyncSync` had guards that overlapped and is now a case analysis without order.

`SyncedBufferProofs` proves for any entries, any finite set of threads and any
size:

- `BufferInductive`: the inductive invariant, which joins the types,
  `FrontExists` and `NobodySleeps`. The last two need each other: that no sleeper
  is forgotten when a notified thread goes back to sleep takes that `m_hasData`,
  which it looked at, is false only if the queue is empty.
- `FrontAlwaysExists`: a thread that wakes up and trusts `m_hasData` never takes
  the front of an empty queue.
- `NobodyEverSleeps`: the property of run `messages`, for one buffer.

`MessagesProofs` proves for any messages, any numbers of them, of requests and of
losses, and for every way in which `recv` may cut the bytes:

- `HandedOnAlways`: `HandedOnAsSent`, for any answer of `ParseMuxPacket` at every
  packet. A packet that is not accepted is owed no longer, so the theorem says of
  those that are read that they are as sent, in order and once each, and of the
  missing ones that nothing else has taken them. Two invariants carry it. `WireInv`: what has
  been read of the message at hand and what is still on the wire are together
  the serialised messages that the reader has not finished, one behind the other
  (`Cut`), so that the length that is read is the length of the first and what is
  decoded is the first, wherever the pieces end. `Order`: what is owed to a thread
  is what it has at hand, what is in its queue, and what is on its way, selected
  by the test that `ReadMessage` and `ProcessMessage` make; and no more is owed
  than was sent, so that no queue is ever full. `Responses`: the request that waits
  is the last one, and its response is on its way once at most.
- `OneOwnerAlways`: `OneOwner`; what nobody frees is a response without data
  (`forgotten`) and nothing else. It follows from `Own`, which says it for each pair of places;
  it takes `Order` as well, because a message that is pushed to a full queue would
  have no owner, and `Responses`, because a second response to a request would
  replace the first.
- `NobodySleepsAlways`: `NobodySleeps`, of `m_pktBuffer` and of `m_queue`. A step of
  `Messages` is a step of either buffer or leaves it alone (`BufferSteps`), so that
  the inductive invariant of `SyncedBufferProofs` is used twice as it is.

The premises are the assumptions of `Messages`: `ReadBack`, see above;
`NumbersFit`, that the numbers of requests are within 32 bits; `SamplesAreCalls`,
that what the server sends of its own accord has a method and no request number;
`PacketsAreEntries`, that what `ParseMuxPacket` makes of a message is an entry of the
buffer; and that not more is sent than a queue can hold, since both are made with
the largest size there is (`MessagesAssumption`). TLC checked the whole
invariant, `MInv`, before: all 104,390 states with one message and two requests.
The library's induction takes an operator and cannot be cited; where the selection
of messages from the wire needs induction (`Selected`), `Induction` gives it over a
set, from the fact that the numbers are well-founded.

`TimersProofs` proves for every length of the day, every setting
`autorec_maxdiff` below half of it, every lifetime that Kodi offers, any start and
stop times, any width of a 32-bit number from 10 up and any number of entities,
calls and events:

- `ApproximateTimesReturn`: the approximate time that is shown for a window that
  was sent is the one that was set; the only exception is midnight, which may be
  shown as the end of the day. The argument is that the window is twice
  `MaxDiff` wide, counted across midnight where it begins or ends beyond it, so
  that its middle needs no rounding.
- `TimersInductive`: the inductive invariant `IInv`. None of the properties of run
  `timers` is inductive, for each speaks of a moment and the answer lies in the
  messages on their way. `Follows` says what `m_queue` promises: of the messages
  about one entry the last agrees with the server, and none comes after a
  deletion, because no number is given twice (`Numbered`). So an entry of which
  the queue says nothing is as the server's (`RecsAgree`, `RulesAgree`), and
  one that is shown as being recorded is scheduled neither at the server nor in
  any message to come (`Started`). `Items` says of Kodi's list, however old, that
  the index of every entry still leads to what was picked or to nothing;
  for that `Ints` keeps every index to one rule for ever and `SameKind` keeps a
  rule a timerec or an autorec. `WishMet` and `RuleMeets` carry what the user has
  set through the mappings of lifetimes and times to the server and back.
  A step of the server is split off from what it does: `Sound` says what a set of
  messages and a change of the server must have in common, every request and
  every event is shown to be sound (`RecChanges`, `RecGoes`, `RuleChanges`,
  `RuleGoesSoundly`), and `ServerStep` concludes once for all. In the same way
  `Handled` says what handling one message may do, and `HandledOn` concludes for
  the six handlers.
- `TimersTypes`, `TheRightTimer`, `RecordingsStopGracefully`,
  `KodiHasTheServersEntries`, `DeletedTimersAreGone`, `SettingsReturn`: the
  invariants of run `timers`. Two premises occur, where the code needs them:
  `intId <= FirstId`, since `DeleteTimer` confuses a rule with a recording when the
  index of the one is the number of the other; and `ChannelFirst`, since without a
  channel the rules of the listing are lost (see Findings). `timers` has both:
  indices stay below `FirstId = 100`. A lifetime of 0 is not offered
  (`CTvheadend::GetLivetimeValues`) and is no lifetime of `Lifetimes`: it would
  come back as -3. `Malformed` may be either.

Every invariant that a run checks is stated by a theorem. Only model-checked:
liveness and the fairness it takes, which are out of reach of TLAPS 1.4.5 (it has
no ENABLED): `CallsReturn`, `StopEnds` and `Recovers` of the connection, `Synced`,
`ComesBack` and `ExpiredGoes`. `LifetimeKept` is not so (`timers_lifetime`). That
`HtsMsgBinary` reads what it wrote (`ReadBack`) is a statement about recursive
operators, which no prover here takes; it is checked on the samples.

## Plan

1. *(done)* `HtspConnection`, its abstract service, its proofs; `AsyncSync`;
   `LiveStream`.
2. *(done)* `PredictiveTuning`, `RecordedStream`, `SyncedBuffer` with proofs,
   `Timers`, and `HtsMsg` with `Messages`, which was not planned at first.
3. Proofs. *(done)* The invariants of `HtspConnection` and its refinement of
   `RequestService`; those of `AsyncSync`, `LiveStream`, `PredictiveTuning`,
   `RecordedStream`, `Timers` and `Messages`. Left: that `SyncedBuffer`
   implements an abstract bounded queue.
4. A composition of `PredictiveTuning` with reconnects of several demuxers.

## Not modelled

- *RDS and AAC parsing* (`src/aac`, `utilities/RDSExtractor`): functions of the
  bits of one packet without shared state, derived from published decoders.
- *Settings and logging*: stored values and formatting. The settings that the
  modules read are constants of theirs (`CloseDelay`, `AsyncEpg`, `MaxDiff`) or
  variables where they change (`approx`).
- *Descriptions of streams and their quality*, timeshift status, descramble
  information: copied from messages to Kodi without a test.
- *Contents of channels, tags and programmes*, providers, stream and channel
  types, edit decision lists, disk space: translation of data.
- *Timer types and custom properties* offered to the user, and the requests that
  differ from those modelled in the field they carry only.
- *Floating-point fields*, printing and copying of messages: not used here.
- `lib/kissnet`, `net_winsock.c`, `sys/queue.h`: vendored or platform code. What
  the add-on sees of a socket is modelled where it is used: a read that is
  short, one that fails, one that returns 0, a write that succeeds in vain.
