# Verification of dahua-cgi-sdk

TLA+ models of the `dahua_rpc` package (`src/src/dahua_rpc/`, a synchronous
Python SDK for Dahua recorders) and of two of its concurrent tools, the TLC
configurations that check them on small instances, and proofs that TLAPS
checks. Paths below are relative to the package unless they say otherwise; line
numbers are in `PROJECT.json` under `map`.

## 1. The system

| Component | State it keeps | Operations | Interacts with |
|---|---|---|---|
| `_RtspStream` (`_rtsp_connection.py`) | byte buffer, bounded media queue with drop counters, table of pending CSeqs, first error, stop event, reader thread | `register`, `cancel`, `response`, `fail`, `close`, `media_packets`, `_read_loop` | caller threads wait on one event per request; the consumer waits on the condition variable; the socket is closed under the reader |
| `_RtspConnection` (same file) | socket and stream, Digest state (nonce, count), CSeq, RTSP `Session`, request lock, keepalive thread and its stop event | `start`, `pause`, `play`, `receive`, `teardown`, `close_socket`, `_keepalive_loop` | requests of the application and of the keepalive thread through one lock; the keepalive thread fails the stream |
| `_RpcConnection` (`_rpc_connection.py`) | lock, RPC2 session, session error, keepalive thread and its stop event | `call`, `login`, `get`, `logout`, `close`, `stop_keepalive`, `_keepalive_loop` | every service and every media search calls it, from any thread |
| `RecordingPlayback` (`playback.py`) | state, position anchor, counters | `start`, `pause`, `resume`, `seek`, `seek_relative`, `receive`, `close` | drives one `_RtspConnection`; tells the client when it closes |
| `LiveStream` (`live.py`) | state, counters | `start`, `receive`, `close` | as above |
| `_MediaSearch` (`_media_search.py`) | server-side search object, page buffer, finished and closed flags | iteration, `close` | calls `_RpcConnection`, also while cleaning up |
| `DahuaClient` (`client.py`) | the RPC connection, the sets of playbacks and live streams | construction with verification, `close` | creates and closes all of the above |
| `MediaService`, `CameraService` (`media.py`, `cameras.py`) | none | validated calls | `_RpcConnection`, the factories of the client |
| `recorder_time.py`, `parsers/`, `models/`, `exceptions.py` | none | pure functions, data classes | the parsers decide whether a page of a search is accepted |
| local RTSP bridge (`src/tools/probe_local_rtsp_bridge.py`) | a mapper per track (numbering, timestamps), a bounded queue, pending reports and parameter sets, two events, a lock, the playing and the prepared playback, one client | `start`, `seek`, `prepare_transition`, `activate_transition`, `close`; accept, reader and sender threads | plays a `RecordingPlayback` upstream, serves one RTSP client downstream |
| scaling probe (`src/tools/probe_playback_scaling.py`) | the report of each stage, the playbacks a stage holds | search for a common window, five stages in a thread pool | opens and closes many playbacks of one `DahuaClient` |
| other probes, examples | none | scripts | use the package from outside |

What is hard, and what makes each component correct:

* **`_RtspStream`** has one reader thread against any number of callers, a
  consumer, a keepalive thread that may fail it and a thread that closes it.
  A caller must not be stranded between registration and failure, must get its
  own response or the first error and never both; a local close must not look
  like a failure and a failure must not look like a close; a queue at its
  capacity must account for what it loses.
* **Framing** depends on how TCP cuts the bytes: nothing but malformed data may
  be rejected, and nothing may be returned that was not sent.
* **`_RtspConnection`** shares CSeq and nonce count between two threads, repeats
  requests, starts a thread at the end of `start()` and joins it in `close()`:
  numbers must not be reused, no thread or session may be left behind, and a
  close must not deadlock with the thread it joins.
* **`_RpcConnection`** opens its session lazily under a lock that whole HTTP
  exchanges hold, while part of the keepalive bookkeeping is done without it.
  Sessions must not be leaked, must be maintained while in use, and the error
  of an old session must not outlive it.
* **`RecordingPlayback`** estimates where the recorder is from confirmed
  positions and a clock, through exchanges that take time and may be lost.

* **The local bridge** joins several upstream playbacks into one downstream
  source while a seek or a handoff is under way. Packets are fetched under a
  lock and processed outside it: the numbering, the parameter sets and the
  sender reports must fit all the same, no playback may be forgotten, and its
  threads must not die of what clients do but where the code leaves an exception
  uncaught, nor outlive `close()`.
* **The scaling probe** starts sessions in worker threads of which any may fail
  at any step, and decides from what it measured whether to open more: it must
  know what is open, close it, and not measure beside sessions that no report
  tells of.

`PROJECT.json` lists these under `hazards`, each at its line.

## 2. Modules

| Module | Models | Main correspondence |
|---|---|---|
| `CallTable` | abstract: what the stream promises its callers | a request is opened once on a stream that has not failed, then answered, given up or failed; a failure settles all open requests in one step |
| `RtspStream` | `_RtspStream` with the part of `_request_once` that drives it | one action per critical section of `_condition`, or per step outside it; `pending`, `error`, `stop`, `media` are the attributes; `call`, `response`, `err` are one `_PendingResponse` and its caller for each CSeq; `owed` is the recorder |
| `RtspStreamProofs` | theorems about `RtspStream` and `RtspFraming` | section 5 |
| `RtspFraming` | `_receive`, `_interleaved`, `_response`, the reject test and the poll of `_read_loop` | the byte stream is a sequence of units; `buffer` is what was received and not consumed |
| `RtspConnection` | `_RtspConnection` driven by a playback or live stream, with the keepalive thread and the recorder's sessions | one action per step of `_request`/`_request_once` of each thread; `Close`, `StopKeepalive`, `Join`, `CloseSocket` are `close()`, `teardown()` and `close_socket()` |
| `RtspConnectionProofs` | theorems about `RtspConnection` | section 5 |
| `RpcConnection` | `_RpcConnection` with client threads, keepalive threads and the recorder's sessions | `pc` follows each operation; the lock is a variable; the accesses outside the lock are single steps |
| `RpcConnectionProofs` | theorems about `RpcConnection` | section 5 |
| `BridgeMedia` | `RtpContinuityMapper`, `BoundedPacketQueue`, `rewrite_rtcp`, and the media path of `LocalRtspBridge` | `Number`, `Inject`, `Emit` and `Report` are `_process_packet`, by the reader or by a handoff; `Seek`, `Mark`, `Reset`, `Prepare`, `Position`, `Activate`, `Collect`, `Expire`, `Switch`, `Retire` are the application's calls, step by step |
| `BridgeMediaProofs` | theorems about `BridgeMedia` | section 5 |
| `BridgeSession` | the threads of `LocalRtspBridge`, one client after the other, and the application | one action per step of `_accept_loop`/`_client_loop`, `_reader_loop` and `_sender_loop`; `play`, `stop`, `upstreamPaused`, `client` are the shared attributes |
| `BridgeSessionProofs` | theorems about `BridgeSession` | section 5 |
| `PlaybackScaling` | `_best_common_window`, `_next_recording`, the stages of `main()` and the pool of workers | `section` and `step` follow `main()` and its stages; `work` is a batch in `_run_concurrently`; `reach` is what the stage can close, `open` what the recorder has open |
| `PlaybackScalingProofs` | theorems about `PlaybackScaling` | section 5 |
| `Playback` | `RecordingPlayback` beside the recorder that plays | an operation is Begin, an exchange (`Answer` or `Lose`), Finish or `Raise`; `Tick` is the clock of both |
| `PlaybackProofs` | theorems about `Playback` | section 5 |
| `Client` | `DahuaClient` (construction, queries, the streams it owns, `close()`) with the services, `_MediaSearch` and the RPC connection under all | `phase` follows the constructor and `close()`; `at` follows `__next__` and `close()` of a search, one action per call; `object`, `buffer`, `finished`, `closed` are its attributes; `objects` and `cursor` are the recorder's |
| `ClientProofs` | theorems about `Client` | section 5 |
| `MC...` | instances of the above for TLC | |

How they compose: `RtspStream` takes messages off the wire whole, which is what
`RtspFraming` shows the parser to deliver (proved by `FramingHandsOver`);
`RtspConnection` sees the stream as
absent, open or failed and an exchange as ending in a response or an exception,
which is what `CallTable` promises and `RtspStream` implements (checked by
`stream_requests`, proved by `StreamImplementsTable`); `Playback` sees an
exchange of `RtspConnection` as answered or lost; `Client` sees a call of
`RpcConnection` as one step. `BridgeMedia` sees the playbacks as `Playback` and
`RtspStream` leave them to their user (states, and packets in order);
`BridgeSession` takes the media path of `BridgeMedia` as a count of packets, and
`BridgeMedia` leaves open when the reader runs, which is what `BridgeSession`
decides. `PlaybackScaling` sees a playback as open from its start to its close.

Operators marked "mutation" are wrong variants of the definition that follows
them, one for each property (`mutants` in `PROJECT.json`): with the variant in
its place the property is violated.

## 3. Runs

Every run is exhaustive within its bounds. `CHECK_DEADLOCK FALSE` is set
everywhere: every one of these systems may come to rest (closed, all programs
done, bounds reached).

| Run | Shows | Bounds, and why they are enough |
|---|---|---|
| `stream_requests` | `CallersAreTracked`, `OneAnswerOrFirstError`, `UnexpectedIsExcused`, `ReaderEndIsHonest`, `FirstErrorIsKept`, `ImplementsCallTable` | three requests, interchangeable (symmetry; only safety is checked): one in the reader's hands, one pending, one arriving late. No media: the queue shares nothing with the table |
| `stream_live` | `QueueIsExact`, `DeliveryInOrder`, `FailureReachesCallers`, `CloseEnds`, `RequestsEnd` | a queue of two, five packets, one of them on an unmapped channel; one request: errors meet the receiver, and that several callers do not get in each other's way is `stream_requests` |
| `framing_parse` | `ReturnsWhatWasSent`, `RejectionIsExplained`, `AllReturnedOrFailed` | every wire of one to three messages (frames with a payload of 0 to 2 units, responses with a body of 0 or 2, junk), chunks of up to three units, a size limit that some wires exceed |
| `framing_split` | finding: `OnlyMalformedIsRejected` is violated | clean wires of two messages, any cut |
| `rpc_session` | `NoSessionLeak`, `NoErrorWithoutSession`, `SessionIsMaintained`, `ClientsEnd` | one client with all programs of up to three operations of `call`, `login`, `get`, `logout`, `close`, and two clients with programs that cross calls, logins, logouts and the stop and close of `DahuaClient.close()`; joins may expire; three keepalive threads |
| `session_life` | `NonceCountIsFresh`, `PendingIsOwned`, `KeepaliveEndsWithSession`, `SessionIsReleased`, `CloseEnds` | two tracks, two starts (a failed one and its repetition), seven requests of both threads, three nonces (the first, and two new ones) |
| `playback_position` | `PositionFollowsRecorder`, `StateAgrees`, `PauseKeepsGround` | a recording of 5 units observed for 7, with and without a known duration; seeks inside and beyond the end |
| `client_lifetime` | `SearchObjectsAreReturned`, `ExhaustionIsReal`, `ClosedClientIsQuiet` | one search of three items in a full and a short page, one playback, one live stream, three logins (the first, one of a search used after `close()`, and one lost or after a second `close()`). Searches share only the session, and one search meets every session that another could have opened |
| `client_construction` | finding: `FailedConstructionLeavesNothing` is violated | as `client_lifetime` |
| `bridge_media` | `IdentityIsStable`, `InitializationPrecedesMedia`, `ReportsMatchMedia`, `PlaybacksAreOwned` | three files (the playing one, a prepared one, one that replaces it), two tracks of which one has two parameter sets, three packets, two commands; a queue of four, so that one packet with its sets and report overflows it; numbers of 3 bits and timestamps modulo 24, started so that both wrap, upstream and downstream; a seek forward by just more than two seconds of a clock of one tick, and one back |
| `bridge_session` | `ThreadsEndForAReason`, `FramesOnlyToPlayers`, `ServedAreAnswered`, `AllThreadsEnd` | two clients one after the other, three requests, one seek or handoff, a queue of one: a third client, or a second command, meets no state the second or the first does not |
| `scaling_stages` | `WindowIsCommon`, `SessionsAreAccountedFor`, `OtherSessionsAreExplained` | two cameras, each with every list of up to three recordings over times 0 to 3 (gaps, overlaps, recordings of no length); two active sessions and two prepared ones, so that one of several may fail; every mode |

Every type invariant is part of the proofs (`TypeCorrect`) or implied by the
runs, which evaluate every action; no run spends a property on it.

### Fairness

* `RtspStream!ThreadFairness`: threads are scheduled (weak fairness of the
  reader, of the steps of close after the first and of a caller that can go on).
  A timeout may expire but need not; `RequestsEnd` alone assumes that it does,
  as its own hypothesis (`TimeoutsExpire`), because `event.wait(timeout)` and
  `join(timeout)` end by the clock.
* `RtspFraming!FramingFairSpec`: the reader thread runs, and the recorder goes on
  sending what it has begun to send.
* `RpcConnection!FairSpec`: client and keepalive threads run and HTTP exchanges
  end (`requests` is called with a timeout). Strong fairness is assumed of
  taking the lock only: a keepalive thread leaves it for a whole interval
  between two requests, so it cannot withhold it from a client for ever. No
  join is assumed to expire.
* `RtspConnection!FairSpec`: the same, with the request lock.
* `BridgeSession!FairSpec`: the three threads run, a handoff ends by its timeout
  and a join by its own. Clients and the application may stop anywhere; the
  locks need weak fairness only, because nobody takes them again without giving
  the others a turn within a bounded number of steps of the instance.

### Findings

1. **A response that arrives in parts fails the stream** (`framing_split`;
   `_rtsp_connection.py:233-238`). `_response()` returns `None` for an
   incomplete response so that it can be completed, but the test that follows
   accepts only a prefix of `RTSP/`, not a longer incomplete response.
   `RejectionIsExplained` says that this is the only well-formed data rejected.
2. **A constructor that fails leaves its session and its keepalive thread**
   (`client_construction`; `client.py:109`). The first verification call logs
   in; if a later one raises, nobody has an object to close, and the thread is
   not a daemon.

### Exceptions in the properties

A property that holds but for a history the code does not guard against names
that history, and TLC violates it without the exception. They are the places to
look at first when the code is changed:

* `RejectionIsExplained`: a pause of 0.25 s inside a frame fails the stream
  (`_rtsp_connection.py:153-157`): the poll timeout is "try again" between
  messages and a transport failure inside `_interleaved`. `docs` promise that
  the transport maintains the session (`public-api.md:89-90`).
* `SessionIsMaintained`, `NoErrorWithoutSession`: two clients of which one logs
  out while the other logs in (`crossed`), a join that expires, or a handle
  cleared under a thread being started (`mishaps`): `stop_keepalive` works on
  the handle and the event without the lock (`_rpc_connection.py:188-204`).
* `ClosedClientIsQuiet`: a search that is used, or only closed, after its
  client logs in again (`late`) and starts a keepalive thread that ends only if
  the client is closed once more.
* `SessionIsReleased`: the session a failed start, or a failed TEARDOWN, leaves
  at the recorder (`forsaken`).
* `IdentityIsStable`: a handoff that began while the reader still processed a
  batch of the outgoing playback (`overlapped`): both number packets with one
  mapper. `InitializationPrecedesMedia`: the tracks of packets the reader held
  when a seek marked the mappers (`held`): the old packet consumes the
  discontinuity; and a position the mappers were never told of (it is not
  `announced`): `playback.seek` may raise (465) after the recorder has moved,
  its reply lost, and `_begin_discontinuity` (466) is then not called.
  `ReportsMatchMedia`: a recorder's clock that comes again within
  two seconds of timestamps it gave out (`revisited`), after a seek back or by
  less than two seconds, or once around: `translate_rtcp_timestamp` compares
  timestamps only, and an old report, still in the buffer, passes for new.
* `PlaybacksAreOwned`: an earlier prepared playback whose `close()` raises
  (`raised`, line 493): the new one is lost.
* `ThreadsEndForAReason`: what ends a thread of the bridge short of `close()`: an
  upstream that failed (`failed`), a PAUSE between the reader's test and its
  receive (`raced`), a second PAUSE, a PLAY after a seek or a handoff set a
  paused upstream going (`moved`); and what a client asks for (`mistaken`). A
  request line of fewer than three words (815), or channels that are not
  numbers (856), raise a `ValueError`, which `_accept_loop` (605) does not
  catch; a channel above 255 raises one in the sender (787). Each ends its
  thread for good, and the bridge serves nobody after that.
* `UnexpectedIsExcused`: a response the recorder did not owe (`strayed`), be it
  a second one or one whose CSeq no request ever had
  (`tests/unit/test_rtsp_multiplexing.py:65-70`), and one to a request that was
  given up: each fails the stream for all of its callers.
* `SessionsAreAccountedFor`: a worker that raises after it started its playback
  (`dropped`). `OtherSessionsAreExplained`: active sessions of the first pressure
  stage that were lost stay open beside the second, because `pressure_stable`
  does not ask for `active_start_errors` (476). `WindowIsCommon`: recordings of no length, or that overlap.

## 4. Abstractions

* Payloads, headers, SDP, and the text of errors are left out; a request is its
  CSeq and its method, a response its status class (accepted, 401 with a new
  nonce, anything else), a packet its number.
* The recorder is nondeterministic: it answers, answers twice, answers what was
  never asked, acts without its answer arriving, ends sessions, changes nonces. Two things are assumed of it:
  a 401 carries a nonce it has not issued before (`digest.update` restarts the
  count, so a recorder that repeated one would see a count twice), and the
  second login stage keeps the session the first has named.
* A partial `sendall` counts as not sent (`SendFails`).
* `RpcConnection` runs any programs in which a `stop_keepalive` is followed by
  the end of the connection (`StopAssumption`): outside the connection only
  `DahuaClient.close()` calls it, and goes on to close the connection
  (`client.py:204-217`).
* `RtspConnection` has one application thread, as the documentation of
  `RecordingPlayback` requires, beside the keepalive thread. An exception
  leaving a request is one kind of step, whatever its type.
* In `RtspFraming` a unit is a run of bytes that no test of the parser tells
  apart; the cut inside the four-byte frame header is one cut, between marker
  and length.
* In `Client` a call of the RPC connection, and the start or the close of a
  stream, is one step. Search objects are assumed to belong to the session they
  were created in. Exceptions that are not an `Exception` are not modelled.
* `Playback` counts in whole units, coarser than the six digits of
  `{seconds:g}`. The recorder stays at its end after a seek beyond it.
* In `BridgeMedia` the time that passes between packets is any increment the
  mapper can compute; a report carries a timestamp between its packets'; a
  packet is its track, source, position and timestamp, and the ghost `pos`
  counts the seeks of a source, `announced` what of them the mappers were told.
  A seek that raises leaves the recorder where it was or where it should go; it
  may then send although the playback still counts as paused. A malformed packet, and an exception out of
  `_process_packet`, are left out, and so is `start()`.
* In `BridgeSession` an exchange with the recorder under `control_lock` is one
  step, a frame or a reply is sent whole or fails (on a connection that is open,
  too: its timeout is 0.2 s), and the channels of the tracks are the set of
  their kinds: a number that fits the header of a frame (`byte`), or one that
  does not (`wide`). Any request may be one that cannot be read. The attribute
  `error` is not read by the bridge.
* In `PlaybackScaling` the three stages that play are followed batch by batch;
  durations, rates and latencies are left out, and the number of items a
  report carries is only whether there are any.
* Bounds (`MaxPackets`, `MaxCommands`, `MaxRecordings`, `MaxTime`, `MaxArrivals`, `MaxThreads`, `MaxLogins`, `MaxStarts`, `MaxRequests`,
  `MaxNonces`, `MaxClock`, `MaxTarget`, `MaxChunk`) are constants and appear in
  guards only.

## 5. Proofs

Each module assumes only what the named assumptions on its constants say.
An invariant that a run checks, or an action property, is a theorem below: none
is left to TLC alone.

`RtspStreamProofs` holds, of `RtspStream`, for every set of requests, every
capacity and any number of packets, from the three assumptions on its constants.

* `TypeCorrect`: `TypeOK`, split into the part about calls and the part about
  the queue, because each step touches one of them.
* `CallersAreSafe`, `AnswersAreOwn`, `NoUnexpectedWithoutExcuse` and
  `ReaderEndsHonestly`: the safety properties of `stream_requests`. None is
  inductive alone. The invariant `IInv` adds what a step relies on: `ReaderInv`
  (what the reader holds in each place, and that `stop` precedes the closing of
  the socket), `CallInv` (an entry of `pending` is unanswered and its caller is
  still interested; `outcome` follows `call`) and `WireInv` (an answer that is
  due, or in the reader's hands, for a request nobody waits for, or for none
  that was made, has an excuse, or the stream has already failed). One lemma for each part, one step for each
  action; `FailKeepsCallInv` and `FailKeepsWireInv` treat `fail()` once for its
  three callers.
* `ErrorIsKept` and `FailedStreamIsSilent`: action properties from `IInv`.
* `StreamImplementsTable`: the refinement of `CallTable` under the mapping
  `StatusOf`; every step changes the status of one request, or is `fail()`
  (`FailRefines`), or is a stutter.
* `QueueIsFaithful`: queue contents and counters; `QueueMediaStep` and
  `TakeStep` are the arithmetic of the two ends of the queue.
* `PacketsStayInOrder`: `DeliveryInOrder` is about what is delivered, in the
  receiver's hands and queued, one after the other. `Received` adds that each of
  these numbers has arrived already; `TakeKeepsOrder` and `QueueMediaKeepsOrder`
  are the two ends of the queue again, `OrderOfAll` puts the three together.

Of `RtspFraming` it holds for every wire, chunks of any size and every limit,
from the assumption that a wire is a sequence of messages (`WiresAssumption`).

* `FramingReturnsWhatWasSent` and `FramingRejectionIsExplained`: the parser is
  right if it is right about the front of the buffer. `FlattenSeq` is recursive,
  so what the proof needs of it is drawn from the recursion once, by the least
  prefix for which it fails (`LeastNumber`): what concatenating one message
  more does (`FrontStep`), and that it moves nothing before it (`FrontLater`).
  Hence the buffer begins with the units of the next message (`BufferFront`),
  and what each test of the parser says of it is what that message is
  (`FrontIsFrame`, `FrontIsResponse`, `FrontIsJunk`). The invariant
  `FramingInv` adds to the two properties that the counters follow one another
  and that a frame has begun while the reader waits for its rest
  (`FrameBegun`): a pause fails the stream there, and there only.
* `FramingHandsOver`: each message is handed over once, whole, in its turn and
  before any failure. It is what `RtspStream` takes for granted of its reader.
* `ReaderPollsForMore`: the safety half of `AllReturnedOrFailed`. A reader that
  waits between messages has nothing in its buffer, or a part of the tag of a
  response; no whole message is left there until more bytes come.

`PlaybackProofs` holds for every duration, every set of seeks and behaviours of
any length, from the three assumptions of `Playback`.

* `TypeCorrect`: `TypeOK`.
* `PositionIsFaithful`, `StateIsFaithful` and `GroundIsKept`: the three
  properties of `playback_position`. They speak of the time between operations,
  so `IInv` says what an operation keeps true while it is under way. `OpInv`:
  the state it found, and that the clock is anchored exactly while the playback
  plays and is not being closed. `FollowInv`: before the reply, the position
  and the fallback an operation took are near the recorder's; after it, what
  the reply says is, or else the fallback. `AgreeInv`: the same of playing and
  paused. `Clamped`, `PositionTick`, `NearTick` and `Anchored` are the
  arithmetic of the clamp and of a tick; one lemma for each part, one step for
  each action.

`BridgeMediaProofs` holds for every number of playbacks, tracks, parameter sets
and packets, every capacity and every width of RTP numbers, from the
assumptions of `BridgeMedia`: the sources and `None` are distinct, and limits
and widths are positive. The invariants rest on one another; TLC checked
them on the instance of `bridge_media` first (`Apart` on its first million and a
half states).

* `NoPlaybackIsLost`: `PlaybacksAreOwned` is not inductive. `Ownership` adds in
  which places of the application a call holds a playback (`Holding`), and that
  a playback comes to a place only once (`Distinct`). The other threads do not
  touch what it speaks of (`OthersKeepCustody`).
* `TypeCorrect`: the data. `ModRange` bounds what `%` returns, `PutType` says
  what is in the queue after a bounded `put`, `ProcessQueue` and
  `ProcessEffect` what one step of a processing thread does to the queue and to
  its batch.
* `ParameterSetsFirst`: `InitializationPrecedesMedia` depends on packets that
  are not yet in the queue. `Primed` adds where a packet may come from
  (`Origin`: a playback that was started, has had its turn, and was not ahead of
  its position), that nothing of the new position is about while it is being
  announced (`Between`), that the reader's packets are noted (`Noted`), and that
  every track owes its parameter sets or has sent them, also for the packet in
  hand (`Owed`). All of it is about the position that was announced last:
  packets of one that was not may be anywhere.
* `SourceIsStable`: `IdentityIsStable` speaks of the queue; `Continuity` adds
  what leads up to it. `Serial`: unless a handoff overlapped with a batch, the
  reader and the application take turns, so that one packet at most is in hand.
  `FlowInv`: positions only advance from the recorder's buffer over the batches
  and the staged packets to the queue, and all of it is of one playback
  (`Source`, the outgoing one until the queue has been cleared). `Numbers`: the
  numbered places of a track's queue go on from `expect` by their rank, and the
  packet in hand and the mapper follow. `Clock`: from each of these to the next
  the timestamp goes on by at most two seconds. The proof needs arithmetic
  modulo any width (`ModAdd`, `ModDistance`), how the ranks and the counts of a
  concatenation come about (`CountConcat`), that every step appends to the
  queue and takes from its front (`Moved`), and that a processing thread takes
  a number, bears the one it has to the queue, or leaves the track alone
  (`Takes`, `Bears`, `Passes`).
* `ReportsAreOfTheirMedia`: `Apart` adds, of every packet in a buffer, a batch or
  held back, and of what each mapper mapped last (`Sent`), that the timestamps of
  two positions of a playback are more than two seconds apart, counted from
  where its clock started. The two seconds of `rewrite_rtcp` are a distance
  modulo 2^32, which is why a clock gone round must be excepted
  (`ApartIsNotContinuous`).

`RtspConnectionProofs` holds for every number of tracks and any number of
starts, requests and nonces.

* `NonceCountsAreFresh`, `PendingHasAnOwner`, `KeepaliveIsBound` and
  `SessionsAreReleased`: the safety properties of `session_life`. They rest on
  one fact, `MutualExclusion`: at most one thread is between reading the nonce
  count and the end of its wait. It follows from `LockInv` (such a thread holds
  the request lock, but for the first DESCRIBE) and from `AppInv` and
  `KeeperInv` (while that one is under way there is no keepalive thread). It is
  a theorem of its own, `RequestsAreExclusive`. Above
  it, `DigestInv`: no count was sent above the current one, none with a nonce
  still to come, and what a thread has signed but not sent is above all that
  was; `PendingInv`; and `SessionInv`, which says what the recorder holds while
  a start or a close is under way. One lemma for each part.
* `RegisteredCSeqIsSent`: `_request_once` registers the counter and `_send`
  reads it again. The two are the same number, and none is sent twice, so a
  response that comes after its request was given up is never taken for that of
  a later one.
* `NoCircularWait`: the safety half of `CloseEnds`. Whoever holds the request
  lock is making its request, and the thread that is joined has been told to
  stop.
* `TypeCorrect`.

`RpcConnectionProofs` holds for any clients, any programs that meet
`StopAssumption` and any number of keepalive threads.

* `NoSessionIsLost`, `ErrorsGoWithTheirSession` and `SessionsAreMaintained`: the
  safety properties of `rpc_session`. `ClientMoves` reduces the twenty-three kinds of
  step of a client to three: it goes to a place, the lock follows, the program
  is worked off; `LockInv` and `OrderInv` need no more than that. `LeakInv` says
  what a login under way has already cost and gained. `OrderlyInv` is the
  bookkeeping of the keepalive threads, as long as nothing has crossed a
  logout: one thread runs, and it is the connection's or the one a client is
  about to join (`OneKeeper`); without a session there is none and no error
  (`NoSessionNothing`); and only a client that gives the session up or opens it
  leaves it without one (`KeptAlive`). A program that
  stopped the keepalive and went on calling would break the last part: hence
  `StopAssumption`.
* `SessionsAreReplacedOrderly`: the session changes only in the hands of a client
  that holds the lock, and is given up before another takes its place, one that
  the recorder does not hold yet.
* `NoCircularWait`: the safety half of `ClientsEnd`. Whoever holds the lock is
  inside an exchange, and a keepalive thread that is joined has been told to
  stop, unless a login overlapped with the logout and took that back.
* `TypeCorrect`.

`ClientProofs` holds for any searches, playbacks and live streams, any page
size and any number of items at the recorder.

* `ObjectsAreReturned`: `SessionInv` (an object belongs to a session that is
  logged in) and `ObjectInv` (only a search that closes has an object in its
  hands beside its own). `CallsKeepSessions` says once what a call does to the
  sessions.
* `ExhaustedIsComplete`: `ItemInv`, what an iterator has returned and buffered is
  what the recorder has handed out, in order; the `Counts` lemmas are the
  sequences, `PageShape` what a page of a search is.
* `BrokenOffIsInOrder` and `EndIsFinal`: a search that is broken off, by its user,
  by an error or by the close of the client, has returned the beginning of what
  the recorder has, and returns nothing more.
* `ClosingReleases`: `StreamInv`, what `close()` has swept and has still to
  sweep, beside streams that others open and close.
* `TypeCorrect`.

`BridgeSessionProofs` holds for any connections and any number of requests,
seeks, handoffs and packets.

* `ThreadsDoNotJustDie` and `FramesFollowPlay`: `AcceptInv` and `PlayInv` say
  what each place of the accept thread knows of its client and of `play_event`;
  `UpInv` when `upstream_paused` is wrong about the upstream; `ReaderInv` how
  the reader comes to receive from a paused one; `FrameInv` for whom the frame
  in the sender's hand is; `ChannelInv` that a channel no frame can bear comes
  from a SETUP that asked for one.
* `PlayIsNeverLeftOver`: `play_event` is set only while a client is served that
  has been told it plays, and the upstream is then not paused, whoever paused it
  before.
* `TypeCorrect`.

`PlaybackScalingProofs` holds for any number of sessions in each stage and
whatever starts, measurements and closes raise.

* `SessionsAreAccounted`: `OpenInv` says what is open at every step: what the
  pool has opened so far, or what the stage holds. A worker may open a session
  only under a name that no other ever had, or a session counted as lost would
  be open again: `NamesInv`, a section gives out each role once.
* `MeasuredWithoutOthers`: `OtherSessionsAreExplained` looks back from a
  measurement to the stage that lost a session, past stages that reported,
  raised or were skipped since. `LostInv` says of every lost session that its
  section was one the mode asks for, and that its error is in the report, or
  about to be (its pool still runs), or that an exception has put an end to all
  stages. `StagesInv` says what the stages before one that runs have reported
  (`ConditionsStay`: reports of later stages do not take that back). Together: a
  pressure stage runs beside no session of a stage whose errors it asks for.
* `WindowIsTheBest`: for any number of cameras and any recordings over any time,
  `WindowIsCommon`: every selected camera has recorded the whole window (if it
  has no recording of no length), and, when the recordings of a camera do not
  overlap, no part of the day is better and what is prepared is the very next
  recording. The sweep over the starts and ends is a recursive function over
  time: `SweepExists` says that there is such a function, and `ActiveIs` that
  `Active` is it. `ActiveHasBegun` (what is active is a recording that has begun
  and has not ended, or is of no length) and `ActiveWhileItLasts` (a recording
  that does not overlap with others is active from its start to its end) are
  inductions over time, by its least counterexample. The best of the windows is
  a maximum over a finite set (`BestIs`); `WindowIsBest` puts them together, and
  `NextIsNext` says what the next recording after the window is. `SearchInv`, the
  invariant, says that what is searched are the recordings of the channels.

TLC found each of these invariants to hold on the instance of its run (that of
`Client` on its first two million states, that of `PlaybackScaling` with two
recordings). The theorems that state no property of a run (`NoCircularWait`,
`RegisteredCSeqIsSent`, `PlayIsNeverLeftOver`, `BrokenOffIsInOrder`,
`EndIsFinal`, `ReaderPollsForMore`) hold of those whole instances, too; no run
repeats them.

Only model-checked:

* Every liveness property (`FailureReachesCallers`, `CloseEnds` of the stream and
  of the session, `RequestsEnd`, `AllReturnedOrFailed`, `ClientsEnd`,
  `ServedAreAnswered`, `AllThreadsEnd`): fairness and `ENABLED` are out of the
  prover's reach. What they need beside fairness is proved where it is not
  plain: `CallersAreSafe` (no caller is stranded), `ReaderPollsForMore` and the
  two theorems `NoCircularWait`.
* The findings, which are counterexamples.

## 6. Not modelled

* The identity a client reads, the counters of `receive`, the HTTP downloads
  (`recording_bytes`, `snapshot_bytes`): no state and no other actor.
* The text of SDP, RTP, RTCP, Digest and Range headers, and the field by field
  translation of replies: pure functions on strings and bytes. What they reject,
  and what follows, is modelled.
* The conversions of recorder time, which depend on a time zone database.
* Of the bridge: building the SDP, and the scripted client and the report that
  exercise it. A frame that `sendall` sends in part, a malformed RTP packet
  (an exception that ends the reader), and packets a handoff drops beyond its
  limit before every track is ready are not distinguished.
* The other probes and the examples: scripts without state of their own, or
  with a pool whose threads share nothing.

## 7. Plan

Done, in this order: `CallTable`, `RtspStream` and its proofs, `RtspFraming`,
`RpcConnection`, `RtspConnection`, `Playback` and its proofs, `Client`,
`BridgeMedia` and its proofs, `BridgeSession`, `PlaybackScaling`, and the proofs
about `RtspConnection`, `RpcConnection`, `Client`, `BridgeSession`,
`PlaybackScaling` and `RtspFraming`.

Next:

1. A receive window with a clock, in `RtspStream`'s consumer, for the deadline
   that is only looked at when the queue is empty.
