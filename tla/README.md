# A verification project for stream-video-rust

TLA+ models of the call runtime of `stream-video-rust` (`src/src/rtc`), checked
with TLC on small instances, and theorems about them proved with TLAPS. Paths
below are relative to `src/src/` unless they say otherwise.

The crate is a client of a video service. Most of it is plain: REST wrappers,
data models, encodings. What is hard is `rtc/`: a call handle (`RtcCore`) that
any number of caller futures, spawned tasks and callbacks share, whose futures
can be dropped at every await, and that must survive lost connections.

## 1. Inventory

| Component | State it keeps | Operations | What makes it correct |
|---|---|---|---|
| Call lifecycle: `rtc/join/lifecycle.rs`, `mod.rs` | `Lifecycle {state, generation}`, the connection slot, the cached call state, the reconnect claim | `join`, `leave`, `end_call`, and the drop of their futures at any await | late work of an older generation changes nothing of a later one; a call that was left holds no connection and no running track |
| Join retry loop: `lifecycle.rs:150-283` | attempt, failures per edge, confirmed bad edges | one request, its failure, the retry | two budgets do not feed each other; a bad edge is named in the next request |
| Reconnect loop: `rtc/join/reconnect_runtime.rs`, `connection.rs`, `rtc/reconnect.rs` | strategy, attempt, old and new connection, failure limits | FAST, REJOIN, MIGRATE and their clean-up | no connection leaks; the loop ends |
| Rate limiter: `rtc/reconnect.rs:150-200` | a deque of times | `try_register` | the deque answers as the whole history would |
| Publication: `rtc/join/publish.rs`, `publication.rs`, `rtc/peer/publisher.rs` | publications, retired senders, pending stops, holds | publish, stop, mute, revoke, options, restore | state read before an await is still true when used; what the SFU was told is what is sent |
| Subscriptions: `rtc/subscriptions.rs`, `subscriptions_runtime.rs` | active subscriptions, manual unsubscribes, delivered tracks | recompute, drop of a track, restore | the SFU ends with what the policy calls for, whatever order answers come in |
| Participants: `rtc/join/participants.rs`, `connection.rs` | the participants | SFU events, join responses | the events tell the application who is in the call |
| ICE exchange: `rtc/peer/ice.rs`, `subscriber.rs`, `publisher.rs` | a queue of candidates until the remote description | offer, answer, flush, and the drop of each | a candidate reaches its peer connection, not too early and not too late, but in three named ways |
| Local tracks: `rtc/tracks/local.rs`, `layers.rs` | audio queue and pacer, RTP timeline, encode gate, layers | write, flush, hold, mute, layer settings | nothing is sent twice or after its flush; the stream stays decodable |
| Remote tracks: `rtc/tracks/remote.rs`, `rtc/video_frame.rs` | last sequence number, decoder, read gate | read, conceal, ask for a keyframe | a short loss is concealed, a stall is noticed |
| Statistics: `rtc/stats.rs`, `rtc/tracer.rs` | three bounded buffers | report, put back, last flush, and the drop of a report | records come in order, once; a gap is marked, but for one dropped report |
| Token sources: `rtc/client.rs`, `token.rs` | the token in use, its source | load, reload | no older token, no other user's token |
| HTTP client: `client.rs`, `error.rs` | none between requests | request with retries | what is sent again, how often, after how long |
| Coordinator socket: `rtc/coordinator/ws.rs`, `lifecycle.rs:796-984` | connection id, listen and ping tasks | open, store, abort | requests carry the id of a socket someone listens to |
| SFU socket: `rtc/sfu/ws.rs`, `signal.rs` | health flag, sender, reader, pinger | join, FAST swap | health is that of the socket in use |
| Codecs: `rtc/codecs/*` | picture ids, temporal patterns | encode, packetize | a receiver can read what the descriptors say |
| PCM: `rtc/pcm/*` | frames | append, convert, cut, compand | samples are kept |
| REST API, models, webhooks: `video/*`, `models/*`, `webhook.rs` | none | one request each | nothing interleaves |

How they interact:

- The lifecycle lock (`Lifecycle`) is the authority on "which join is this".
  Every other piece of state is written by code that captured a generation
  earlier, and is correct only if it checks that generation in the critical
  section of the write. Lock order: connection slot, then lifecycle; media
  before connection.
- A join opens a connection and puts it into the slot. Its tasks (event loop,
  ping loop, statistics, the callbacks of two peer connections) call
  `trigger_reconnect`; the first claims the reconnect of the generation and
  starts `run_reconnect`, which replaces the connection in the slot.
- `leave` takes a new generation, then tears down in a spawned task (so that a
  dropped `leave` still completes). The reconnect loop and `end_call` start
  leaves too.
- Media (publications, subscriptions) belong to the connection in the slot and
  are restored by the reconnect loop.


## 2. How the project is laid out

| Module | Stands for | Extended or instantiated by |
|---|---|---|
| `CallingStates` | the diagram of `CallingState` an application may rely on | `RtcLifecycle` implements it |
| `RtcLifecycle` | who may own the call | `MCRtcLifecycle`; proofs: `RtcLifecycleProofs` |
| `Reconnect` | the reconnects of one generation | `MCReconnect`; proofs: `ReconnectProofs` |
| `JoinLoop` | the attempts of one join | `MCRequests`; proofs: `RequestProofs` |
| `WindowLimit` | what a sliding-window limiter promises | `RateLimiter` implements it |
| `RateLimiter` | `SlidingWindowRateLimiter` | `MCRequests`; proofs: `RequestProofs` |
| `Subscriptions` | the subscriptions of one generation | `MCRequests`; proofs: `SubscriptionsProofs` |
| `UserTokens` | the loads of the user token | `MCRequests`; proofs: `RequestProofs` |
| `HttpClient` | one request of the HTTP client | `MCRequests`; proofs: `RequestProofs` |
| `Publication` | the local tracks of one kind | `MCConnection`; proofs: `PublicationProofs` |
| `StatsReporter` | tracers and reports of one connection | `MCConnection`; proofs: `ConnectionProofs` |
| `CoordinatorSocket` | the coordinator's sockets of a call | `MCConnection`; proofs: `ConnectionProofs` |
| `PeerNegotiation` | negotiation and candidates | `MCConnection`; proofs: `ConnectionProofs` |
| `SfuSocket` | the SFU's sockets of a connection | `MCConnection`; proofs: `ConnectionProofs` |
| `CallState` | participants and their events | `MCConnection`; proofs: `ConnectionProofs` |
| `AudioPacer` | local audio, from the writers to the encoder | `MCMediaLive`, `MCMediaSafe`; proofs: `MediaProofs` |
| `RemoteVideo` | remote video | `MCMediaLive`, `MCMediaSafe` |
| `RtpTimeline` | the numbers of the packets that are sent | `MCMediaSafe`; proofs: `RtpTimelineProofs` |
| `VideoEncoder`, `RemoteAudio` | encoding of video; concealment of lost audio | `MCMediaSafe`; proofs: `MediaProofs` |
| `VideoLayers` | layers of a local video track | `MCMediaSafe`; proofs: `MediaProofs` |
| `PictureStream` | the packets of encoded pictures | `MCMediaSafe`; proofs: `MediaProofs` |
| `PcmFrames` | PCM blocks | `MCMediaSafe` |

The suites `MCRequests`, `MCConnection`, `MCMediaLive` and `MCMediaSafe` check several
modules in one run each. Their variable `part` says which module runs; the
variables of the others stay as they began, so the state space is the sum of
those of the modules, not the product. The modules that a suite EXTENDS have
prefixed names (`LimiterInit`, `SocketNext`), so that the definition checked is the
one a theorem is about. A suite defines a property anew only to confine it to its
part and to add the type invariant of the module.

Where two modules look at the same code, each keeps what the other abstracts.
`RtcLifecycle` has many generations and an atomic reconnect; `Reconnect` has one
generation and every step of it. `JoinLoop` is the two places `attempt` and
`establish` of `RtcLifecycle`. `Publication` and `Subscriptions` take the swaps of a
connection from `Reconnect` as steps that may come at any time.

## 3. The modules and the code

### RtcLifecycle (refines CallingStates)

One step is one critical section: what the code does under one lock between two
lock operations or awaits. What it reads in one and uses in a later one is in
the record of the task.

| Variable | Code |
|---|---|
| `state`, `generation` | `Lifecycle` |
| `slot`, `slotLock` | the generation of the `Connection` in `RtcCore.connection`, and who is inside a critical section of its lock |
| `coordinator` | the generation of `coordinator_connection_id` |
| `claim` | `reconnect_generation` |
| `callOwner`, `ended` | the generation whose call state and participants are cached; the latch of the end of the call |
| `session` | whose join stored `unified_session_id` and `join_data` |
| `mediaLock`, `tracks` | the media lock; the generations whose tracks are active |
| `task` | each `join` and each reconnect: its place, generation and attempts |
| `leave` | each leave: its caller's future and its teardown task |
| `publish`, `end` | each `publish` and each `end_call` |

`task[t].at` is the program counter. A join goes through `begun` (begin_join),
`token`, three places of `connect_coordinator_events`, `attempt` (the request to
the coordinator), `establish` (the SFU handshake, apply_call_state), `install`
and `replace` (check and store under the connection lock), `commit`
(`set_state_if_current(Joined)`), or `stop` and `reset` on an error. `JoinDropped`
drops its future at any of the awaits and runs `Drop for JoinAttempt`;
The second disjunct of
`LeaveReturns` drops the future of a leave, whose guard (`LeftCall`) then runs
`finish_leave` while the teardown goes on. A reconnect in this module is its
effect on the shared state; what it does inside one generation is the subject of
`Reconnect`. `CallingStates` is the diagram of `CallingState` that a user of
`CallingStateChanged` events may rely on.

### Reconnect

One generation, from the moment its first connection is in the slot. Each
connection has a signal socket, the worse state of its two peer connections,
a health flag and `reconnect_enabled`; three askers per connection (event loop,
ping loop, peer connection callbacks) and the coordinator's go through
`trigger_reconnect` in three steps (health, state, claim). `run` is the task of
`run_reconnect`: `top` is the head of its loop with the timeout and the limits,
then the steps of FAST, REJOIN or MIGRATE, `failed`, `sleep`, `refresh` and the
choice of the next strategy (`escalate_strategy`). Time is two events: the fast
deadline passes, the disconnection timeout passes.

### JoinLoop, RateLimiter (refines WindowLimit), HttpClient

The loop of `join_loop` with every sequence of error kinds and edges. The deque of
`SlidingWindowRateLimiter`, which forgets what it evicted, against the promise stated
on the whole history of accepted times. One call of the HTTP client: envelope,
bounded body, `Retry-After`, back-off; a wait is seconds, a body is chunks.

### UserTokens

`load[l]` is a join or a reconnect task on its way through `reload_user_token`: it waits
for the lock, asks the source, may ask once more for an expired token, checks the
token and stores it if its generation is still the current one. Tokens are numbered in
the order in which they were asked for. `outdated` marks the behaviours in which an
overtaken join has stored its user over that of its successor (`lifecycle.rs:33-41`
does not look at the generation).

### Subscriptions, CallState

`Subscriptions`: several tasks compute the list of subscriptions and send it without a
lock: `rpcs` are the requests under way, each with what it read. Tracks arrive, are
dropped by the user and arrive again; FAST, REJOIN and MIGRATE restore. `raced`, `late`
and `doubt` mark behaviours in which two requests crossed, an event of a replaced socket
was applied after the answer of its successor, or a request failed. An answer may
list the participants in any order (`Answered`), since the server chooses it; a restore
may fail (`RestoreFails`), and a MIGRATE then still closes its old connection.
`CallState`: the handler of an event applies it, awaits the recompute and only then
broadcasts; a join response of a reconnect replaces the list beside it. `roster` is
what an application that folds the events would show.

### Publication

A call holds the media lock over its requests, `set_track_muted` does not, a rejoin can
replace the connection under the lock, and a caller can drop its future. `link` are
the connections with their senders, `lists` the publications, retired senders and
pending stops, `flags` the holds and mutes of the tracks, `told` what the SFU knows.
`Filtered(list, places)` is what `retain`, `remove` and `filter` leave of a list.
`astray` marks the behaviours that leave a sender nothing names: a publish dropped or
stopped before its sender was announced, options that change while a sender is kept, a
restore without the permission, and a publish of a track that was stopped before
(`publish.rs:32-61` looks at the publications only, where a retired track no longer is).

### CoordinatorSocket, SfuSocket, PeerNegotiation, StatsReporter

A socket goes through the places of its handshake; its reader and its pinger are
tasks of their own, which end late. `SfuSocket` has FAST's second socket under one
connection.

`PeerNegotiation`: `loop` is the event loop of each connection, which reads frames,
negotiates the subscriber, and offers itself when the SFU changes the options or asks for
an ICE restart; `negotiating` is the holder of the media lock, a loop or a publish, in
`negotiate_publish` and `flush_publisher_ice`. An ICE restart with no active track
goes straight to the flush (`publisher.rs:82-84`, `publish.rs:474-475`). `PublishIsDropped`,
`FastReopens` and `TearsDown` drop the holder or the loop at any of its places, and a
rejoin (`Replaces`) comes between any two steps. `fate` accounts for each candidate: taken
by a queue, then added, refused, or lost in the hands of what was dropped.

`StatsReporter`: the periodic report, its failure, and the last flush of a teardown. A
leave ends the generation first (`Cancel`); the loop is a task of the generation, so it
is dropped wherever it is (`LoopIsCancelled`), with what it drained and with the lock. The
flush may come before or after that, and the connection may be dropped instead
(`Close`). `gone` are the records that left a tracer, `lost` which of them were in a dropped report.

### The media

`AudioPacer`: writers, flush, pacer and forwarders on the audio queue, with the delay
of the resampler's filter. `RtpTimeline`: sequence number and timestamp over every
write path, pauses and takeovers. A write gives its packets their numbers (`Numbers`) and
sends them one by one (`Send`); in between the track is muted, stopped or taken over, or
the write is dropped, and the packets that wait are not sent (`Discard`, `Abandon`,
`LosesTheRest`). The module assumes that the caller of a video track awaits or drops one
write before the next, that a track is not written to before it takes over a sender, and
that `replace_track` succeeds; that an audio write looks at the mute and takes its
numbers without an await in between is the code's (`local.rs:239-266`). `VideoEncoder`: the encode gate, keyframe requests,
pauses, encodings cancelled or failed after libvpx had the frame. `VideoLayers`: what
is planned, announced, set and encoded. `PictureStream`: the payload descriptors and
what a receiver makes of them. `RemoteAudio` and `RemoteVideo`: the two readers of a
remote track. `PcmFrames`: PCM blocks appended, converted and cut, each operation held
against its definition on whole frames.

## 4. What the runs check

| Run | Instance | Shows |
|---|---|---|
| `lifecycle` | 2 joins, 2 leaves, 2 reconnects, 1 publish, 1 end of the call; `Meetings` says which of them meet | `SlotRespectsLeave`, `SlotMatchesState`: no late install survives a leave or a dropped join. `CallStateOfLatestJoin`: an overtaken join never fills the cache. `ReturnedLeaveStoppedTracks`. `OneReconnectPerGeneration`. `StateDiagram`: the lifecycle implements `CallingStates` |
| `lifecycle_live` | 2 joins, 1 leave, 1 publish | `JoiningEnds`, `LeaveCompletes`: also when the caller dropped the leave |
| `reconnect_safety` | 3 connections, 2 faults | `NoLeakedConnection`, `SlotStaysOpen` on every error path |
| `reconnect_live` | 2 connections, 1 fault, with a timeout and without | `ReconnectEnds`: the timeout ends the loop. `RejoinLimitEnds`: without one the rejoin limit does |
| `requests` | see below | `RequestBudget`, `EdgesAreReported`; `KeepsWindow`; `RetriesAreBounded`; `NewestTokenStays`; `Agrees` (what the client believes of the SFU is true, unless marked), `SubscriptionsSettle`, `HeldIsWanted`, `ParticipantsFollow` |
| `connection` | see below | `SendersAreReused`, `RevokedIsStopped`, `HoldEnds`, `PublishedIsHeard`; `TraceIsWhole`: records in order, once, a gap marked, but for one dropped report; `IdIsOfOpenSocket`; `CandidatesArrive`: a candidate gets to its peer connection, but for three named ways; `HealthIsTrue`; `RosterFollows` |
| `media_live` | 3 writes, a flush, a control; 2 losses, 1 fault | `WrittenAudio`: audio that no flush dropped plays to its end. `StallEnds`: a stream that decodes to nothing asks for keyframes until it is seen |
| `media_safe` | see below | `PictureRecovers`, `LossIsConcealed`, `LineStaysWhole`, `StreamContinues`, `StreamIsReadable`, `LayersFit`, `SamplesAreKept` |

Bounds. A race about generations needs an older and a newer one on each side: two
joins and two leaves give every order of them; two triggers contest, release and take
a claim again. `Meetings` splits the lifecycle's run into the three groups of tasks
that share state, since all of them together are out of reach. A third connection is
needed because a migration that retains the old one can be followed by a rejoin. The
limits of the reconnect are 2, so that they are reached.
`requests`: two edges with a budget of 4; a limiter of 2 in a window of 3 for more than
two windows; two sessions, two connections and three changes among participants, user
calls, reconnects and failures (the sessions are interchangeable, `Symmetry`); three
loads of two users; three tries, back-offs below
and above the hint of the server, a body limit that one chunk reaches.
`connection`: two callers with three calls on three tracks (one of them simulcast), one
swap, one fault, one event; two tracers with a buffer of 2 and four records each; four
coordinator sockets in two joins; two connections with three candidates and two
offers (two negotiations can be dropped, or one dropped and one early); three SFU sockets with three frames; two remote participants with three
reports and two responses.
`media_safe`: a sequence space of 4 (10 for concealment), timestamps modulo 32, picture
ids modulo 8 and TL0 modulo 4: every counter wraps. `MaxLost` is 3 packets in a row that are
not sent: the rest of one frame and the whole of another. The wrap of the 64-bit generation
is not modelled.

Fairness. `RtcLifecycle`: Tokio polls every task, each network operation has a timeout,
and a Tokio mutex serves its waiters in turn, hence strong fairness of what waits for a
lock that others take and release; no caller has to call, drop or leave.
`Reconnect`: the running attempt goes on and, where a timeout was set when it started,
it passes; nothing makes an attempt succeed. `RejoinLimitEnds` assumes that from some
point on no registration leaves the window before the limit is reached: if attempts
fail more slowly than that, the loop has no other bound, by design. `MediaLive`: the
pacer, the decode thread and a reader that is polled run (weak fairness), a waiter for
a shared lock is served (strong fairness), time passes; no writer has to write and no
request has to succeed.

### Where the code differs from what it says

Each of these runs has one property, taken from a comment or the changelog, and
TLC finds a behaviour of the code that breaks it.

| Run | Says | Does |
|---|---|---|
| `reconnect_lost_signal` | `connection.rs:209`: "Socket closed. Reconnect unless we're intentionally leaving." | a trigger is dropped while the claim is held or the state is not Joined, so a new connection whose socket closes before the loop returns to Joined stays dead |
| `reconnect_escalation` | `reconnect.rs:273-274`: "Once we fall back to `REJOIN` we stay there." | a failed REJOIN can be followed by FAST |
| `reconnect_detached` | `connection.rs:271-272`: the WebRTC commands of the old SFU during a migration are not for the new connection | an early return of `migrate` (604-612) leaves the old connection detached; back in Joined it ignores its own SFU's commands |
| `lifecycle_dropped_leave` | `CHANGELOG.md:148-150`: "`leave` stops every published local track" | a dropped leave that a join overtakes skips the stop |

### Behaviours that the properties step around

The properties above hold because they name these cases, in a history variable or
in a premise. Each is what the code does, found while a stronger property was
checked.

- An overtaken join stores its user, its token source and `join_data`
  (`lifecycle.rs:33-41`) with no look at the generation: `outdated` in `UserTokens`.
  The connection id of the coordinator is stored after its check (823-835):
  `overwritten` in `CoordinatorSocket`.
- Two requests for subscriptions that cross leave the SFU with the older one
  (`subscriptions_runtime.rs:77-78`): `raced`, and `doubt` for what the client believes. `Agrees`
  and `SubscriptionsSettle` say nothing of these behaviours; nor would they see a manual
  unsubscribe that is never cleared, which changes what is wanted. A MIGRATE keeps the session id, so an answer
  of the old SFU that comes after the clear marks tracks active that the new SFU was
  never asked for, and the restore skips them: `late`, which `ParticipantsFollow` excludes too. A track that arrives on an old
  connection detached by a MIGRATE that then fails is lost (327-329).
- An event whose handler fails, or is aborted, in the recompute is never broadcast, and
  a later join response compares with a list the application never saw
  (`connection.rs:310-337`, `participants.rs:166-198`): `misreported` in `CallState`. So
  `RosterFollows` says that this is the only way for the two lists to part. After two
  REJOINs an older session of the client itself, if the SFU still lists it, is
  reported as a remote participant (`participants.rs:164`).
- `peer/ice.rs:14-22` says that candidates are buffered until the remote description is set
  and then released, "so no candidate is lost to the race". The code loses them in three
  ways. An ICE restart with no active track flushes the publisher's queue with no
  description (`publish.rs:474-475`, `publisher.rs:82-84`), and so can a publish whose flush
  meets the connection of a rejoin (`publish.rs:388`): a candidate that comes before the
  answer of the next publish is refused and ends the event loop, which asks for a REJOIN
  (`connection.rs:245-257`): `early`. A publish dropped at `publish.rs:151`, or an event loop
  aborted by a FAST between the description and its flush (`reconnect_runtime.rs:843`), leaves the
  queue closed until another negotiation: `undone`. A flush or an add that is dropped takes
  its candidates along: `lost` in `fate`.
- `cap_buffer` of the tracer counts `dropped` per call, so a put-back of records that
  overflows is undercounted: that gap is marked, but not sized. `tracer.rs:8-10` says that
  what was drained is put back "if the send failed, so end-of-call events are not lost"; a
  leave ends the generation first (`lifecycle.rs:653`) and `while_generation` (`mod.rs:738-748`)
  drops the loop inside `send_stats`: nothing is put back, and the last flush sends what
  came after, with no mark of the gap. `LostInOnePlace` says that there is one such place.
- Packets that were numbered and not sent leave a gap in the sequence numbers, which a
  receiver takes for a loss (`local.rs:295-297`): `lost` in `RtpTimeline` counts them, and
  `StreamContinues` allows that many.
- A publish whose future is dropped can leave a sender that nobody names; a REJOIN whose
  restore fails, followed by a FAST, has publications without a sender; a mute that
  fails is rolled back over one made meanwhile: `astray` and `doubt` in `Publication`, and
  `PublishedIsHeard` says nothing of a crossed rollback.
- An encoding that fails loses its picture while libvpx's temporal pattern has moved
  on; one layer that fails discards the packets of the others, with the sequence
  numbers they took.
- Opening the websocket to the SFU (`rtc/sfu/ws.rs:55`) has no deadline of its own.
- PCM: `frames_in` truncates, so a block of a part of a frame shifts the channels of
  what is appended after it; the model appends whole frames.

## 5. What is proved

From the named assumptions of the modules, or the bounds stated with the theorem (the
configured limits are natural numbers), for every value of the constants:

| Theorem | States |
|---|---|
| `RtcLifecycleProofs!TypeCorrect` | `Spec => []TypeOK` |
| `RtcLifecycleProofs!LeaveEmptiesSlot` | `Spec => []SlotRespectsLeave` |
| `RtcLifecycleProofs!CallStateIsOfLatestJoin` | `Spec => []CallStateOfLatestJoin` |
| `RtcLifecycleProofs!ReconnectIsExclusive` | `Spec => []ClaimIsHeld /\ []OneReconnectPerGeneration` |
| `RtcLifecycleProofs!LeaveStopsItsTracks` | `Spec => []LaterTracksSurvive /\ []ReturnedLeaveStoppedTracks` |
| `RtcLifecycleProofs!SlotHoldsWhatStateSays` | `Spec => []SlotMatchesState` |
| `RtcLifecycleProofs!StatesFollowDiagram` | `Spec => StateDiagram`, the refinement of `CallingStates` |
| `ReconnectProofs!NothingIsLeaked` | `Spec => []NoLeakedConnection` |
| `ReconnectProofs!SlotHoldsAnOpenConnection` | `Spec => []SlotStaysOpen` |
| `RequestProofs!RequestsAreBounded` | `Spec => []RequestBudget` |
| `RequestProofs!BadEdgesStayReported` | `Suite => []EdgesAreReported` |
| `RequestProofs!LimiterKeepsWindow` | `LimiterSpec => KeepsWindow`, the refinement of `WindowLimit` |
| `RequestProofs!RetriesStayBounded` | `HttpSpec => []RetriesAreBounded` |
| `RequestProofs!TokensAreNeverOlder` | `TokensSpec => NewestTokenStays`, an action property |
| `ConnectionProofs!IdIsOfLiveSocket` | `SocketSpec => []IdIsOfOpenSocket` |
| `ConnectionProofs!CandidatesAreKept` | `PeerSpec => []CandidatesArrive` |
| `ConnectionProofs!TraceIsWholeButForADrop` | `Suite => []TraceIsWhole` |
| `ConnectionProofs!HealthTellsTheTruth` | `Suite => []HealthIsTrue` |
| `ConnectionProofs!EventsTellWhoIsThere` | `Suite => []RosterFollows` |
| `RtpTimelineProofs!PacketsContinue` | `Spec => StreamContinues`, an action property |
| `MediaProofs!LossStaysConcealed` | `Suite => []LossIsConcealed` |
| `MediaProofs!PictureComesBack` | `Suite => []PictureRecovers` |
| `MediaProofs!LayersAlwaysFit` | `Suite => []LayersFit` |
| `MediaProofs!StreamStaysReadable` | `Suite => []StreamIsReadable` |
| `MediaProofs!AudioStaysWhole` | `Suite => LineStaysWhole`, an invariant and an action property |
| `SubscriptionsProofs!BeliefAgrees` | `Suite => []Agrees` |
| `SubscriptionsProofs!SubscriptionsAreThoseWanted` | `Suite => []SubscriptionsSettle` |
| `SubscriptionsProofs!HeldStaysWanted` | `Suite => []HeldIsWanted` |
| `SubscriptionsProofs!ParticipantsAreThoseOfTheCall` | `Suite => []ParticipantsFollow` |
| `PublicationProofs!SendersAreNeverMoreThanOptions` | `Suite => []SendersAreReused` |
| `PublicationProofs!NothingIsPublishedOnceRevoked` | `Suite => []RevokedIsStopped` |
| `PublicationProofs!HoldEndsOnceConnected` | `Suite => []HoldEnds` |
| `PublicationProofs!WhatIsPublishedIsHeard` | `Suite => []PublishedIsHeard` |

A theorem about a suite has an inductive invariant of one of its modules, which holds
while `part` names that module; the steps of the others leave it alone.

Bounds that a theorem assumes, and what they are in the code. Each holds in the
instance that TLC checks.

- `RequestBounds`, `LimiterBounds`, `HttpBounds`, `TokensBounds`, `RosterBounds`, `SfuBounds`:
  limits and times are natural numbers; a remote session is not one of the client's own.
- `SubsBounds`: sessions are finitely many, video is a type of track, the policies of the
  instance are policies, and the mark for "nothing" is neither a track, a kind of reconnect
  nor a list of events.
- `PubBounds`: the event task and the reconnect are no tasks of the user, and None is none of
  them; the number of publish options is a natural number. `LinkBounds`: so are the numbers of
  sockets, joins, candidates and offers, and there is a connection.
- `StatsBounds`: the buffer of the tracer holds a record, and a mark is not a record.
- `EncoderBounds`: the steps of the caller's pts are not negative.
- `LayerBounds`: every side of an option or a decoded frame is a pixel or more, bitrates and
  scales are not negative, and a track has one to three layers, as `layers.rs` clamps it.
- `PictureBounds`: a packet has room for the longest descriptor and structure (1200 bytes for
  28 in the code), 4 divides the number of picture ids (2^15), so that a place in a group
  survives their wrap, and two pictures are less than half of the timestamps apart.
- `PaceBounds`: the sizes of frame, queue and filter and the bounds on writes and flushes are natural
  numbers; nobody and the pacer are no tasks of the application.
- `AudioBounds`: the packets of a track that may meet lie within half of the sequence
  space (32768 packets, eleven minutes of 20 ms). Beyond that the 16 bits cannot tell an
  old packet from a new one, and `remote.rs` does not try to.
- `TimelineBounds`: all timestamps sent lie within half of their space (2^31 units, twelve
  hours of audio at 48 kHz): what "does not go back" means of a number that wraps. That
  half covers the elapsed time and what frames, takeovers and their jitter add to it.

The argument for the lifecycle is in layers, each inductive with those before it.

1. `TypeInv` is `TypeOK` and `TriesLeft`: the code counts a retry without looking
   at the bound again, so a join that has an attempt to make must be below it.
2. `GenInv`: every generation that is stored anywhere is one a join took and is at
   most the current one; the generation of a leave is never that of a join. This
   is why "later" and "not equal" coincide for a leave and a connection.
3. `SlotInv`: who is between the check and the store of an install holds the
   connection lock, and its generation is later than that of every leave that
   has emptied the slot. The check alone would not be enough: a leave takes its
   generation under the other lock, and it is the connection lock that keeps
   its teardown out until the store is made.
4. `CallStateOfLatestJoin` is inductive over 1 and 2.
5. `ClaimInv`: the claim is that of a running reconnect, and a running reconnect of
   the current generation has it. Exclusion follows, since two of one
   generation would be current and hold one claim, or both be stale.
6. `MediaInv`: the media lock names the leave or publish that is inside, and a
   teardown that is done has left no publish of its call that could still add a
   track.
7. `PlaceInv` ties the place of every task of the current generation to the state and
   the slot: a join that has not stored its connection is Joining with the slot
   of another generation, one at its commit is Joining with its own, and a reconnect
   that runs has found the call live with its connection. It is needed because the
   state and the slot are under two locks: `SlotMatchesState` alone does not say
   that a join about to set Joined has stored its connection, nor that a
   reconnect which keeps the call in a live state has not outlived it. That a failed
   join awaits its coordinator tasks before it shows Idle is used here.

Frame lemmas say once, for each kind of step, what it leaves alone; a proof of
an invariant then looks only at the steps that can disturb it.

8. `StatesFollowDiagram` is a step of `CallingStates` for each step of the lifecycle
   that sets the state: `PlaceInv` says which state such a step finds, and `ClaimInv` that
   the reconnect that sets it is the only one.

The argument for a reconnect is `ConnectionsInv`. Two connections are in nobody's slot: the
new one from its opening to `install` or `retain`, and the old one from its removal to
`teardown`, `migrated` or `cleanup`. `HandsInv` says that the run holds one in exactly these
places, so that a connection that is open is in the slot or in the hands of the
step that closes it. `SlotInv` strengthens the second property to the new connection:
it has its tasks before it enters the slot, since nothing between opens it again. And
nothing of the generation is left open in Left (`LeftInv`).

The other arguments:

- `RequestsAreBounded` rests on `Accounted`: requests made are the attempts, plus one for
  a refresh, minus the one that is still to be made.
- `BadEdgesStayReported` rests on `EdgesInv`: while the join goes on, the list has every edge
  that failed twice, once, and the edge that the next request migrates from. The
  property speaks of requests only, and a failure comes between two of them.
- `LimiterKeepsWindow` rests on `DequeInv`: the deque is the end of all the accepted
  times, these are in order, and those before it have left the window. A call evicts
  a prefix, `EvictsTheOld` says which, and the accepted times inside the window are then
  an interval of positions, so its cardinality is the length of the deque.
- `RetriesStayBounded` rests on `Costs`: requests sent are the attempts that began, who
  waits has another attempt, and each wait is at most `max_backoff` whichever of the
  hint and the power of two it came from.
- `TokensAreNeverOlder` rests on `LockInv` and `UserInv`: who has asked for a token holds
  the lock, so its token is the last one asked for and newer than the one in use; the
  stored user is that of the running generation once a join of it stored its own.
- `IdIsOfLiveSocket` rests on `SocketInv`: a generation has one socket that is being opened or
  has a task (`OneLive`), the tasks of an open socket are known to whoever replaces it
  (`TasksAreKept`), and a generation without its join has no socket (`NoneLeft`). The
  property is not inductive without them: a second live socket of the generation would
  make the clear of the first one wrong.
- `CandidatesAreKept` rests on `CandidatesInv`: every candidate a queue took is in one place
  (`Accounted`), in the queue, in the hands of the loop or of the holder of the lock, or at its
  fate; a queue that is open is empty, and has its description or was opened early
  (`OpenedIsEmpty`), and so has whoever adds (`LoopHolds`, `TaskHolds`); a description that
  is set has been followed by its flush, has it ahead, or the flush was dropped
  (`SetIsFlushed`). A connection that is not in the slot yet has none (`NextIsFresh`).
- `TraceIsWholeButForADrop` rests on `StatsInv`: what has left a tracer, what a report has
  drained and what is buffered are one trace in this order (`StreamInv`), and only the
  reporter that holds the lock has records in its hands (`ReportsInv`). The records of a
  dropped report count as having left the tracer, so the drop keeps the order, and only a
  loop that ends or the close can drop: `LostInv` says that what was dropped before the
  last flush is the end of what has left, so a second drop extends the same place.
- `HealthTellsTheTruth` rests on `SfuInv`. `TasksInv`: reader and pinger are those of the socket
  that is written to, and a handshake runs only while the connection is not healthy.
  `FramesInv`: what waits behind the response on a new socket is later than all
  that the old one can still read, so that the order survives the swap.
- `EventsTellWhoIsThere` rests on `RosterInv`: apart from the sessions in `misreported`, the
  application's list is the client's, up to one event that a handler has applied
  and not yet broadcast, and no session waits in two handlers.
- `PacketsContinue` rests on `TimelineInv`, which says the numbers without their wrap: there are
  w, f, x and low such that the timestamp, the offset and the last timestamp that a packet
  got are the remainders of w, f and x, low is the first timestamp, low <= x <= w, the last
  one sent lies between low and x, and w is ahead of the clock by at most two frames and a caller's clock that is 2 ahead, for each takeover. The
  last part is what keeps the stream inside half of the space. `Queue` says of the packets
  that wait that they have that last timestamp and the last sequence numbers, and that
  between them and the last one sent are those that were lost.
- `LossStaysConcealed` rests on `AudioInv`: `lastSeq` is the number of a packet j, and what was
  heard is in order and ends with j unless the decoder failed. The distance of
  two packets in the sequence space is then their real one (`DistanceIs`).
- `PictureComesBack` rests on `EncoderInv`: each frame has a keyframe less than an interval before
  it, the encoder remembers the last one, and only the holder of the gate encodes.
- `LayersAlwaysFit` rests on `LayersInv`: the layers that are on are those asked for, a resumed
  layer has its keyframe requested, and the announced sizes are the halves of the one
  planned. What a frame then does is arithmetic, for all sizes: `BoxesCover` (the boxes
  of two rows of any lengths leave out no pixel), `ScaledSide`, `NearestIsInside`,
  `HalvesAreClose` (rounding down for the announcement and to the nearest for the frame differ
  by a pixel pair at most) and `SharesAddUp`. The sum of the shares is a fold, whose
  defining function `FoldOfThree` writes out.
- `StreamStaysReadable` rests on `PicturesInv`: the encoder's place in its pattern, the place
  the packetizer counts and the one that a receiver derives from the id agree (`PlaceInv`;
  `PlacesWrap` carries them over the wrap of the ids), and what the packetizer counts is what
  the last picture had (`CountsInv`). That the packets of a picture are whole is about one
  picture, for all sizes and layers: `FoldSums` and `FlattenIs` describe the two folds one
  element at a time, `PiecesAre` cuts a layer, `LayerJoins` appends a layer to those below.
  Their inductions take the first number at which the claim would fail (`Earliest`).
- `AudioStaysWhole` rests on `PcmLineInv`: only who has locked the resampler has audio on its way
  from the filter to the queue (`HoldersInv`); each part of the line is of one count of
  flushes, the count beside it (`FlushInv`), so that one comparison can drop it; the queue, the
  audio on its way and the filter follow one another and lie between the last unit taken and
  the last one written (`OrderInv`). The lists are described by what is in them: `PartOf` says
  where a list is a part of another, `NewestIs`, `OldestIs`, `JoinKeeps` and `CutIs` what the
  cuts and joins of the line keep. That no audio gets lost is a property of steps (`KeptStep`),
  whatever the sizes of frame, queue and filter.
- The four of `Subscriptions` rest on `SubsInv`, nearly each part of which is needed for two of
  them. `FreshInv`, `PhaseInv` and `DropperInv` say where requests, a reconnect and the task
  of a dropped track are; above all, that nothing has reached a connection before it is
  in the slot, so that the reset of the list there is the truth. `AgreeInv` is `Agrees` with
  a request on its way: before the SFU takes it the belief is what the SFU has, after
  that the request is. `WantedInv`: unless a computation is still to begin (`Pending`), the
  list last asked for is the list wanted now; each change of policy, participants or dropped
  tracks leaves such a computation behind. `HeldInv` adds to `HeldIsWanted` the tracks
  that are asked for and have not arrived, since these become the held ones. `FollowInv`
  is `ParticipantsFollow` with events on the way: the events that wait on the socket, one
  after the other, make the call of what the participants show (`LeadsTo`), and each
  handler and each change in the call preserves that. TLC checked `SubsInv` on all states
  of the instance first.

- The four of `Publication` rest on `PubInv`. It speaks of sets (the tracks by the status of
  their publication, those with a sender, the retired ones) instead of lists, and
  a lemma for each operation on the lists says what it does to them (`PubsWithout`,
  `SendersTaken`, `RetiredTaken` and others). Its parts:
  `HolderInv`: a call is inside the lock exactly while `media` names it, so there is one;
  `KnowsInv`: what that call has read is still so, its track is not published and its
  option not used, unless a REJOIN has replaced the connection, and then the restore
  is still to come and waits for the lock;
  `RevokeInv`: without the permission, every active track is one the revoker will
  stop, or the revoker or a restore has yet to look, and no call is about to publish
  another: the check of the permission and the lock are one step for this reason;
  `PacingInv`: a track is let go by the callback of the connection, or by the
  publish if that came first, in whichever order;
  `SendersInv`: a sender is known to a publication, a retired track or one call. A
  retired track with its sender is the latest of its option and no publication has this
  option. So each sender has an option of its own, and there are no more senders
  than options;
  `AnnouncedInv`: an active track has its sender, announced as its status says, unless
  a restore is due;
  `SfuKnowsInv`: what the SFU was told fits the tracks, or the one answer on its way
  makes it so.
- What a filter leaves of a list is in no operator of which the library has theorems.
  `Ranks` and `FilteredPlaces` describe it for every list: the kept places in order, each
  once. They rest on `Smallest`, that a set of numbers has a least one, which is
  proved from the well-foundedness of the inclusion of finite sets. With it an
  induction over the numbers can be made for a property that is written out.

Only model-checked, and why:

- `SamplesAreKept`: roundings of a resampler, tables of G.711, and folds over lists of any length.
- Liveness under fairness (`JoiningEnds`, `LeaveCompletes`, `ReconnectEnds`, `RejoinLimitEnds`,
  `WrittenAudio`, `StallEnds`), and ENABLED: beyond the prover.

No module has a RECURSIVE operator.

## 6. What is not modelled

- The REST wrappers of `video/*`, data models, webhooks and `lib.rs`: one request per
  method, or plain data, with no state of their own to interleave.
- The broadcast channels of coordinator events to the application, and their receivers.
- libvpx, libopus and the webrtc crate are external: `PictureStream`, `RemoteVideo` and
  `PeerNegotiation` model what the code relies on. The bindings (`vpx_sys.rs`) are data.
- Encodings and formats: SDP, protobuf, signatures of tokens, the WAV header, pixel
  formats, RTP header extensions and audio levels, with the wire format of a request.
- In `Publication`, two kinds of track side by side and codec preferences; in
  `Subscriptions` and `CallState`, pins, counts, audio levels and the pages of large calls.
- The list of failed SFUs of a REJOIN (`SfuRejoinFailures`).
- Back-off delays of joins and reconnects: they order nothing that the properties tell
  apart. The two hazards of `PROJECT.json` without a property have a note that says why.
