# A TLA+ model of KizunaLink

KizunaLink is a Lavalink-compatible audio node: bots open a WebSocket session,
create one player per guild over REST or the socket, and the node resolves
tracks, decodes and mixes them and sends them to Discord's voice servers. This
directory holds TLA+ modules of its concurrent core, the TLC configurations
that check them on small instances, and proofs that TLAPS checks for every
instance. Paths below are relative to the repository; `kizuna-voice` stands for
`kizunalink/kizuna-voice`. `PROJECT.json` maps every definition to the lines it
models, and lists the runs, the fault each property was seen to catch, the
hazards and the findings.

## The system

| Component | State | Operations | Interacts by |
|---|---|---|---|
| Client sessions (`kizuna-server/src/server/session.rs`, `api/ws`) | the maps `sessions` and `resumable_sessions`, each session's channel, `paused`, `resumable`, `resume_generation` | upgrade, resolve or resume, close, expiry of the resume window, PATCH of a session | every event of a player goes through its session; its end destroys the players |
| Session events (`session.rs`, `api/ws/handler.rs`) | the queue of a paused session with its byte count, the output channel | `send_json`, forwarding, replay at a resume | called by monitors, gateways and requests |
| Players and track monitors (`kizuna-voice/discord/player`) | the players map; per player an `RwLock` over track, track info, handle, monitor task, stop signal, pause | start, stop, pause, destroy; the monitor loop of a track | requests hold the lock; the monitor shares atomics with them and takes the lock at its end |
| Voice connection of a player (`server/voice.rs`, `ws/opcodes.rs`, `routes/player/update.rs`) | credentials, `gateway_task`, `voice_ready`, registered tasks | voice update by socket or REST, leave, destroy | spawns and aborts gateway tasks |
| Voice gateway (`kizuna-voice/discord/gateway`) | connection attempt, heartbeat, sequence ack, RTP state | identify, resume, select protocol, speak loop, backoff | reads the mixer, drives DAVE, writes `voice_ready` |
| DAVE (`kizuna-voice/discord/crypto`, `vendor/davey`) | MLS session, pending transitions, buffered handshakes | epochs, transitions, commits, welcomes, proposals, encryption | called by the gateway and the speak loop |
| Mixer, flow, decoder, buffers (`kizuna-voice/engine`) | tracks of a mix, playback state, frame channels | mix, stop, seek, tape effects | shares the handle's atomics with player and monitor |
| Front end and helpers (REST, rate limiter, route planner, lyrics, SponsorBlock, metrics) | buckets, failing addresses, fetched lyrics and segments | per request | call the above |
| Sources (`kizuna-voice/media`) | per-service clients | search, resolve | network only |

What is hard in it is the concurrency: a multi-threaded tokio runtime runs
socket tasks, requests, timers, monitors, gateways and speak tasks against each
other, over DashMaps, `RwLock`s held across awaits, atomics without locks, and
`abort()`, which only takes effect at an await. What makes each part correct:

- *sessions*: one connection per session, no session lost or leaked, a resume
  window that ends exactly when its own timer says so;
- *events*: queued events are neither lost nor repeated, the queue is bounded;
- *players*: the shown track has a monitor, an ended track leaves, its end is
  announced, nothing survives the session;
- *voice*: one gateway per player, the newest credentials win, every gateway
  can be ended, `voice_ready` tells the truth;
- *gateway*: a silent peer is dropped and an answering one is not, retries are
  bounded, a connection that identifies starts from nothing, RTP counters go
  on;
- *DAVE*: no plaintext after encryption was negotiated unless the gateway asks
  for it, no packet under a key that was replaced;
- *mixer and decoder*: frames cut with every sample once and in order and
  nothing mixed across a seek, a tape effect that keeps the order, a stopped
  track gone with its thread, a resumed one audible.

## Modules

| Module | Models | Abstraction |
|---|---|---|
| `SessionLife` | what a client may rely on: a session is opened, held by one connection, detached, resumed or ended, and an end is final | no maps, no tasks |
| `Session` | `websocket_handler`, `resolve_session`, `handle_session_close`, the clean-up task, `update_session` | a session is named by the connection that created it; each access to a map or atomic is a step; two share one under a common lock, or where no other task could tell them apart (`CloseFinal`, `ResolveNew`) |
| `SessionEvents` | composes `Session` with `send_json`, the queue, the output channel and the replay | an event is a number with a size |
| `Player` | `start_playback`, `stop_current_track`, `send_load_failed`, `monitor_loop` and its endings, `PlayerContext`, and the requests PATCH, play, stop, destroy, DELETE and session shutdown | a track is a number; a position is left out, so that a monitor may find the end marker or a stall at any tick; a PATCH that does several things is several requests; tape states count as the states they lead to |
| `MonitorClock` | what `monitor_loop` does by the clock: stall detection and the schedule of player updates | one step is one tick; the inputs are what the loop reads |
| `VoiceConnect` | `handle_voice_update`, `handle_voice`, `connect_voice`, `register_task`, `destroy`, and of a gateway its start, its speak task and its end | credentials are model values; the session has a user id |
| `VoiceGateway` | `VoiceGateway::run` and `connect`, the handlers of a connection, `FailurePolicy`, `Backoff`, the heartbeat task, the speak loop, `PersistentSessionState` | one connection at a time, with at most one speak loop left from before; the peer sends anything or nothing, asked for or not; a key is new or was used; DAVE is a gate that is clear, closed or sealed; an RTP state is one number, as sequence, timestamp and nonce advance together |
| `MediaGate` | what DAVE promises: which packets may be sent, in which mode and under which key, and what the gateway must have said for that to change | no groups, no buffers |
| `Dave` | `DaveHandler` and the `DaveSession` of `vendor/davey` below it, the gateway's handlers that drive them, and the speak loop's check and encryption | an MLS message is accepted or not; an epoch's key is a number |
| `Playback` | one track: `TrackHandle`, the decoder thread, the frame channel, `FlowController`, `TapeEffect`, `Mixer::mix`, the monitor's look at the handle | a sample is the number it has in the source when it leaves the decoder, with the number of seeks before it; a ramp is a number of frames and its end speed, and a frame of it reads some of the samples the tape has |
| `MCSession`, `MCSessionEvents`, `MCPlayer`, `MCVoiceConnect`, `MCDave`, `MCVoiceGateway`, `MCPlayback` | the instances and constants TLC checks | |
| `SessionProofs`, `SessionEventsProofs`, `PlayerProofs`, `MonitorClockProofs`, `VoiceConnectProofs`, `VoiceGatewayProofs`, `DaveProofs`, `PlaybackProofs` | theorems and proofs | |

How state corresponds to code is said at each variable. Four conventions:

- `pc` of a connection or request is where its task is. A step ends where the
  task awaits, or where it writes a shared atomic or map and goes on to
  another; what happens under one lock with no await in between is one step.
- `abort()` in `Player` ends a monitor at once only if it is parked at an
  await; one that runs goes on to its next await that is not ready. In
  `VoiceConnect` a request awaits the task it aborted, and the speak task,
  which nobody awaits, keeps its one pending write (`"doomed"`). A task that
  loses in `handle_voice_update` is aborted and counts as ended at once.
- In `VoiceGateway` a handler is entered in one step (`Receive`, which sets
  `conn.busy`) and takes effect in another, so that the heartbeat and the speak
  loop run while it awaits; handlers that await nothing are one step. The end
  of a connection is two steps, the cancelled token (`Ends`) and the abort of
  its tasks (`Drain`): in between the speak loop may see the token and save its
  RTP state. A loop that `start_voice` waited for in vain is let go and ends by
  itself (`StrayEnds`). What keeps it that long is the mixing or encoding of a
  frame, which comes after its write to `voice_ready`. In `Dave` a handler
  holds the `DaveHandler`'s lock from start to end and is one step, except that
  the replay of buffered messages takes one step for each, with `replaying`
  standing for the lock; the speak loop takes the lock twice. In `Playback` the
  mixer's tick is cut at every access to the state cell and at every look at
  the channel, since neither is under a lock of its own; `cut` is the frame the
  flow controller cuts, `heard` what the tape effect makes of it.
- Definitions whose comment begins with "Fault" are plausible mistakes in the
  definition that follows. No specification uses them; each shows that a
  property can fail.

## Runs

Each configuration names its instance. The runs that pass:

| Run | Instance | Shows |
|---|---|---|
| `session` | 3 connections, fair | the safety of sessions, `SessionInv` as proved, the refinement of `SessionLife`; windows close and closed connections settle |
| `session_events` | 2 connections, one session, 2 producers, 4 events of sizes 1, 3, 2, 5, a queue of 2 events or 4 bytes, a channel of 1 | caps and byte count (`EventsInv`), no queued event lost to a race, none delivered twice |
| `player` | 2 workers, 3 requests of any kind, 2 contexts of the guild | track, handle and monitor stay together and every monitor can be reached (`PlayerInv`); a track that is gone had its end announced, and none but the Cleanup of a DELETE is announced twice; shutdown reaches all |
| `player_live` | 2 workers, 2 requests, fair | ended tracks leave, abandoned monitors end, requests end |
| `voice` | the socket and 2 REST tasks, 3 requests, 2 good credentials and a bad one, 2 contexts, fair | no stray or unregistered gateway and no report of an older one (`VoiceInv`), newest credentials, shutdown ends all, voice requests end |
| `monitor_clock` | ticks of 500 ms, threshold 1.5 s, 6.5 s | a stuck report is deserved, and a stall is caught |
| `dave` | transitions 0 and 1, 2 external senders, 1 other user, buffers of 1, 2 MLS epochs, protocol versions 0 to 2 | the handler and its session agree (`DaveInv`); the refinement of `MediaGate` |
| `gateway` | an attempt and a retry, the RTP numbers collapsed, a save every second frame, fair | a new identify is fresh, `voice_ready` follows the connection, the last close is told, heartbeats judge the peer rightly, the wait for DAVE and the retries end |
| `playback` | a source of 6 samples, frames of 2, chunks of 1 or 2, a channel of 1, ramps of 2 frames that read 1 sample each, 2 changes of pause, 1 seek that lands at most 1 off, with and without the tape effect, fair | order, seeks and position of the sound, before and behind the tape effect; a stopped track leaves; a ramp settles |

Why the bounds are enough. Three connections let a session be opened, resumed
and resumed again, so that the timers of two earlier windows sleep while it is
served; more connections add sessions, which share nothing but the maps, and
the theorems hold for any number. In `session_events` both caps evict, one
event evicts two, and one event alone is over the byte cap; a second session
would have a queue and a channel of its own. In `player` and `voice` a second
context is what a DELETE and a later request make of a guild, so that a request
can be left with a context that is no longer in the map; three requests are a
start, a second request that interleaves with it, and one that ends what they
leave; in `voice`, two updates that cross and a leave or a destroy. In
`monitor_clock` the time is more than four thresholds, room for two buffering
phases and a revival. In `dave` two epochs are a group and its replacement,
with a transition that is executed at once and one that waits; a buffer of one
is full after one message. In `gateway` the counter of attempts reaches its
limit at the first retry, and READY and descriptions set it back as often as
they come, so that a behaviour has any number of connections, resumed or
identified; no property tells RTP numbers apart there, and they have a run of
their own (`gateway_rtp`, which allows a second retry). In `playback` the
channel is full after one chunk, a frame takes one or two chunks, both halves
of a pause fall inside a ramp, the seek finds sound in every place it can be,
and a ramp leaves samples behind that the next one plays, also across the seek.
Deadlock is not checked: every model ends when its clients do.

The runs that end in a violation are disagreements between the code and what
the repository says of it. The details are in `PROJECT.json` under `findings`.

| Run | Says | Does |
|---|---|---|
| `monitor_updates` | an interval in seconds, rounded up | 20 ms ticks in the computation, 500 ms ticks in the loop |
| `gateway_rtp` | the audit: a reconnect does not reset the sequence | the RTP state is saved every 100 frames, and the loop is aborted before its last save; a resume goes on from the save before, or from a random state |
| `playback_resume` | smooth pause ramps | a resume during a stop ramp leaves the track `Playing` at standstill |

## What the code does not promise

Where a property has an exception, or is not stated at all, it is because the
code allows the following. None is a matter of the bounds.

- Sessions. `send_json` acts on a `paused` it read before a resume, so an event
  can reach the channel ahead of queued ones (`DeliveredOnce` and
  `QueuedEventAccounted` are what holds). The `Session-Resumed` header is
  decided before the session is resolved, so it can differ from `Ready`.
- Players. `send_load_failed` returns early for a track that does not decode
  (`error.rs:16`) and leaves it in the player without handle or monitor;
  `OnlyUndecodedGhosts` is what holds. Such a track that does resolve plays
  without TrackStart, monitor and TrackEnd (`start.rs:133`);
  `ShownTrackIsMonitored` is about tracks with track info. `EndAnnounced`
  excepts the tracks in `silent`: those stopped by `stop_track`, which sends no
  event, and those replaced just after they had stopped. A DELETE may report
  Cleanup for a track whose end is reported otherwise, or by another DELETE
  (`destroy.rs:45`); `TakenOutOnce` leaves Cleanup out. A track that was
  stopped as stuck and revived by pause or play is not watched for a stall
  again before it has moved, since neither resets `stuck_fired`
  (`monitor.rs:102`); `StuckIsCaught` excepts it. Nor need a revived track
  leave, as long as its decoder runs (`EndedTrackLeaves`).
- Voice. A leave that comes while an older update connects is undone, because
  `opcodes.rs:197` only asks whether a task is installed; `NewestCredentials`
  excepts it. A gateway task that has ended counts as running
  (`opcodes.rs:135`). An update that gives way to another has already put its
  DAVE state into the engine (`voice.rs:67`), and the player shows that one's
  version and privacy code from then on; `ReportsFollow` is what holds. An
  update by socket does not clear `voice_ready` when it aborts the old gateway.
  The player's abort of a gateway leaves a speak task that
  nobody awaits, and `voice_ready` may be written once more
  (`handler.rs:822`, `voice.rs:242`); `ReadyOnlyLive` excepts aborted gateways.
- Gateway. RESUMED does not reset the attempts (`handler.rs:508`), so that a
  connection which is resumed often enough is given up although each resume
  succeeded; `backoff.rs:31` speaks of consecutive attempts. A speak loop that
  does not end within two seconds of its abort is let go (`handler.rs:706`) and
  may store its RTP state for the next connection, one that identifies
  included, which `IdentifyIsFresh` excepts. `outer_token` is never cancelled
  by anyone.
- DAVE. A commit or welcome that is only buffered is answered as if it had been
  processed (`dave.rs:327`), and so may be answered twice or for nothing.
- Playback. The mixer stores `Paused` at the end of a ramp over a stop that
  came during its tick (`mixer.rs:350`); where `stop_track` is not followed by
  the mixer's own removal, the track then stays in the mixer with its decoder
  blocked, which is why `StoppedTrackLeaves` is about tracks without the tape
  effect. A track counts as stopped when its decoder ends (`handle.rs:108`),
  and what is still in the channel is not heard. After a seek the position told
  is ahead of the sound by what was on its way, `SeekSlack`, and off by what
  the coarse seek is off (`processor.rs:291`), in either direction, for good. A
  tape ramp reads less than it is fed. What is left is passed over at full
  speed (`tape.rs:82`) and played in the next ramp, even after a seek; so with
  the tape effect samples are skipped and come late, and `TapeLags` is what
  holds of the sound, `CutInOrder` of the frames before the effect. A ramp of 0
  ms (`RampLen` 0) sets the speed and never completes (`tape.rs:48`), so that
  the track stays `Stopping` or `Starting`: `RampSettles` is about longer ones.

## Fairness

Safety needs none. `Session!Fairness`: a task that resolves or closes does not
wait for a peer, so tokio polls it again; a sleep ends. Clients owe nothing.
`Player!Fairness` and `VoiceConnect!FairSpec`: a request or a monitor that can
go on does; tokio's `RwLock` is granted in order, and a resolution has a
timeout of 30 s (`start.rs:71`). Weak fairness is enough, because a bounded
number of requests cannot keep a lock busy for ever. Gateways owe nothing,
since they depend on the network.

`VoiceGateway!Fairness`: the timers of the heartbeat and of the speak loop run,
a handler that was entered ends, a cancelled token is seen, and `run` goes on
after a connection; every await among them has a timeout or is local. The wait
for DAVE is a timer of its own, strongly fair because a tick may be between
two looks at it. The peer owes nothing, not even a HELLO.

`Playback!FairSpec`: the speak loop and the monitor tick; tokio's mutex is
granted in order, which makes `Reap` strongly fair against the mixer's ticks;
a source gives a packet, fails or ends instead of going round recoverable
errors for ever: each round uses up a packet, and a source has only so many (an
endless broken stream is left out; the code sets no limit to it). There is no
fairness on requests. The tick runs while there is a voice connection; without
one nothing is mixed and both liveness properties wait for it.

## Proofs

`SessionProofs` proves, from `ConnsAssumption` (`NoSession` is not a
connection) alone, that every behaviour of `Session` satisfies `SessionInv` and
so its conjuncts `TypeOK`, `HeldSessionIsUp`, `SoleHolder`, `OwnChannel`,
`NoSessionLost`, `WindowHasTimer` and `ListedIsServed`; the action properties
`ShutdownIsFinal` and `WindowRunsItsTime`; and the refinement
`ImplementsLife`. None of the properties is inductive alone. What is missing is
in three further conjuncts: `SessionOfConn` (a connection has a session exactly
when it resolved one, and the session's name is that of a connection that has
it), `MapsAgree` (a resumable session is neither held nor shut down) and
`DetachingIsPaused` (a session is paused while it is detached, and the
generation its closer holds is the present one until the session is listed).
The timer argument is then short: a timer that matches the generation can only
be that of the present window, since every close and every resume counts the
generation on, and `remove_if` looks, compares and removes under one lock. The
step proof has a lemma for each action. The refinement proof maps `Resolve` to
`Open` and `Resume`, `CloseList` to `Detach`, `CloseFinal` and an expiry to
`End`, and every other step to a stutter; it needs `SoleHolder` for the
`CHOOSE` of the mapping.

`MonitorClockProofs` proves `ClockInv`, `StuckIsDeserved` and `StuckIsCaught`
for every interval, threshold and bound, from `ClockAssumption` (positive
intervals and threshold). `StuckIsCaught` needs the part of `ClockInv` about
buffering: a phase that is not over started before the threshold was reached,
so the stall is shorter than the threshold, a tick and the age of the phase. It
also needs that after a report the track is stopped or was revived and has not
moved since, the case that `StuckIsCaught` excepts.

`SessionEventsProofs` proves `EventsInv`, `QueuedEventAccounted` and
`DeliveredOnce` for any connections, producers, sizes and caps, from
`EventsAssumption` (sizes are positive, the channel has room for one), and that
`EventsSpec` implies `Session!Spec`, so that all that is proved of sessions
holds with events too. The inductive invariant is the conjunction of the three
with `SessionInv`. `DeliveredOnce` needs to know where an event is: being sent,
in the queue, in one channel or received, and in no two of them
(`SendingIsFresh`, `QueueIsFresh`, `ChannelIsFresh`); that a channel holds only
events of the session that reads it needs `SenderServes`, which rests on
`SessionInv`. That `queueBytes` is the sum of the sizes, and that eviction
meets the byte cap, are facts about a recursive sum; they are proved from its
partial sums, whose existence and uniqueness follow by the least
counterexample (`LeastNumber`, from the well-foundedness of the naturals).

`PlayerProofs` proves `PlayerInv` and, from it, `ShownTrackIsMonitored`,
`OnlyUndecodedGhosts`, `TakenOutOnce`, `EndAnnounced` and `ShutdownReachesAll`,
from `PlayerAssumption` (requests are of the modelled kinds, there are finitely
many workers). `PlayerInv` and `TakenOutOnce` together are inductive. Why each
part is there:

- a request acts on the track of its context only if no other context has it:
  `OneTrackPerPlayer`, and `FreshIsUntouched` for the number of a new track;
- a new track has a number at all because each request installs one at most:
  `RequestPerTrack` counts those that still may;
- a monitor that no context holds was signalled or aborted when its track was
  replaced: `MonitorIsReachable`; a shown track has one: `ShownIsWatched`;
- while a track is resolved, under the lock, nothing else has seen it:
  `ResolvingIsNew`; and who holds which lock at which step: `RequestsInShape`;
- a track that was reported as replaced or stopped is in no context and its
  monitor does not report it: `ReportedLeaves`; one that left was reported:
  `LeftIsReported`; a monitor clears only an existing context:
  `TargetIsPlayer`;
- after the shutdown nothing starts: `DownIsQuiet`.

The step proof says once what a monitor's step, a step under a context's lock
and a step outside of locks leave alone (`MonitorMoves`, `OthersKept`,
`OutsideInv`), and has a lemma for each action on top of these.

`VoiceConnectProofs` proves `VoiceInv`, `NewestCredentials` and
`ShutdownEndsGateways` for any requests, from `VoiceAssumption` (finitely many
REST tasks, the socket is not one of them). `handle_voice_update` connects
without the lock; what makes that safe is that only the socket's task is ever
there (`RequestsInShape`), that a held lock means no gateway is installed
(`LockIsHeld`), that a new task has a number of its own (`NamesAreFresh`), and
that a destroyed context never comes back to the map (`UpdateIsLatest`).
`NewestCredentials` follows by a step proof of its own under `TasksInv`, the
part of `VoiceInv` that is inductive alone, and so does the rest of it,
`ReportsFollow`: contexts take the DAVE state of gateways in the order of their
names, so what a player shows is never of an older gateway than runs.

`VoiceGatewayProofs` proves `GatewayInv`, `IdentifyIsFresh`, `ReadyOnlyLive`
and the action property `AnswerKeepsAlive` from `GatewayAssumption` (no more
silent retries than attempts, positive modulus and interval of saves).
`DeadPeerNoticed`, three heartbeats at most, is not inductive: `missed_acks` is
reset by an answer that is read while another heartbeat is being sent, and
`MissedCounts` says how far the counter and the heartbeats may be apart at each
point of that overlap. `ReadyOnlyLive` needs `TasksAreLive`. `LastCloseIsTold`
says of a close that was kept quiet that the attempts are not used up while the
connection ends, so that `run` retries.

`DaveProofs` proves `DaveInv` and the refinement `ImplementsGate` from
`DaveAssumption` (transition 0 exists). The handler is one record, each of its
operations a function of it with a lemma that it keeps `HandlerInv`. The
refinement needs that a staged commit has its pending transition
(`StagedIsPending`), else a key could change without the gateway's word; that a
session with a sender is usable (`SenderSetIsUsable`), that buffers are empty
once there is a sender or a replay empties them (`BuffersDrained`), and
`PreparedBeforeSession` for a new epoch's version.

`PlaybackProofs` proves `PlaybackInv` and the action property `CutInOrder` from
`PlaybackAssumption` (positive sizes, a ramp of any length; packets and seek
targets within the source; a frame of a ramp reads no more than a frame; a
coarse seek is off by any bound). Neither `OneStretch` nor `PositionAhead` is
inductive. `SoundIsInLine` names the places between the last frame,
`pending_pcm`, each chunk of the channel and the decoder's hand, and says that
the sound between them has no gap and that every mark leads to the target of a
later seek; the decoder adds a place, a pull takes one away, a frame moves
along the first stretch. For the position it says where the newest seek is:
reached; in the commands; in the decoder's hands; behind a mark in the channel;
or lost, because some seek failed and no sound carries the newest number any
more. While it is under way, `position - target + pending_pcm + chunks with
sound before it * longest packet` is at most `SeekSlack`, and playing only
moves sound from the later terms to the first. `BuffersInShape` bounds each
term. Where a seek landed is only known to be near some target, which is what
`Off` adds to the position. `TapeLags` is proved on top: the line says that a
new frame comes after the frame cut before it, and so after all that the tape
has, and a ramp takes from the front what it reads. The proofs restate the
parts of the invariant over explicit arguments, one lemma for what each
operation does to the line and one for what it does to the seek, then one per
action.

A note on the prover: the SMT encoding of tlapm 1.4.5 states that `DOMAIN s = 1
.. n` and `Len(s) = n` are the same for every value `s`, not only for
sequences, which contradicts the existence of a function on `0 .. n`. The
proofs of `Playback` and `SessionEvents` are about such functions (the places
of `SoundIsInLine`, the partial sums), so all proofs were also run with that
axiom weakened to what is true, `DOMAIN s = 1 .. n` implies `Len(s) = n`; they
hold there too and do not rest on it.

Only model-checked: liveness and everything under fairness, which the prover
cannot do (`ENABLED` is out of its reach). Every invariant, action property and
refinement of the passing runs is stated by a theorem.

## Not modelled

- *Vendored codecs.* All of the C in the repository, 369 files and some 97,000
  lines under `kizunalink/native`, is libopus as its authors publish it: signal
  processing and tables of numbers, with no state shared between threads. The
  program itself is Rust, and every definition is mapped to Rust source; a
  share of the repository that is counted in lines of C is therefore zero.
- *Cryptography, filters and effects*: arithmetic on bytes and floating-point
  numbers. What depends on their outcome is modelled with both outcomes.
- *Sources, lyrics providers, remote readers, route planner*: network I/O and
  parsing. A track resolves or does not; a packet comes, fails or ends.
- *The side tasks of a track* (lyrics, SponsorBlock): they write what they
  fetched to the player without asking whether the track is still the same.
  The hazards name the lines. SponsorBlock's seek is the `Seek` of `Playback`,
  sent by the monitor.
- *Rate limiting, buffers, track codec*: sequential algorithms on one value
  under one lock, over floating-point numbers or bytes.
- *Shards of DashMap and threads of the runtime*: a guard that is held across
  an await blocks a thread of the runtime; the models have no threads to block.
- *Metrics, configuration, TLS, health, REST reads*: no control depends on
  them.

## Plan for the proofs

No safety property of a passing run is left without a theorem. Next would be a
refinement of `Playback` to an abstract player of samples (play, seek, end), of
which `CutInOrder` is the step condition.
