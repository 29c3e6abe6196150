# Wavelink: TLA+ models, checks and proofs

Wavelink captures the audio of one machine (the emitter), carries it over QUIC
and renders it on another (the receiver). The core is a set of Rust crates under
`src/crates`; thin platform shells under `src/platform` (macOS, Windows, Linux,
Android, iOS) capture or play sound and call the core. This directory models
that core in TLA+, checks the models with TLC, and proves with TLAPS, for every
value of the constants, most of the safety properties the runs check. Paths below are relative to `src/`; `PROJECT.json`
gives, for every definition, the source lines it models.

## 1. The system

### Media path

| part | state | operations | hard because | correct when |
|---|---|---|---|---|
| **Jitter buffer** `wdr_refsim/src/receiver.rs` (`JitterBuffer`) | ordered map of held frames, `next_out` watermark, highest sequence number, duplicate/late/reorder counters | `push`, `drain_all` | frames arrive late, twice, far ahead; three moves of the watermark (emit, jump, evict) | ascending order, each frame once, bounded, counters reconcile, nothing lost inside the window |
| **Reference emitter** `wdr_refsim/src/emitter.rs` | source cursor, `seq`, held-back datagrams, `packets_sent` | `emit_one`, the end marker, impairments (drop, duplicate, reorder) | the end marker must follow everything, also what was held back | the authoritative frame count is right |
| **Wire** `wdr_proto`, `wdr_refsim/src/framing.rs`, `wdr_transport/src/wire.rs` | decoder buffer | encode and decode frames, control messages, error codes; incremental item decoder; datagram and stream sends with deadlines | items cut anywhere; sizes written down in three crates | what one side packs the other unpacks; cuts do not matter |
| **Codec adapters** `wdr_codec` (`adapter.rs`, `size.rs`) | adapter of each end | build, encode, decode | each end picks its adapter alone, the receiver from the first header | a lane that is built is one that decodes |
| **Drift and resampler** `wdr_refsim/src/drift.rs`, `wdr_codec/src/resample.rs` | window of observations, applied ratio; position and history | `note_frame`, `run_update`, `process`, `set_ratio` | ratio changes between blocks; slew limit against deadband; history trimmed | no click, no oscillation, true bit-exact report |
| **Receiver server and pipeline** `receiver_server.rs`, `receiver.rs` (`Receiver`) | lane phase, bounded wait, metrics, render sink | `run_lane`, `run_lane_secure`, `ingest_frame`, `finish_after_end` | lane sniffed from the first item; marker may overtake or be lost; wait races frames | exact loss; it always ends |
| **Live sink** `sink.rs` (`QuicAudioSink`), emitter's live path | wire plan (rate, samples per frame, resampler, width), accumulator, emitter (sequence, session) | `on_format`, `on_block`, `finish` | blocks of any size; formats announced any time; rebuild keeps the connection | no byte lost or misdeclared; what was paired stays sealed |
| **Secure lane** `secure.rs`, `run_lane_secure` | AEAD index of each direction | `seal`, `open` | index and sequence number advance at different moments | only what was sealed is rendered |
| **Data cipher** `wdr_crypto/src/data_cipher.rs`, `aead.rs` | status, outgoing index, replay window | `encrypt`, `decrypt`, the session core's status | a damaged record takes its index before its tag is checked; the last index of a key | no nonce twice; every refusal has a reason |
| **Replay window** `wdr_crypto/replay.rs` | newest index, bitmap of 64-bit words | `check_and_record`, `would_accept` | multi-word shifts with carry | no index accepted twice, none from before the window, every newer one |
| **SPSC ring** `wdr_rt/spsc.rs` | buffer, two free-running atomic cursors | `try_push`, `try_pop_exact` | two threads, no lock, cursors wrap | a bounded FIFO of untorn frames |
| **Capture buffer and worker** `platform/macos-emitter/src/backend/system_capture.rs`, `stream.rs` | memory, `fill`, overflow flag, format atomics | `push_rt`, `note_delivered_format`; `delivered_format`, `buffered`, `reset_fill`, `overflowed`, the loop of `real_stream` | two threads, no lock, fill and read in separate steps | captured bytes are sent once, in order, or flagged |

### Control path

| part | state | operations | hard because | correct when |
|---|---|---|---|---|
| **Session** `wdr_session/src/lib.rs` | state, reason, fidelity mode, back-off, activity time | `Session::advance`, one arm per state and event | late timer events, 12 states (a pairing phase counts as one), recovery inside recovery | every wait has a wake-up; nothing times out early |
| **FFI bridge** `wdr_bridge/src/lib.rs` | command channel, status cell, the sink on the engine thread | `start`, `on_format`, `on_block`, `finish`, `status` | shell threads race; commands fail | each call returns; the status is true |
| **Pairing** `secure.rs` (handshake), `sink.rs` (`connect_secure`), `receiver_server.rs` (`listen_secure`), `wdr_crypto/noise.rs`, `identity.rs`, `session.rs` | Noise XX half-machines, pins | three messages over the first bidirectional stream | the two sides finish at different moments; one accept has no timeout | both sides agree on who paired; a pin holds; neither waits for ever |
| **Entitlement** `wdr_entitlement` | tier, policy of the session, plan | `intersect`, `renegotiate_live_change`, the caller's apply, pause, resume | live change while streaming or paused | lossless flows only while granted, never dropped silently |
| **Discovery** `wdr_discovery` | none between calls | browse, parse a typed address | - | - |
| **Telemetry** `wdr_telemetry` | bounded ring of events | `log`, export with redaction | ring at its limit | bounded; nothing private leaves |
| **Watchdog and guard** `wdr_rt/watchdog.rs`, `guard.rs` | last kick; nesting depth | `kick`, `check_stall_and_abort`; enter, leave | wall clock may be set; two reads of it | a stall is seen, and only a stall; no allocation slips through |
| **Desktop applications** `platform/{win,linux,macos}-emitter/src/lib.rs`, `linux-receiver/src/lib.rs` | accumulation vector, frame number, source | `push_block`, `emit_frame`, sources and sinks | the vector is moved out in a callback that must not allocate | a push never allocates |
| **WASAPI loopback** `platform/win-emitter/src/wasapi.rs` | caller-owned buffer, endpoint, mix format | `set_endpoint`, `start`, `poll`, `stop`, `reset_fill` | the buffer outlives the stream; the device is invalidated | what is lent belongs to one stream |
| **macOS host** `platform/macos-emitter/src/` (`backend/hotplug.rs`, `backend/permission.rs`, `stream.rs`, `receive.rs`) | generation counter and baseline; permission; STOP flag, events | monitor polls; drivers | notification thread against poll; signal against reset; consent revoked between two steps | no change forgotten; status events can be trusted |
| **Android emitter** `platform/android-wavelink/.../emitter/` (`EmitterActivity.kt`, `EmitterService.kt`, `AudioCaptureAdapter.kt`, `SinkSeam.kt`) | the service's capture, sink and projection; the static display status; the adapter's thread | consent, start, stop, `onStop` of a projection, the capture callback | messages of an old session; the capture thread shares fields with the main looper and no lock | format first; a stop is clean and stops its own session |
| **iOS receiver** `platform/ios/Sources/WavelinkApp/` (`Receiver/ReceiverModel.swift`, `Renderer.swift`, `OutputRouter.swift`, `Shared/`) | tier, fidelity step, session, renderer, route snapshot | tier changes, session start and stop, route events | a route event is handled when the route may be another | sound returns with the route |
| **Android receiver, iOS emitter** | - | - | - | - |

### Interactions

A shell's capture thread fills a buffer (macOS: `CaptureBuffer`; RT backends: the
SPSC ring). A worker drains it into the live sink, directly on desktop and through
the bridge on mobile. The sink cuts and encodes frames, seals them if the lane was
paired, and hands them to the emitter, which sends datagrams (lossy codecs) or one
stream per item (lossless). The receiver server sniffs the lane from the first
item; a plain lane goes through the jitter buffer into the render sink, a paired
lane goes through the data cipher, with its replay window and AEAD, in order. Before
a frame is rendered the drift estimator may stretch it. The session machine is
pure: its caller, which is not in the repository, feeds it events and applies the
effects it returns.

## 2. Modules

| module | models | its actions are |
|---|---|---|
| `JitterBuffer` | `JitterBuffer` of `receiver.rs` | `push` (first, behind the watermark, held duplicate, new: with jump, eviction and emission loop in the same step), `drain_all` |
| `MediaLane` | emitter run loop + QUIC + receiver; EXTENDS `JitterBuffer` and uses its `Push` and `DrainAll` as they are | one emission, end marker, failures; loss, disconnect; sniff, read, bounded wait |
| `LiveSink` | `QuicAudioSink`, the live emitter, seal/open, `run_lane_secure` | `OnFormat`, `OnBlock`, `Finish`; receiver's reads; disconnect |
| `Wire` | frames, control messages, error codes at their encoded sizes; `framing.rs`; datagram and stream sends; the receiver's guards and counters in front of the jitter buffer | one write, cut, loss, deadline; `StreamFramer` reads; the final read |
| `Entitlement` | `wdr_entitlement` and the caller its docs describe | toggle, apply the plan, ask, confirm, pause, resume |
| `Codec` | `wdr_codec` adapters and frame sizes, the emitter's and the receiver's choice | emit on either seam, render |
| `Drift` | `drift.rs`, `resample.rs`, the receiver's gate and report | render one frame at a time of the environment's choice, finish |
| `ReplayWindow` | `replay.rs` | `check_and_record`, `would_accept` |
| `DataCipher` (EXTENDS `ReplayWindow`) | `data_cipher.rs`, `aead.rs` behind the session core's status | `encrypt`, `decrypt` of any earlier record, of a damaged one; status changes |
| `SecurePairing` | `connect_secure`, `listen_secure`, the Noise halves, the first frames, `wait` | dial, each message and its failure, close, timeout, death of the emitter, sniff, render |
| `ReplaySpec` | what a replay window promises: a set of accepted indices | `Check` |
| `SpscRing` | `spsc.rs`, one step per byte copied and per atomic access | both halves of a push and of a pop, refusals |
| `ByteFifo` | what the ring promises: a bounded queue of bytes | `Enqueue`, `Dequeue` |
| `CaptureBuffer` (`MCCaptureBuffer` lists the devices) | `system_capture.rs` + the loop of `stream.rs`, one step per access the other thread can see | callback steps, worker steps |
| `Session` | `Session::advance` with the timers its effects start | one per arm, plus the caller's clock and timers |
| `BridgeEngine` | `EngineHandle` and `engine_loop` | call, execute, set status, reply |
| `RtWatch` | `guard.rs`, `watchdog.rs` | enter, drop, allocate; read the clock and store it, read and check; set the clock |
| `Shells` | the desktop applications with their sources and sinks, BlueZ; `wasapi.rs` | push, start, stop, attach; endpoint change, poll, invalidation, reset |
| `MacHost` | `hotplug.rs`, `permission.rs`, the drivers of `stream.rs` and `receive.rs` | device changes, notifications, the steps of a poll; gate, start, block, signal, finish |
| `AndroidEmitter` | activity, service, capture adapter and sink seam; the looper, service requests and the consent dialog as queues | one per tap, answer, message and handler, split where the capture thread can see the middle; the thread's read, sink lookup, `onBlock`, `refreshStatus` |
| `PhoneReceiver` | `ReceiverModel` with `PolicyGate`, `FidelityStatus`, `Renderer`, `OutputRouter` | tier changes, session steps, route change, its observation, its handling |
| `MCFormats`, `MCHost`, `MCSecure` | one run for several parts | the steps of the part a behaviour is about |
| `MediaLaneProofs`, `SpscRingProofs`, `CaptureBufferProofs`, `SecureSessionProofs`, `LiveSinkProofs`, `FormatProofs`, `HostProofs` | the proofs (section 5) | - |
| `ModularArithmetic` | lemmas on `%` and `\div`, least elements, induction over the naturals as a statement about sets | - |

Correspondence rules. Field and constant names are the code's. Rust early returns
are disjuncts with their guard; a whole method is one step unless another thread can
observe its middle. Values are abstracted to identity: the n-th captured byte is
`n`, a frame is its sequence number (`JitterBuffer`, `MediaLane`) or the bytes it
was cut from (`LiveSink`), a sealed payload is its key, index and content.
Variables called `history` in the comments are not in the code: actions record
in them what the properties compare, and read them only to bound a run.

The three compositions choose a `subject` in the initial state. The parts they hold
share no variable, so a behaviour is one of its subject and the others keep their
initial states: what a run shows of a part is what a run of that part alone would.
The parts that do interact are composed for real: `MediaLane` uses the buffer's own
actions, `LiveSink` holds sender, seal and paired receiver, `SecurePairing` both ends
with what they render, `Wire` both ends of a stream, `Codec` both adapters, `Drift` the
estimator and the resampler it steers, `DataCipher` the replay window.

External parts, modelled from how the code uses them: QUIC (datagrams lost and
reordered; streams accepted in the order they were opened; the connection may die;
reads and writes may fail), the session's caller, ScreenCaptureKit's deliveries.
Duplicated datagrams come from the emitter's impairment, not from QUIC.

## 3. Runs

| run | checks | shows |
|---|---|---|
| `jitter_balanced` | `InOrder Conservation NoLossWithoutJump` | the buffer is right under every order of six arrivals, window below capacity (as every profile but one sizes it) |
| `spsc_ring` | `ImplementsFifo Delivered` | the ring is a FIFO under every byte-level interleaving, and delivers |
| `capture_buffer` | `NothingLostUnlessRaced FormatTornOnlyToStereo EventuallySent` | the unlocked buffer loses bytes only when a push overlaps a drain; what it keeps is sent |
| `secure` | `NonceUnique Agreement PinRespected CaptureExact TimePreserved RendersOnlySealed ImplementsReplaySpec RefusalExplained ListenerDecides OrphanEnds` | every kind of emitter against every kind of listener, every pin, failures at each message; sealed records repeated, reordered, lost, damaged; and frames cut from any blocks under any formats, clear and paired |
| `media_lane` | `LossExplained EndAfterEverything ReceiverEnds` | both lanes account for every frame, and end |
| `formats` | `DecoderIgnoresCuts CodecLaws LosslessOnlyWhileGranted LaneAgrees BitExactIsIdentity ContinuousOutput NoOscillation` | what two peers must agree on: framing at the real sizes, policy, adapters, pace |
| `host` | `BackoffSchedule StatusDescribesSink AbortExplained PushNeverAllocates OneStreamPerBuffer NoChangeForgotten StatusContract CleanStop RouteFollowed WaitsEnd CallsReturn StallCaught` | what surrounds the media path on one host, desktop or phone |
| `resilient_order` (violation) | `InOrder` | finding 1 |
| `capture_silent_drop` (violation) | `NoSilentDrop` | finding 2 |
| `sink_unsealed` (violation) | `SealedAfterPairing` | finding 3 |
| `drift_outlier` (violation) | `OutliersDropped` | finding 4 |
| `android_format_first` (violation) | `FormatFirst` | finding 5 |

Every property of a passing run has a mutant in `PROJECT.json`: a plausible bug in
one modelled definition under which the run reports the property violated. The
mutated forms stand in the modules, marked `MUTANT`. The type invariants
(`TypeOK`, `LaneTypeOK`, ...) and the strengthenings serve the proofs.

### Bounds, and why they are enough

- `JitterBuffer`: window 2, capacity 3, sequence numbers 0..7, six pushes. A jump
  needs one frame 3 ahead; two held frames plus an awaited one fill the window; a
  second jump after an emission still fits in 0..7. The proofs lift every bound.
- `ResilientInOrder`: window = capacity = 2, as `Resilient` has 1024 = 1024.
- `SpscRing`: capacity 4, word of 8 values, lengths 1, 3 and 5 (5 never fits):
  frames wrap around the buffer and 13 bytes wrap the cursors. Proved for all.
- `CaptureBuffer`: capacity 3, deliveries of 1 or 2 bytes, five bytes in all: enough
  for a refusal, a refill after a drain, and a push on both sides of a reset. Proved
  for all.
- `Secure`, cipher: three words of two bits, indices 0..8: slides by less than a word,
  a word, several words with carry, the whole window and more; the index limit is 8,
  so that the last index of a key is reached; one damaged record. Proved for all.
- `Secure`, pairing: three identities (the emitter's, the listener's, one it replaced),
  so that a pin can be right, stale, or of the wrong kind of key; two frames in
  the lane. Proved for all; a handshake has three messages, so nothing else is bounded.
- `MediaLane`: three frames, window 1, capacity 2, so that a frame can be held, lost and
  overtaken by the end marker. A jump of the watermark needs a fourth frame, which makes
  the run too long: jumps are checked in `JitterBuffer`'s own run, and with the lane by
  the proof of `LossExplained`, which has no bound. At most two datagrams held back (8 in the code), one tick to
  the sniff deadline and two to the end deadline, so that a deadline can be missed
  by one item. Each lane is chosen in the initial state.
- `LiveSink` (in `secure`): the frame sizes 512, 960 and 882 samples become 1, 2 and 1. Rates are
  positive and either equal to 44 or 48, above 48 (refused for Opus), or a divisor
  of 48, so that a resampled length is exact; the resampler's lookahead (`HALF`, the
  32 input frames it keeps back) is left out. Blocks of 3, 4, 9 and 12 bytes end in the middle of a sample, of a
  stereo frame, and of a codec frame; 13 bytes and two format changes give two
  frames and a tail.
- `Wire`: the code's own sizes (4096, 64, 16384, 1452). Payloads 0, 300, 4096 and
  4097: nothing, a two-byte length, the largest, one too many. Two items, cut at
  every place that can matter: around a prefix, around an item's end.
- `Entitlement`: four tier changes, enough to lose a tier, pause, and gain it back.
- `Codec`: real rates and sizes; 24000 and 192000 lie outside what Opus takes, 44100
  needs the odd frame size. Two frames, so that the second meets a decoder chosen
  by the first.
- `Drift`: seven frames of three samples, a lookahead of 2 (32 in the code), 200 grid
  points a sample, so that the step of a setting and the largest estimate are
  exact; gaps of 0, 3, 4, 5 and 9 ms around a cadence of 4 give drift of both signs,
  an outlier and an underrun. The window of five observations is full, refitted and
  sliding within the seven frames. The fit is exact where the code uses floats.
- `Session`: constants are small but keep the order that matters (response timeout
  below pairing window, back-off growing from 2 through 3 and 4 to the cap 5); `age` and
  `dwell` saturate at the largest timeout they are compared with. Nothing bounds
  the length of a behaviour.
- `BridgeEngine`: two clients, five calls. `StatusDescribesSink` is proved for all.
- `RtWatch`: two threads, each of which may drop the other's guards, a depth that counts to 3 (255 in the code), so that the nesting
  limit is reached; two kickers, a budget of 2, one unit between a read and its
  check, and one setting of the clock by 3 either way: more than the budget.
- `Shells`: blocks of 0, 2 and 3 and a capacity of 8: full and overfull; two frame
  numbers, so that they wrap; two endpoints and four mix formats (16 bits, 24 in 32,
  20 in 32, invalid); four pushes.
- `MacHost`: two devices, four changes, two starts, two blocks: a change before,
  during and after each step of a call; a signal at every step of a driver.
- `AndroidEmitter`: two consents and one stop, so that a second session can follow a
  stop, a reclaimed projection or the end of the service while messages and the
  thread of the first are still under way (a second stop was checked apart and adds
  nothing new). `AndroidFormat` needs one consent and no stop.
- `PhoneReceiver`: three route changes: away, back, and away again before the first
  was handled.

CHECK_DEADLOCK is off where the bounds, or a finished component, really stop the
model (all cfgs but `MediaLane`, whose stopped states stutter explicitly).

### Fairness

- `SpscRing`: a call that began ends (neither side blocks) and the consumer keeps
  polling, as a periodic callback does. The producer need not push.
- `CaptureBuffer`: the worker polls every `POLL_MS`, its wait for a format is bounded,
  a callback that began returns. Nothing is assumed of deliveries, stop or failures.
- `MediaLane`: time passes and the runtime fires the receiver's deadlines. Nothing
  is assumed of the emitter, the network or the reads, so `ReceiverEnds` holds by the
  bounded waits alone.
- `SecurePairing` (in `MCSecure`): both ends run, reads with a deadline return, the
  emitter's capture goes on, and an end learns of a close. Nothing makes a peer
  speak, and nothing makes the shell finish or drop its sink; the one accept without a
  deadline is what `ListenerDecides` excepts.
- `Session`, `BridgeEngine`, `RtWatch` (in `MCHost`): the caller's clock advances and its
  timers' events are handed over; the engine thread runs; time passes and the
  watchdog thread reads and checks. Nothing is assumed of user, peer, link, shell
  threads or the callback that is watched.

## 4. Findings

1. **Resilient profile strands the awaited frame** (`receiver.rs:458`). With window =
   capacity, `push` evicts the frame after the awaited one, moves the watermark past
   both, and then inserts the awaited frame behind it; it is returned only by the
   final drain, after later frames. The doc promises ascending order.
2. **Capture drops audio silently** (`stream.rs:454`). What the callback appends while
   `on_block` encodes is discarded by the reset, with no flag. The comment says the
   headroom exists so that audio is not dropped silently.
3. **A new format drops the session** (`sink.rs:557`). `on_format` rebuilds the emitter
   without the session of `connect_secure`; later frames leave in the clear. The
   paired receiver refuses them (`RendersOnlySealed` holds).
4. **The outlier test reads the wrong residuals** (`drift.rs:194`). The median sorts the
   residuals in place; the loop after it compares the n-th observation with the n-th
   smallest residual. The doc promises an outlier drop and a refit.
5. **A block can reach the Android sink before its format** (`EmitterService.kt:151`).
   The capture thread runs as soon as `adapter.start` returns; the sink is assigned
   and told the format after that. A block in between throws on the capture thread,
   and the process ends; one before the assignment is dropped. The interface says the
   format comes before the first block.

### Divergences

Smaller disagreements between docs and code, seen while modelling. The models
follow the code; no run is devoted to these.

- Jitter buffer, `Resilient` sizing: eviction happens before the insertion is known to
  fit, and the insertion of the awaited frame can leave the map above its capacity
  (`receiver.rs:473`, doc `:367`); eviction drops the oldest held frame, where the doc
  speaks of emitting early (`:477`, doc `:367-368`, `:457`). Any sizing: the frames a
  jump skips are not counted late (`:446`, doc `:362-363`).
- Capture: on_format takes stereo only, so a mono device ends the stream with an error,
  unless its format was torn: then its bytes are streamed as stereo
  (`system_capture.rs:92`). A push that overlaps the reset stores a fill computed from the old one, so
  bytes already sent are sent again (`system_capture.rs:147`); the overflow flag is
  cleared by the reset before it is read (`stream.rs:456-457`); the worker can read
  a rate with default channels (`system_capture.rs:96`, doc `92-93`):
  `FormatTornOnlyToStereo` bounds the damage.
- `would_accept` records the index, so a later `check_and_record` rejects it
  (`replay.rs:112`, doc `108-109`).
- Session: `Renegotiating` has no arm, so not even an answer leaves it (`lib.rs:236`,
  comment `229-231`, test `748-749`); the pairing timer has no arm (`lib.rs:158`, doc `:17`); `StreamResume`
  reaches Streaming without a negotiation (`:226`, test `:660`); a reconnect timer
  that expired in an earlier recovery makes the next one retry early (`:285`, doc
  `144-146`); keepalive expiry is measured from the last state change, payload does
  not refresh it (`:321`); `LinkLost` is ignored outside Streaming (`:332`).
- The datagram lane's `END_POLL_MS` is one deadline for the whole stream, not per item
  (`receiver_server.rs:206`, docs `:22`, `158-162`, `emitter.rs:394`). On a timeout the frames held
  are neither drained nor counted (`receiver_server.rs:213`).
- Live sink: a second odd rate keeps the first one's resampler (`sink.rs:537`, doc
  `:257`), hence the condition of `TimePreserved`; with a resampler, blocks that end in
  the middle of a stereo frame lose it (`sink.rs:582`, doc `:49`), hence `ragged`; a
  resampler that cannot be built leaves the rest of the format applied (`sink.rs:564`).
- Bridge: blocks queued behind `finish` are sent after the end marker
  (`wdr_bridge/src/lib.rs:304`, `sink.rs:52`); a second start that fails leaves the
  old stream running under status Error (`:256`).
- Live sink: a rebuild in mid-stream restarts the sequence numbers and may change rate
  and width, while the receiver keeps the decoder it sniffed from the first frame;
  the trait says `on_format` comes once, before the first block. `finish` never flushes
  the Opus lane's resampler.
- Drift: the target is limited to a slew step of what is applied, and inside the
  deadband the old value is held, so a correction can never change sign and may
  stay applied under the signal `Idle`, whose doc says nothing is applied
  (`drift.rs:238`); `ExcessiveDrift` is documented as frozen until `reset()`, but the next
  update in range resumes; `reset()` has no caller. With the estimator on, the last
  32 samples are never flushed, though the report may say bit-exact
  (`BitExactIsIdentity` allows for them); the clock is read at render, not at arrival.
- Codec: `PcmAdapter::encode_24` turns the least 24-bit value into the one above it, FLAC
  keeps it; `resample.rs` speaks of 1024 phases and has 4096; `size.rs` says a FLAC
  frame is never larger than raw PCM, which its headers can make it.
- Receiver: `late_discard` for a foreign stream id is overwritten by the buffer's own
  count; an error of the decoder's bound never drains the buffer, so the same bytes
  are counted again; well-formed items behind a malformed one in the final read are
  thrown away; frames behind the end marker in one batch are pushed after `finish`;
  `sniff_meta` takes every layout but mono for two channels.
- Protocol: `FrameFlags.reserved` is documented as written 0 and ignored, and is written
  and read back; a payload over the limit under a small header is reported as malformed.
- Entitlement: `capability_eq` ignores the lossy bit; `ApplySaved` ignores the peer's bits;
  several `MismatchKind` variants are never produced.
- Transport: the "abort" at a send deadline drops the `SendStream`, which ends it cleanly
  with a truncated item. The re-key policy and the authentication failure threshold
  are never consulted.
- Watchdog: a clock set back hides a stall for that long; one set between the two
  reads, or two clones' kicks in the wrong order, can abort a live process (the
  exceptions in `AbortExplained`). `RtGuard` may be sent to another thread, and its drop
  then lowers that thread's count: the first stays guarded for good, the other may lose
  its own guard (`strayed`). Neither the guard nor the detector has a caller.
- Hot-plug: a change counted between the baseline and the read of the counter in
  `start_monitoring` is not reported until the next one; a failed enumeration
  reports devices removed, until the next change (`swallowed` in `NoChangeForgotten`).
- Drivers: a signal between `install_signal_handlers` and the clearing of STOP is lost
  (`stream.rs:252`).
- WASAPI: the frame size uses the valid bits, so of a 24-in-32 mix format only three
  quarters of each packet are copied; the SubFormat is not looked at, so float is
  taken for integer, which the doc excludes; a new endpoint takes effect at the next
  start; after an invalidation polls fail until stop and start.
- Desktop applications: the docs say the lossless path is refused up front, but
  `lossless_allowed` is only a getter; pushes work without a start; a rejected frame's
  bytes and number are gone.
- Android emitter: `stopSelf()` names no start, so a start that is delivered right
  behind a stop is destroyed with the service; it takes a consent that was asked for
  while a consent, a start or a stop was still under way (`hurried` in `CleanStop`), which
  the button's `CONNECTING` and `STOPPING` states would prevent, but nothing sets them
  (`EmitterActivity.kt:183`). A capture thread that outlives `join(500)`
  (`AudioCaptureAdapter.kt:155`) can call a finished sink, feed the next session's, or
  write `STREAMING` over `IDLE` (`late`). `startRecording` rethrows, and nothing catches
  it (`AudioCaptureAdapter.kt:116`).
- Android policy: nothing calls `setStreamingLossless`, so the confirmation of a downgrade
  never shows.
- iOS receiver: the comment says that the fidelity becomes lossy when the tier drops to
  Free (`ReceiverModel.swift:165-167`), but the ladder has no transition to lossy and
  rejects it, so the old step stays on display; `stopSession` leaves the gate's lossless
  flag set, so a later downgrade of an idle phone still asks; a renderer that fails to
  start leaves `sessionStarted` and the health timer on; a renderer that runs keeps its
  `isUsbDac` when the route changes under it.

## 5. Proofs

| module | theorem | what always holds |
|---|---|---|
| `MediaLaneProofs` | `Ordered`, `Conserved`, `Lossless`, `Windowed`, `Bounded`, `TypeCorrect` | of the jitter buffer: `InOrder`, `Conservation`, `NoLossWithoutJump`, `HeldInWindow`, `HardCap`, `TypeOK` |
| | `LossIsExplained`, `MarkerIsLast`, `NoEarlyGivingUp` | of the lane around it: `LossExplained`, `EndAfterEverything`, and `NoEarlyEnd`, the safety half of `ReceiverEnds` |
| `SpscRingProofs` | `Refinement`, `UnreadIntact`, `PopUntorn`, `SubtractionSafe`, `TypeCorrect` | the ring implements `ByteFifo`; `Intact`, `Untorn`, `NoUnderflow`, `TypeOK` |
| `CaptureBufferProofs` | `NothingLost`, `FormatTorn`, `BufferInvariance` | `NothingLostUnlessRaced`, `FormatTornOnlyToStereo` |
| `SecureSessionProofs` | `Refinement`, `BitmapFaithful`, `TypeCorrect` | the bitmap of the replay window implements `ReplaySpec`; `Faithful`, `TypeOK` |
| | `NonceNeverReused`, `RefusalsExplained`, `CipherRefines`, `CipherUsesWindow`, `CipherInvariance` | `NonceUnique`, `RefusalExplained`; two ciphers and their transport still implement `ReplaySpec` |
| | `PeersAgree`, `PinsHold`, `PairInvariance` | `Agreement`, `PinRespected` |
| `LiveSinkProofs` | `CaptureIsExact`, `TimeIsPreserved`, `SinkInvariance` | of the emitting end: `CaptureExact`, `TimePreserved` |
| | `RendersOnlyWhatIsSealed`, `LaneInvariance` | of both ends of a paired lane: `RendersOnlySealed` |
| `FormatProofs` | `LosslessIsGranted` | `LosslessOnlyWhileGranted` |
| | `LanesAgree` | `LaneAgrees` |
| | `CutsDoNotMatter`, `SizesAgree` | of the wire: `DecoderIgnoresCuts`, `CodecLaws` |
| | `CorrectionNeverClicks`, `BitExactReportIsTrue`, `DriftInvariance` | `ContinuousOutput`, `BitExactIsIdentity` |
| | `CorrectionIsSlewed` | `NoOscillation` |
| `HostProofs` | `StatusTrue` | `StatusDescribesSink` |
| | `AbortIsExplained` | `AbortExplained` |
| | `PushNeverGrows`, `LendsOneStream` | `PushNeverAllocates`, `OneStreamPerBuffer` |
| | `ChangesAreSeen`, `EventsCanBeTrusted` | `NoChangeForgotten`, `StatusContract` |
| | `StoppingIsClean` | `CleanStop` |
| | `SoundReturns` | `RouteFollowed` |
| | `BackoffIsKept` | `BackoffSchedule` |

Assumptions. `JBAssumption` (the window is a natural number, the capacity a positive one, the
sequence numbers are naturals) and, in each theorem, `Window < Cap`: with `Window = Cap` the first
finding refutes the statement. `RingAssumption`: the capacity is positive, smaller
than the word and divides it (both are powers of two in the code).
`ReplayAssumption`: at least one word, of at least one bit. `CipherAssumption`: the
index that is never used lies within the modelled indices or right behind them.
`PairingAssumption`: the emitter has an identity, the lane holds a frame.
`CorrectionIsSlewed` has the hypothesis `MaxStep < 2 * Deadband`, which
`DriftConfig::default` satisfies (0.75 against 2 * 0.5 ppm): a step at least as long could
jump from one side of the deadband to the other.
`SizesAgree` has two: a header bound of at least 52 bytes, which is what a frame takes
without its payload when every field is at full width (`header_max_len` says 64), and a
largest frame that fits the two-byte prefix (64 + 4096 does).
All the others (`LaneAssumption`, `CaptureAssumption`, `SinkAssumption`,
`CodecAssumption`, ...) give the constants their types, and say that a deadline, a
frame size, a rate or a capacity is not zero where the code's is not. No bound of the
runs is assumed away silently: the guards that use one are part of the specification
and hold for every value of it.

`LiveSink` measures time in whole ratios of rates, so its theorems, though they
hold for every set of rates, speak of the code where a resampled rate divides 48 kHz.

The pairing and cipher theorems are about the protocol with ideal cryptography: a
key is its derivation, and a record opens only under the key and index it was
sealed with.

Arguments.

- *Jitter buffer.* None of the properties is inductive alone. `IInv` adds
  `HeldInWindow` (what is held is strictly ahead of the watermark, at most the window),
  `BehindWatermark` (what was returned is behind it) and `GapFree` (without a jump the
  returned frames are contiguous from the anchor). From `HeldInWindow` and
  `Window < Cap` the eviction branch is dead (`NoEviction`); the emission loop is
  summarised by `Stop`, the first missing number (`StopProperties`), whose existence
  is the least-element argument of `LeastElement`.
- *Ring.* `IInv` says that the cursors are the byte counts modulo the word
  (`Cursors`), and what the half-finished push and pop have reached. `SlotsDistinct`
  (bytes less than a capacity apart have different slots) and `WrappedDistance` carry
  the arithmetic. Publishing maps to `Enqueue` and `Dequeue`, the rest stutters.
- *Replay window.* `IInv` is `Faithful` with the position of the newest index;
  `SlideBit` says which index a bit stands for after a slide. The `%` and `\div`
  facts are in `ModularArithmetic`.
- *Data cipher.* `CipherInv`: the sealed indices are exactly those below the counter,
  each once, and the window has accepted exactly what was opened or burnt. Every
  cipher step is a step of the window or leaves it alone (`CipherUsesWindow`), so the
  window's refinement carries over, and `Faithful` explains a refusal.
- *Pairing.* `Agreement` speaks of the end; `PairInv` says of each stage of either end
  what it knows, what is in flight (`InFlight`), and that whoever has a session
  derived it from the transcript both saw (`Sessions`).
- *Capture.* `BufferInv`: until a push races a drain, the copy of a push starts where
  the fill ends, and the slice the worker borrowed is a prefix of what is kept;
  `FormatInv` follows a delivery between its two stores.
- *Media lane.* `LaneInv` extends the buffer's `IInv`, step by step with the buffer's own
  lemmas: numbers in use are below the emitter's counter (`Numbered`), what the buffer
  holds or returned arrived (`FromAnchor`), what it returned was rendered or
  counted once (`Accounted`), and on the reliable lane the pushed frames and those in
  flight are all that was offered, with the marker behind them (`StreamOrder`). The
  loss count is then a count of a set: `GapFree` says which one.
- *Live sink.* `PlanFollows` ties the plan to the format announced last, `Copied` the
  bytes framed and accumulated to those captured, `FramesAligned` says that four
  bytes that begin at a multiple of four are one stereo frame, which survives the
  cutting because a frame of 16-bit samples is a multiple of four. `CutFacts` says what
  is cut from an accumulator and what stays, `BlockStep` what a block does.
  `PairedLaneInv` needs this side: the i-th sealed frame is the i-th slice of the
  capture (`SessionKept`), and the receiver has rendered a prefix of them (`Received`).
- *Entitlement.* `PolicyInv`: a session keeps what it agreed on until the tier changes, and
  one that lost lossless is paused until the user answers. That the views of the
  grants agree (`OneSourceOfTruth`) is finite, and proved case by case.
- *Codec.* `CodecInv`: every frame sent decodes, with the emitter's own adapter, to what it
  was encoded from, and its header says how that adapter was built. `RoundTrip` is
  proved per codec, for every number of samples the encoder takes; `SameAdapter` is the
  step from the header to the receiver's decoder; `WholeFits` and `RawBudget` hold the
  sizes of the three crates against each other.
- *Wire.* `WireInv`: what was decoded are the well-formed items before the point the decoder has
  drained to (`Taken`), and it has drained to an item that is incomplete or malformed or
  follows a malformed one (`AsFarAsItGoes`); at the end of a stream that was sent whole
  nothing is incomplete. `StartUnfolds` and `StartsGrow` turn positions into an order on items,
  `DecoderStops` says what one call of the decoder does.
- *Drift.* `DriftInv`: what the resampler holds begins where the next output needs it
  (`HistoryHeld`), its ratio is the one the estimator applied, and the next position is one
  ratio behind the last output (`Continues`); as long as nothing was corrected, positions
  count samples (`Identity`). `Moves` is what an update does to the applied value, whatever
  the fit says. That the fit is a number at all takes most of the lines: a sum over the
  window is defined by an iteration, so the sums of a family are shown to exist as a table
  (`SumByTable`), and the denominator of the least-squares slope is not negative by the
  inequality of Cauchy and Schwarz (`SquareOfSum`); where it is zero the model, like the
  code, has no slope.
- *Bridge.* `BridgeInv`: the result the engine holds between execution and status
  already describes the sink.
- *Guard and watchdog.* `RtInv`: the depth is the number of live guards, unless one was
  dropped on another thread; the stored
  progress is no older than the latest kick unless the clock was set or a kick
  overtaken, and so are the values a kick or a check has read and not yet used
  (`AgesTrue`).
- *Desktop shells.* `AppInv` bounds the fill by the room; `LoopInv` adds that nothing is
  buffered without a stream, which is what a restart relies on.
- *macOS.* `PlugInv` says of each step of a call that a change its list missed is still
  pending or counted (`CallNotStale`); `DriverInv` says for each place of a driver what
  must have happened before it.
- *Android.* `CleanStop` is about a stop; its invariant is about the queues. A consent is
  one message at a time, in the dialog, in the looper or among the intents, and no
  message of an older session can be behind it (`OneConsent`, `StartIsLast`), so a
  session starts with queues that only speak of itself (`SessionAlone`) and with every
  older thread gone (`ThreadAlone`). `late` and `hurried` are where the code loses this.
- *iOS.* `PhoneInv`: a change of the route is current, on its way or queued.
- *Session.* The schedule is a recursive function; that it has a value for every attempt
  is an induction over the naturals, done as a statement about sets (`HoldsEveryNumber`:
  tables of its first delays exist for every length, and agree). `SessionInv` then keeps to
  it: a recovery starts it afresh, a retry takes the next delay.

Only model-checked: all liveness (`Delivered`, `EventuallySent`, `ListenerDecides`,
`OrphanEnds`, `ReceiverEnds`, `WaitsEnd`, `CallsReturn`, `StallCaught`), because fairness is
out of the prover's reach. Every invariant of a passing run is proved.

## 6. Not modelled, and the plan

Left out, and why:

- *Values of samples*: dither, the interpolation itself, what libFLAC, libopus and
  the fit's floating point compute. Lengths, positions, rates and widths are kept.
- *Libraries*: QUIC, TLS, the cryptographic primitives, COM, PipeWire, BlueZ and
  ScreenCaptureKit appear only as the code uses them.
- *Transport metrics and measurements*, *telemetry*: counters and a bounded ring that
  people read; no decision of the program depends on them.
- *Discovery*, command-line parsing, the GUI, the macOS HAL tap (which reports that
  it is not wired): input and output without a protocol state.
- *Fakes, fixtures, developer tooling, build files*: not part of the shipped program.
- *Android receiver*: not wired. No frames reach the player, the router never says that
  no route is left, the routed device is never assigned; a track that was paused is
  not started by `play()` again (`ReceiverService.kt:209`).
- *iOS emitter*: the steps after its explanation hang on the system's picker, which is
  not wired; its sink gets one fixture block.
- In the phone models: capture policy (the activity always allows all, so that
  `adapter.start` never returns null for an empty one), metrics, labels, the demo health
  timer, `resumeIfPaused` (it has no caller).
- In `LiveSink`: an error of the encoder, or a frame too large for a datagram, while the
  connection stays up; every failed emission there is a lost connection.
- In `MacHost`: the second `on_format`, with the delivered format, and the warnings of a
  screen capture. A refusal ends the program like a refused block, and `CaptureBuffer`
  has it at its place (`WaitChannels`).

Hazards in modelled parts that no property is about: a pause, sleep and resume of a
session that skips negotiation, its keepalive measured from the last state change,
`LinkLost` while paused (all under Divergences); the held frames that a receiver timeout
leaves uncounted; `finish()`, which sends the marker, sleeps 50 ms and lets the
runtime go, so that a slow path may lose the marker (`ReceiverEnds` covers its loss).

Next, in this order: `CaptureBuffer` feeding `LiveSink`
(capture to wire); `Session` driven by pairing and link events. Next proofs:
that what `Wire` queues is a run of the network `MediaLane` assumes.

`PROJECT.json` lists every component with its reason, and every hazard with the
properties that guard against it.
