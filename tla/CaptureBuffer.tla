--------------------------- MODULE CaptureBuffer ---------------------------
(***************************************************************************)
(* The macOS capture path: the buffer the ScreenCaptureKit callback appends *)
(* to (platform/macos-emitter/src/backend/system_capture.rs) and the worker *)
(* loop that drains it into the audio sink (real_stream in                  *)
(* platform/macos-emitter/src/stream.rs).  The two threads share four       *)
(* atomics and the memory, without a lock; each call is split at every      *)
(* access the other thread can observe.  The n-th captured byte is n.       *)
(***************************************************************************)
EXTENDS Integers, Sequences, SequencesExt

CONSTANTS
    Capacity,   \* CAPTURE_CAPACITY
    Lengths,    \* lengths of the audio buffers the system delivers
    MaxBytes,   \* bound on the number of bytes captured
    Devices     \* formats a device may report: [rate, channels], 0 = not reported

ASSUME CaptureAssumption ==
    /\ Capacity \in Nat /\ MaxBytes \in Nat
    /\ Lengths \subseteq Nat \ {0}
    /\ Devices \subseteq [rate : Nat, channels : Nat]

VARIABLES
    mem,        \* the preallocated memory
    fill,       \* fill
    overflowed, \* overflowed
    format,     \* delivered_rate, delivered_channels and fmt_seen
    device,     \* the format of the device
    cpc,        \* callback: "idle" | "rate" | "channels" | "push" | "copy" | "store"
    start,      \* callback: fill as push_rt loaded it
    len,        \* callback: length of the audio buffer
    captured,   \* number of bytes the system delivered so far
    wpc,        \* worker: where real_stream is
    wrate,      \* worker: the rate delivered_format loaded
    chosen,     \* worker: the channels on_format was called with, or 0
    wlen,       \* worker: length of the slice buffered() returned
    warned,     \* worker: the local `overflowed` of real_stream
    kept,       \* history: bytes of the pushes that returned true, in order
    sentOut,    \* history: bytes handed to on_block, in order
    raced       \* history: a push overlapped a drain

shared == <<mem, fill, overflowed>>
callback == <<cpc, start, len, captured>>
worker == <<wpc, wrate, chosen, wlen, warned>>
history == <<kept, sentOut, raced>>
vars == <<shared, format, device, callback, worker, history>>

Unknown == [rate |-> 0, channels |-> 0, seen |-> FALSE]

Init ==
    /\ mem = [i \in 1..Capacity |-> 0]
    /\ fill = 0 /\ overflowed = FALSE
    /\ format = Unknown /\ device \in Devices
    /\ cpc = "idle" /\ start = 0 /\ len = 0 /\ captured = 0
    /\ wpc = "wait" /\ wrate = 0 /\ chosen = 0 /\ wlen = 0 /\ warned = FALSE
    /\ kept = <<>> /\ sentOut = <<>> /\ raced = FALSE

\* The bytes of the audio buffer being pushed.
Incoming == [i \in 1..len |-> captured - len + i]

-----------------------------------------------------------------------------
(***************************************************************************)
(* did_output_sample_buffer, on the capture system's thread                *)
(***************************************************************************)

\* The system delivers an audio buffer; the format is noted once.
Deliver(n) ==
    /\ cpc = "idle"
    /\ wpc # "stopped"
    /\ captured + n <= MaxBytes
    /\ captured' = captured + n
    /\ len' = n
    /\ cpc' = IF format.seen THEN "push" ELSE "rate"
    /\ format' = [format EXCEPT !.seen = TRUE]
    /\ UNCHANGED <<shared, device, start, worker, history>>

\* note_delivered_format stores the rate and then the channels.
NoteRate ==
    /\ cpc = "rate"
    /\ format' = [format EXCEPT !.rate = device.rate]
    /\ cpc' = "channels"
    /\ UNCHANGED <<shared, device, start, len, captured, worker, history>>

NoteChannels ==
    /\ cpc = "channels"
    /\ format' = [format EXCEPT !.channels = device.channels]
    /\ cpc' = "push"
    /\ UNCHANGED <<shared, device, start, len, captured, worker, history>>

\* push_rt: no room.
PushRefused ==
    /\ cpc = "push"
    /\ fill + len > Capacity
    /\ overflowed' = TRUE
    /\ cpc' = "idle"
    /\ UNCHANGED <<mem, fill, format, device, start, len, captured, worker, history>>

\* push_rt: the fill is loaded and the room checked.
PushLoad ==
    /\ cpc = "push"
    /\ fill + len <= Capacity
    /\ start' = fill
    /\ cpc' = "copy"
    /\ UNCHANGED <<shared, format, device, len, captured, worker, history>>

PushCopy ==
    /\ cpc = "copy"
    /\ mem' = [i \in 1..Capacity |-> IF i \in (start + 1)..(start + len)
                                     THEN Incoming[i - start] ELSE mem[i]]
    /\ cpc' = "store"
    /\ UNCHANGED <<fill, overflowed, format, device, start, len, captured, worker, history>>

\* push_rt publishes the new fill.  A worker that has loaded the old one and
\* not reset it yet will discard these bytes.
PushStore ==
    /\ cpc = "store"
    /\ fill' = start + len
    /\ kept' = kept \o Incoming
    /\ raced' = (raced \/ wpc \in {"send", "reset"})
    /\ cpc' = "idle"
    /\ UNCHANGED <<mem, overflowed, format, device, start, len, captured, worker, sentOut>>

-----------------------------------------------------------------------------
(***************************************************************************)
(* real_stream, on the worker thread                                       *)
(***************************************************************************)

\* delivered_format loads the rate, then the channels.
WaitRate ==
    /\ wpc = "wait"
    /\ wrate' = format.rate
    /\ wpc' = IF format.rate = 0 THEN "wait" ELSE "wait2"
    /\ UNCHANGED <<shared, format, device, callback, chosen, wlen, warned, history>>

\* MUTANT: channels not stored count as 1.
delivered_channels_Mono == IF format.channels = 0 THEN 1 ELSE format.channels

\* delivered_format: channels not stored count as 2.
delivered_channels == IF format.channels = 0 THEN 2 ELSE format.channels

\* on_format is called with the pair, and its error is real_stream's: it takes
\* stereo only, and may refuse the rate.
WaitChannels ==
    /\ wpc = "wait2"
    /\ chosen' = delivered_channels
    /\ \/ chosen' = 2 /\ wpc' = "top"
       \/ wpc' = "stopped"
    /\ UNCHANGED <<shared, format, device, callback, wrate, wlen, warned, history>>

\* 1.5 s without a rate: stream as requested.
WaitTimeout ==
    /\ wpc = "wait"
    /\ wpc' = "top"
    /\ UNCHANGED <<shared, format, device, callback, wrate, chosen, wlen, warned, history>>

\* MUTANT: only a full buffer is drained.
Buffered_WhenFull ==
    /\ wpc = "top"
    /\ wlen' = fill
    /\ wpc' = IF fill < Capacity THEN "check" ELSE "send"
    /\ UNCHANGED <<shared, format, device, callback, wrate, chosen, warned, history>>

\* buffered(): the fill is loaded and the slice borrowed.
Buffered ==
    /\ wpc = "top"
    /\ wlen' = fill
    /\ wpc' = IF fill = 0 THEN "check" ELSE "send"
    /\ UNCHANGED <<shared, format, device, callback, wrate, chosen, warned, history>>

\* on_block reads the slice.
OnBlock ==
    /\ wpc = "send"
    /\ sentOut' = sentOut \o SubSeq(mem, 1, wlen)
    /\ wpc' = "reset"
    /\ UNCHANGED <<shared, format, device, callback, wrate, chosen, wlen, warned, kept, raced>>

\* MUTANT: the fill is not reset after a drain.
ResetFill_Forgotten ==
    /\ wpc = "reset"
    /\ raced' = (raced \/ cpc \in {"copy", "store"})
    /\ wpc' = "clear"
    /\ UNCHANGED <<shared, format, device, callback, wrate, chosen, wlen, warned, kept, sentOut>>

\* reset_fill, first store.  A push that has loaded the old fill will publish it.
ResetFill ==
    /\ wpc = "reset"
    /\ fill' = 0
    /\ raced' = (raced \/ cpc \in {"copy", "store"})
    /\ wpc' = "clear"
    /\ UNCHANGED <<mem, overflowed, format, device, callback, wrate, chosen, wlen, warned, kept, sentOut>>

\* reset_fill, second store.
ResetFlag ==
    /\ wpc = "clear"
    /\ overflowed' = FALSE
    /\ wpc' = "check"
    /\ UNCHANGED <<mem, fill, format, device, callback, wrate, chosen, wlen, warned, history>>

\* The overflow check and the sleep that end an iteration.
CheckOverflow ==
    /\ wpc = "check"
    /\ warned' = (warned \/ overflowed)
    /\ wpc' = "top"
    /\ UNCHANGED <<shared, format, device, callback, wrate, chosen, wlen, history>>

\* The stop flag or the deadline, then stop(), which resets the buffer.  While
\* the format is awaited the stop flag leads to the loop, and from there here.
Stop ==
    /\ wpc = "top"
    /\ fill' = 0 /\ overflowed' = FALSE
    /\ wpc' = "stopped"
    /\ UNCHANGED <<mem, format, device, callback, wrate, chosen, wlen, warned, history>>

\* on_block fails: real_stream returns its error.
OnBlockFails ==
    /\ wpc = "send"
    /\ wpc' = "stopped"
    /\ UNCHANGED <<shared, format, device, callback, wrate, chosen, wlen, warned, history>>

-----------------------------------------------------------------------------
Push == PushRefused \/ PushLoad \/ PushCopy \/ PushStore
Callback == (\E n \in Lengths : Deliver(n)) \/ NoteRate \/ NoteChannels \/ Push
Drain == Buffered \/ OnBlock \/ ResetFill \/ ResetFlag \/ CheckOverflow
Worker == WaitRate \/ WaitChannels \/ WaitTimeout \/ Drain \/ Stop \/ OnBlockFails

Next == Callback \/ Worker

Spec == Init /\ [][Next]_vars

\* The worker loop polls every POLL_MS, the wait for the format is bounded and
\* a callback that began returns (neither thread blocks).  Nothing is assumed
\* of the system's deliveries, of the stop flag or of failures.
FairSpec ==
    /\ Spec
    /\ WF_vars(Drain)
    /\ WF_vars(WaitTimeout \/ WaitChannels)
    /\ WF_vars(NoteRate \/ NoteChannels \/ Push)

-----------------------------------------------------------------------------
(***************************************************************************)
(* Properties                                                              *)
(***************************************************************************)

\* As long as no push has overlapped the window from buffered() to
\* reset_fill(), what the sink got followed by what is buffered is exactly what
\* was captured and not refused, in order.  And a copy in progress writes free
\* memory only, raced or not: inside the allocation, whatever reset_fill did
\* since the check, and not into the slice on_block is reading ("caller must not
\* mutate while reading"), although nothing synchronises the two threads.
NothingLostUnlessRaced ==
    /\ (~raced /\ wpc \notin {"reset", "stopped"}) =>
          sentOut \o SubSeq(mem, 1, fill) = kept
    /\ cpc = "copy" =>
          /\ start + len <= Capacity
          /\ wpc = "send" => wlen <= start

\* Bytes kept by a push reach the sink, unless a push overlapped a drain or the
\* stream ended.
EventuallySent ==
    \A n \in 1..MaxBytes :
        Contains(kept, n) ~> (Contains(sentOut, n) \/ raced \/ wpc = "stopped")

\* stream.rs: "a slower drain flags an overflow instead of dropping audio
\* silently": a byte that push_rt kept is sent, buffered or in flight.
NoSilentDrop ==
    wpc # "stopped" =>
        \A n \in ToSet(kept) : n \in ToSet(sentOut) \/ (\E i \in 1..fill : mem[i] = n)

\* delivered_format: "the delivered (not merely requested) sample
\* rate/channels": the two loads of the worker race the two stores of the
\* callback.  The rate it takes is the device's, and a pair read in between can
\* only take the channels for 2, never for another count.
FormatTornOnlyToStereo ==
    chosen # 0 => wrate = device.rate /\ chosen \in {2, device.channels}

-----------------------------------------------------------------------------
(***************************************************************************)
(* The inductive strengthening: where a push and a drain in progress stand.  *)
(***************************************************************************)
DataTypes ==
    /\ mem \in [1..Capacity -> Nat] /\ fill \in 0..Capacity
    /\ start \in Nat /\ len \in Nat /\ captured \in Nat /\ wlen \in Nat
    /\ len <= captured
    /\ kept \in Seq(Nat) /\ sentOut \in Seq(Nat) /\ raced \in BOOLEAN

\* Only the callback makes the fill grow, so that a copy starts at or above it.
InPush ==
    /\ cpc \in {"copy", "store"} =>
          /\ start + len <= Capacity /\ fill <= start
          /\ ~raced /\ wpc # "stopped" => fill = start
    /\ cpc = "store" => SubSeq(mem, start + 1, start + len) = Incoming

InDrain == wpc \in {"send", "reset"} => wlen <= fill /\ (~raced => wlen = fill)

Whole ==
    ~raced => /\ wpc \notin {"reset", "stopped"} => sentOut \o SubSeq(mem, 1, fill) = kept
              /\ wpc = "reset" => sentOut = kept

BufferInv == DataTypes /\ InPush /\ InDrain /\ Whole

FormatInv ==
    /\ format = [rate |-> format.rate, channels |-> format.channels, seen |-> format.seen]
    /\ format.rate \in {0, device.rate} /\ format.channels \in {0, device.channels}
    /\ wpc \in {"wait", "wait2"} => chosen = 0
    /\ wpc = "wait2" => wrate = device.rate
    /\ FormatTornOnlyToStereo
=============================================================================
