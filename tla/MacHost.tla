-------------------------------- MODULE MacHost --------------------------------
(***************************************************************************)
(* The macOS host program: the hot-plug monitor (hotplug.rs), which polls a   *)
(* generation counter the HAL's notification thread bumps, and the drivers    *)
(* --stream and --receive (stream.rs, receive.rs) with the permission gate    *)
(* (permission.rs) and the ScreenCaptureKit handle (system_capture.rs).  What  *)
(* happens inside a stream's capture loop is CaptureBuffer's subject.         *)
(***************************************************************************)
EXTENDS Integers, Sequences, FiniteSets, SequencesExt

CONSTANTS
    Devices,     \* the output devices that may be plugged in
    MaxChanges,  \* bound: device-list changes
    MaxStarts,   \* bound: start_monitoring calls that subscribe
    MaxBlocks    \* bound: blocks the source has

ASSUME MacAssumption == MaxChanges \in Nat /\ MaxStarts \in Nat /\ MaxBlocks \in Nat

VARIABLES
    present,     \* the devices the HAL would list
    pending,     \* changes the notification thread has not delivered
    generation,  \* DEVICE_GENERATION
    monitor,     \* HALDeviceMonitor: [subscribed, last_generation, baseline]
    call,        \* the call in progress: [at, current, generation, whole]
    swallowed,   \* history: how the last call may have lost a change
    changes,     \* changes so far
    starts,      \* subscriptions so far
    args,        \* the parsed arguments of the driver
    at,          \* where the driver is
    tcc,         \* the user's consent and the system: [consent, os, display]
    gate,        \* PermissionState
    stop_flag,   \* STOP
    signal,      \* "none", "early" (before the handler), "overwritten", "seen"
    sent,        \* blocks handed to the sink
    marker,      \* finish() was called
    events       \* the status events printed

plugVars   == <<present, pending, generation, monitor, call, swallowed, changes, starts>>
streamVars == <<args, at, tcc, gate, stop_flag, signal, sent, marker, events>>

-----------------------------------------------------------------------------
(***************************************************************************)
(* Hot-plug monitor.                                                       *)
(***************************************************************************)
NoCall == [at |-> "idle", current |-> {}, generation |-> 0, whole |-> TRUE]

PlugInit ==
    /\ present \in SUBSET Devices
    /\ pending = 0 /\ generation = 0
    /\ monitor = [subscribed |-> FALSE, last_generation |-> 0, baseline |-> {}]
    /\ call = NoCall /\ swallowed = FALSE /\ changes = 0 /\ starts = 0

\* A device comes or goes; the HAL tells the listener later.
DeviceChange ==
    /\ changes < MaxChanges /\ changes' = changes + 1
    /\ \E d \in Devices :
         present' = IF d \in present THEN present \ {d} ELSE present \union {d}
    /\ pending' = IF monitor.subscribed THEN pending + 1 ELSE pending
    /\ UNCHANGED <<generation, monitor, call, swallowed, starts>>

devices_listener ==
    /\ pending > 0 /\ pending' = pending - 1
    /\ generation' = generation + 1
    /\ UNCHANGED <<present, monitor, call, swallowed, changes, starts>>

\* enumerate_output_devices().unwrap_or_default(): the list, no list at all when a
\* property read fails, or the list without a device whose streams are unreadable.
Enumerations == {present, {}} \union {present \ {d} : d \in present}

\* start_monitoring subscribes, takes the baseline, then reads the generation.
start_monitoring ==
    /\ call.at = "idle" /\ ~monitor.subscribed
    /\ starts < MaxStarts /\ starts' = starts + 1
    /\ monitor' = [monitor EXCEPT !.subscribed = TRUE]
    /\ call' = [NoCall EXCEPT !.at = "baseline"]
    /\ UNCHANGED <<present, pending, generation, swallowed, changes>>

refresh_baseline ==
    /\ call.at = "baseline"
    /\ \E list \in Enumerations :
         /\ monitor' = [monitor EXCEPT !.baseline = list]
         /\ call' = [call EXCEPT !.at = "load", !.generation = generation,
                                 !.whole = (list = present)]
    /\ UNCHANGED <<present, pending, generation, swallowed, changes, starts>>

\* A change the listener counted since the baseline was taken is taken for known.
load_generation ==
    /\ call.at = "load" /\ call' = NoCall
    /\ monitor' = [monitor EXCEPT !.last_generation = generation]
    /\ swallowed' = (~call.whole \/ generation # call.generation)
    /\ UNCHANGED <<present, pending, generation, changes, starts>>

stop_monitoring ==
    /\ call.at = "idle" /\ monitor.subscribed
    /\ monitor' = [monitor EXCEPT !.subscribed = FALSE]
    /\ pending' = 0
    /\ UNCHANGED <<present, generation, call, swallowed, changes, starts>>

\* poll_changes reads the generation, lists the devices, and reports the difference.
poll_generation ==
    /\ call.at = "idle" /\ monitor.subscribed
    /\ generation # monitor.last_generation
    /\ monitor' = [monitor EXCEPT !.last_generation = generation]
    /\ call' = [NoCall EXCEPT !.at = "enumerate"]
    /\ UNCHANGED <<present, pending, generation, swallowed, changes, starts>>

poll_enumerate ==
    /\ call.at = "enumerate"
    /\ \E list \in Enumerations :
         call' = [call EXCEPT !.at = "report", !.current = list, !.whole = (list = present)]
    /\ UNCHANGED <<present, pending, generation, monitor, swallowed, changes, starts>>

\* MUTANT: the generation is noted when the poll is done.
poll_report_NotesGeneration ==
    /\ call.at = "report" /\ call' = NoCall
    /\ monitor' = [monitor EXCEPT !.baseline = call.current, !.last_generation = generation]
    /\ swallowed' = ~call.whole
    /\ UNCHANGED <<present, pending, generation, changes, starts>>

poll_report ==
    /\ call.at = "report" /\ call' = NoCall
    /\ monitor' = [monitor EXCEPT !.baseline = call.current]
    /\ swallowed' = ~call.whole
    /\ UNCHANGED <<present, pending, generation, changes, starts>>

PlugNext ==
    \/ DeviceChange \/ devices_listener
    \/ start_monitoring \/ refresh_baseline \/ load_generation \/ stop_monitoring
    \/ poll_generation \/ poll_enumerate \/ poll_report

PlugSpec == PlugInit /\ [][PlugNext]_plugVars

-----------------------------------------------------------------------------
(***************************************************************************)
(* Permission.                                                             *)
(***************************************************************************)

\* SCShareableContent: a list, an empty list, or an error.  Before 14.4 a missing
\* consent shows as an empty list; a managed host has nothing to capture.
Shareable(t) ==
    CASE t.os = "managed"                   -> "no capturable content"
      [] t.consent /\ t.os # "managed"      -> IF t.display THEN "content" ELSE "empty"
      [] ~t.consent /\ t.os = "before 14.4" -> "empty"
      [] ~t.consent /\ t.os = "14.4"        -> "denied"

\* classify and current_permission: only content is consent.
current_permission(t) ==
    CASE Shareable(t) = "content" -> "Authorized"
      [] Shareable(t) = "empty"   -> "NotDetermined"
      [] Shareable(t) = "denied"  -> "Denied"
      [] OTHER                    -> "Restricted"

\* transition: Restricted is sticky, an inconclusive outcome changes nothing.
transition(from, outcome) ==
    IF from = "Restricted" \/ outcome = "NotDetermined" THEN from ELSE outcome

\* The user may grant or revoke consent at any time.
ConsentChanges ==
    /\ at # "exited"
    /\ tcc' = [tcc EXCEPT !.consent = ~@]
    /\ UNCHANGED <<args, at, gate, stop_flag, signal, sent, marker, events>>

-----------------------------------------------------------------------------
(***************************************************************************)
(* The drivers.                                                            *)
(***************************************************************************)
Event(ev) == events' = Append(events, ev)
Quiet     == UNCHANGED events

\* run_stream's and run_receive's exit code, by the last event.  The periodic
\* "stats" events, and arguments that do not parse, are left out.
Exit(ev) == at' = "exited" /\ Event(ev)

\* parse_stream_args: an argument wins over the environment, and that over the
\* default; the codec's default depends on the tier.
Choice(arg, env, default) == IF arg # "" THEN arg ELSE IF env # "" THEN env ELSE default

parse_stream_args(tier, env_tier, codec, fixture, rate) ==
    LET t == Choice(tier, env_tier, "free")
    IN [mode |-> "stream", tier |-> t, fixture |-> fixture, rate |-> rate, sink |-> "",
        codec |-> Choice(codec, "", IF t = "pro" THEN "flac" ELSE "opus")]

parse_receive_args(arg) ==
    [mode |-> "receive", tier |-> "", fixture |-> FALSE, rate |-> 48000, codec |-> "",
     sink |-> Choice(arg, "", "null")]

Invocations ==
    {parse_stream_args(tier, env_tier, codec, fixture, rate) :
        tier \in {"", "free", "pro"}, env_tier \in {"", "free", "pro"},
        codec \in {"", "opus", "flac", "pcm"}, fixture \in BOOLEAN, rate \in {44100, 48000}}
    \union {parse_receive_args(arg) : arg \in {"", "audio"}}

StreamInit ==
    /\ args \in Invocations
    /\ at = IF args.mode = "stream" THEN "policy" ELSE "sink"
    /\ tcc \in [consent : BOOLEAN, os : {"managed", "before 14.4", "14.4"}, display : BOOLEAN]
    /\ gate = "NotDetermined" /\ stop_flag = FALSE /\ signal = "none"
    /\ sent = 0 /\ marker = FALSE /\ events = << >>

\* policy_gate: lossless needs the Pro tier.
policy_gate ==
    /\ at = "policy"
    /\ IF args.codec # "opus" /\ args.tier # "pro" THEN Exit("fatal")
       ELSE at' = (IF args.fixture THEN "connect" ELSE "permission") /\ Quiet
    /\ UNCHANGED <<args, tcc, gate, stop_flag, signal, sent, marker>>

capture_allowed(g) == g = "Authorized"
refresh ==
    /\ at = "permission"
    /\ gate' = transition(gate, current_permission(tcc))
    /\ IF capture_allowed(gate') THEN at' = "connect" /\ Quiet ELSE Exit("fatal")
    /\ UNCHANGED <<args, tcc, stop_flag, signal, sent, marker>>

connect_sink(ok) ==
    /\ at = "connect"
    /\ IF ok THEN at' = "signals" /\ Quiet ELSE Exit("fatal")
    /\ UNCHANGED <<args, tcc, gate, stop_flag, signal, sent, marker>>

\* The handlers are installed first, then STOP is cleared.
install_signal_handlers ==
    /\ at = "signals" /\ at' = "clear" /\ Quiet
    /\ UNCHANGED <<args, tcc, gate, stop_flag, signal, sent, marker>>

ClearStop ==
    /\ at = "clear" /\ at' = "start"
    /\ stop_flag' = FALSE
    /\ signal' = IF stop_flag THEN "overwritten" ELSE signal
    /\ Quiet /\ UNCHANGED <<args, tcc, gate, sent, marker>>

PrintStart ==
    /\ at = "start" /\ at' = "format" /\ Event("start")
    /\ UNCHANGED <<args, tcc, gate, stop_flag, signal, sent, marker>>

\* on_format of the sink; a fixture and a rate other than 48 kHz are announced.
Format(ok) ==
    /\ at = "format"
    /\ IF ~ok THEN Exit("fatal")
       ELSE /\ at' = IF args.fixture THEN "streaming" ELSE "capture"
            /\ IF args.fixture \/ args.rate # 48000 THEN Event("format") ELSE Quiet
    /\ UNCHANGED <<args, tcc, gate, stop_flag, signal, sent, marker>>

\* SystemCaptureHandle::start: consent may have gone since the probe, and a
\* display is needed; the stream itself may refuse.
start_capture(ok) ==
    /\ at = "capture"
    /\ IF ok /\ Shareable(tcc) = "content" THEN at' = "streaming" /\ Quiet ELSE Exit("fatal")
    /\ UNCHANGED <<args, tcc, gate, stop_flag, signal, sent, marker>>

\* One turn of the loop: the flag first, then a block, which the sink may refuse.
\* The delivered format, announced before the first block of the screen capture,
\* ends the program in the same way when the sink refuses it; warnings are left out.
StreamBlock(ok) ==
    /\ at = "streaming" /\ ~stop_flag /\ sent < MaxBlocks
    /\ IF ok THEN sent' = sent + 1 /\ UNCHANGED at /\ Quiet
       ELSE UNCHANGED sent /\ Exit("fatal")
    /\ UNCHANGED <<args, tcc, gate, stop_flag, signal, marker>>

\* The flag, the fixture's end or the deadline ends the loop.
LoopEnds ==
    /\ at = "streaming" /\ (stop_flag \/ sent = MaxBlocks)
    /\ at' = "finish" /\ Quiet
    /\ UNCHANGED <<args, tcc, gate, stop_flag, signal, sent, marker>>

\* MUTANT: an interrupted stream ends without the marker.
finish_SkippedOnStop(ok) ==
    /\ at = "finish"
    /\ IF ok THEN marker' = ~stop_flag /\ Exit("end") ELSE UNCHANGED marker /\ Exit("fatal")
    /\ UNCHANGED <<args, tcc, gate, stop_flag, signal, sent>>

finish(ok) ==
    /\ at = "finish"
    /\ IF ok THEN marker' = TRUE /\ Exit("end") ELSE UNCHANGED marker /\ Exit("fatal")
    /\ UNCHANGED <<args, tcc, gate, stop_flag, signal, sent>>

\* on_signal; before the handler is installed the signal ends the process.
on_signal ==
    /\ signal = "none" /\ at # "exited" /\ args.mode = "stream"
    /\ IF at \in {"policy", "permission", "connect", "signals"}
       THEN signal' = "early" /\ at' = "exited" /\ UNCHANGED stop_flag
       ELSE signal' = "seen" /\ stop_flag' = TRUE /\ UNCHANGED at
    /\ Quiet /\ UNCHANGED <<args, tcc, gate, sent, marker>>

\* run_receive: the sink first, then the listener, then the wait.
build_sink(ok) ==
    /\ at = "sink"
    /\ IF args.sink = "null" \/ ok THEN at' = "listen" /\ Quiet ELSE Exit("fatal")
    /\ UNCHANGED <<args, tcc, gate, stop_flag, signal, sent, marker>>

listen(ok) ==
    /\ at = "listen"
    /\ IF ok THEN at' = "wait" /\ Event("start") ELSE Exit("fatal")
    /\ UNCHANGED <<args, tcc, gate, stop_flag, signal, sent, marker>>

\* The audio sink takes no block, so only the null sink completes.
wait(ok) ==
    /\ at = "wait"
    /\ Exit(IF ok /\ args.sink = "null" THEN "complete" ELSE "fatal")
    /\ UNCHANGED <<args, tcc, gate, stop_flag, signal, sent, marker>>

RunStream ==
    \/ policy_gate \/ refresh \/ install_signal_handlers \/ ClearStop \/ PrintStart \/ LoopEnds
    \/ \E ok \in BOOLEAN : connect_sink(ok) \/ Format(ok) \/ start_capture(ok)
                             \/ StreamBlock(ok) \/ finish(ok)
RunReceive == \E ok \in BOOLEAN : build_sink(ok) \/ listen(ok) \/ wait(ok)

StreamNext == RunStream \/ RunReceive \/ ConsentChanges \/ on_signal

StreamSpec == StreamInit /\ [][StreamNext]_streamVars

-----------------------------------------------------------------------------
(***************************************************************************)
(* Properties.                                                             *)
(***************************************************************************)

\* The monitor never settles on a wrong list by the way it polls: when what it
\* last reported differs from the devices that are there, a notification is
\* under way, the counter has moved since it was noted, or a poll is running.
\* The two exceptions are in the code: a change that the listener counts while
\* start_monitoring is between its baseline and its read of the counter, and an
\* enumeration that failed; either stays wrong until the next change.
NoChangeForgotten ==
    monitor.subscribed /\ call.at = "idle" /\ monitor.baseline # present =>
        pending > 0 \/ generation # monitor.last_generation \/ swallowed

\* What the GUI and the receiver may conclude: "end" is printed exactly when the
\* end marker was flushed, interrupted or not, and no event follows it; blocks go
\* out only between a "start" and the end, with a tier that allows the codec and,
\* from the screen, with the consent the gate saw.
StatusContract ==
    /\ ("end" \in ToSet(events)) = marker
    /\ at = "exited" /\ signal # "early"
         <=> events # << >> /\ Last(events) \in {"end", "fatal", "complete"}
    /\ sent > 0 => /\ Head(events) = "start"
                   /\ args.codec = "opus" \/ args.tier = "pro"
                   /\ args.fixture \/ gate = "Authorized"

-----------------------------------------------------------------------------
(***************************************************************************)
(* The strengthenings the proofs of the two rest on.                         *)
(***************************************************************************)
PlugTypeOK ==
    /\ pending \in Nat /\ generation \in Nat
    /\ monitor \in [subscribed : BOOLEAN, last_generation : 0..generation,
                    baseline : SUBSET Devices]
    /\ call \in [at : {"idle", "baseline", "load", "enumerate", "report"},
                 current : SUBSET Devices, generation : 0..generation, whole : BOOLEAN]
    /\ present \in SUBSET Devices

\* A call that has a whole list is told of every change since, or will be.
CallNotStale ==
    /\ call.at # "idle" => monitor.subscribed
    /\ call.at = "load" /\ call.whole /\ monitor.baseline # present =>
          pending > 0 \/ generation # call.generation
    /\ call.at = "report" /\ call.whole /\ call.current # present =>
          pending > 0 \/ generation # monitor.last_generation

PlugInv == PlugTypeOK /\ CallNotStale /\ NoChangeForgotten

Terminal == {"end", "fatal", "complete"}
Statuses == Terminal \union {"start", "format"}
Entitled == (args.codec = "opus" \/ args.tier = "pro")
Allowed  == (args.fixture \/ gate = "Authorized")

\* What each place of a driver may rely on.
DriverInv ==
    /\ events \in Seq(Statuses) /\ sent \in Nat /\ marker \in BOOLEAN
    /\ at # "exited" => signal # "early" /\ ToSet(events) \subseteq {"start", "format"} /\ ~marker
    /\ at \in {"policy", "permission", "connect", "signals", "clear", "start", "sink", "listen"} =>
          events = << >> /\ sent = 0
    /\ at \in {"permission", "connect", "signals", "clear", "start", "format", "capture",
              "streaming", "finish"} => Entitled
    /\ at \in {"connect", "signals", "clear", "start", "format", "capture",
              "streaming", "finish"} => Allowed
    /\ at \in {"format", "capture", "streaming", "finish", "wait"} =>
          events # << >> /\ Head(events) = "start"
    /\ at \in {"format", "capture", "wait"} => sent = 0
    /\ sent > 0 => events # << >>
    /\ signal = "early" => events = << >> /\ sent = 0 /\ ~marker

StreamInv == DriverInv /\ StatusContract
=============================================================================
