----------------------------- MODULE AndroidEmitter -----------------------------
(***************************************************************************)
(* The Android emitter: EmitterActivity, EmitterService and the capture       *)
(* adapter with its sink.  Everything but the capture threads runs on the     *)
(* main looper, one message at a time; service intents pass through the      *)
(* system first, and MediaProjection's callback and its own stop request are  *)
(* messages like any other.  A session is the number of the consent that     *)
(* started it.  Wording, metrics and the tier's label are left out, and so    *)
(* is what only counts and checks bytes.                                   *)
(***************************************************************************)
EXTENDS Integers, Sequences, FiniteSets, SequencesExt

CONSTANTS
    MaxConsents,  \* bound: consents the user grants
    MaxStops      \* bound: stops the user asks for

ASSUME AndroidAssumption == MaxConsents \in Nat \ {0} /\ MaxStops \in Nat

Consents == 1..MaxConsents
Unset    == 0

VARIABLES
    looper,         \* messages of the main thread: [what, service, consent]
    intents,        \* service requests the system has not delivered: the same
    dialogs,        \* consent dialogs: [open, shown]
    granted,        \* consents granted so far
    stops,          \* stops asked for so far
    service,        \* EmitterService: [instance, alive]
    handler,        \* the handler in progress: [step, then, consent], or Between
    fields,         \* of the live instance: [capture, frameSink, projection]
    registered,     \* projections that would call back: [consent, service]
    active,         \* adapters whose read loop goes on
    thread,         \* capture threads: [step, sink, service], by consent
    format,         \* sinks that were told the format
    finished,       \* sinks that were finished
    display,        \* displayStatus.state
    crashed,        \* what an uncaught exception was about, or "no"
    late,           \* history: a join gave up on a thread
    hurried,        \* history: a consent was asked for during a consent, start or stop
    mixed           \* history: a sink took a block of another session

queueVars   == <<looper, intents, dialogs, granted, stops, hurried>>
threadVars  == <<thread, mixed>>
serviceVars == <<service, handler, fields, registered, active, format, finished, late>>
androidVars == <<queueVars, threadVars, serviceVars, display, crashed>>

NoFields == [capture |-> Unset, frameSink |-> Unset, projection |-> Unset]
Between  == [step |-> "idle", then |-> "none", consent |-> Unset]
Message(what, c) == [what |-> what, service |-> service.instance, consent |-> c]

AndroidInit ==
    /\ looper = << >> /\ intents = << >> /\ dialogs = [open |-> 0, shown |-> FALSE]
    /\ granted = 0 /\ stops = 0 /\ service = [instance |-> 1, alive |-> FALSE]
    /\ handler = Between /\ fields = NoFields /\ registered = {} /\ active = {}
    /\ thread = [c \in Consents |-> [step |-> "none", sink |-> Unset, service |-> 1]]
    /\ format = {} /\ finished = {} /\ display = "IDLE" /\ crashed = "no"
    /\ late = FALSE /\ hurried = FALSE /\ mixed = FALSE

-----------------------------------------------------------------------------
(***************************************************************************)
(* The activity.                                                           *)
(***************************************************************************)
OnMain == crashed = "no" /\ handler = Between

\* The contextual button: by the displayed status it stops the session or asks for
\* consent.  It can be tapped again until the dialog covers it.
isCapturing == display = "STREAMING"

StopTapped ==
    /\ OnMain /\ ~dialogs.shown /\ isCapturing
    /\ stops < MaxStops /\ stops' = stops + 1
    /\ intents' = Append(intents, Message("stop", Unset))
    /\ UNCHANGED <<looper, dialogs, granted, hurried, threadVars, serviceVars, display, crashed>>

requestConsent ==
    /\ OnMain /\ ~dialogs.shown /\ ~isCapturing
    /\ dialogs.open < 2 /\ granted + dialogs.open < MaxConsents
    /\ dialogs' = [dialogs EXCEPT !.open = @ + 1]
    /\ hurried' = (hurried \/ dialogs.open > 0
                     \/ \E m \in ToSet(looper \o intents) : m.what \in {"result", "start", "stop"})
    /\ UNCHANGED <<looper, intents, granted, stops, threadVars, serviceVars, display, crashed>>

DialogShown ==
    /\ dialogs.open > 0 /\ ~dialogs.shown
    /\ dialogs' = [dialogs EXCEPT !.shown = TRUE]
    /\ UNCHANGED <<looper, intents, granted, stops, hurried, threadVars, serviceVars, display, crashed>>

\* The answer is a message too; a refusal shows its error on the screen only.
Answer(ok) ==
    /\ crashed = "no" /\ dialogs.shown
    /\ dialogs' = [open |-> dialogs.open - 1, shown |-> dialogs.open > 1]
    /\ granted' = IF ok THEN granted + 1 ELSE granted
    /\ looper' = IF ok THEN Append(looper, Message("result", granted + 1)) ELSE looper
    /\ UNCHANGED <<intents, stops, hurried, threadVars, serviceVars, display, crashed>>

\* The system delivers service requests in the order they were made.
DeliverIntent ==
    /\ crashed = "no" /\ intents # << >>
    /\ looper' = Append(looper, Head(intents)) /\ intents' = Tail(intents)
    /\ UNCHANGED <<dialogs, granted, stops, hurried, threadVars, serviceVars, display, crashed>>

-----------------------------------------------------------------------------
(***************************************************************************)
(* The service.                                                            *)
(***************************************************************************)
Handle(what) == OnMain /\ looper # << >> /\ Head(looper).what = what /\ looper' = Tail(looper)

onActivityResult ==
    /\ Handle("result")
    /\ intents' = Append(intents, [Head(looper) EXCEPT !.what = "start"])
    /\ UNCHANGED <<dialogs, granted, stops, hurried, threadVars, serviceVars, display, crashed>>

\* onStartCommand, ACTION_START_CAPTURE: handleStartCapture up to adapter.start, which
\* starts the reading thread.  An exception of the recorder ends the process.
Start ==
    LET c == Head(looper).consent
    IN /\ Handle("start") /\ service' = [service EXCEPT !.alive = TRUE]
       /\ \/ /\ fields.capture # Unset
             /\ UNCHANGED <<handler, fields, registered, active, thread, display, crashed>>
          \/ /\ fields.capture = Unset /\ display' = "ERROR"
             /\ UNCHANGED <<handler, fields, registered, active, thread, crashed>>
          \/ /\ fields.capture = Unset
             /\ fields' = [fields EXCEPT !.projection = c]
             /\ registered' = registered \union {[consent |-> c, service |-> service.instance]}
             /\ \/ crashed' = "recorder" /\ UNCHANGED <<handler, active, thread>>
                \/ /\ active' = active \union {c} /\ UNCHANGED crashed
                   /\ thread' = [thread EXCEPT ![c].step = "check", ![c].service = service.instance]
                   /\ handler' = [Between EXCEPT !.step = "wire"]
             /\ UNCHANGED display
    /\ UNCHANGED <<intents, dialogs, granted, stops, hurried, format, finished, late, mixed>>

\* capture and frameSink are assigned once adapter.start has returned,
WireSink ==
    /\ crashed = "no" /\ handler.step = "wire"
    /\ fields' = [fields EXCEPT !.capture = fields.projection,
                                !.frameSink = fields.projection]
    /\ handler' = [handler EXCEPT !.step = "format"]
    /\ UNCHANGED <<queueVars, threadVars, service, registered, active, format, finished,
                   late, display, crashed>>

\* and then the sink is told the format.
AnnounceFormat ==
    /\ crashed = "no" /\ handler.step = "format" /\ handler' = Between
    /\ format' = format \union {fields.frameSink}
    /\ display' = "STREAMING"
    /\ UNCHANGED <<queueVars, threadVars, service, fields, registered, active, finished,
                   late, crashed>>

\* The system takes a projection back; its callback posts the stop request.
Reclaim ==
    /\ crashed = "no"
    /\ \E r \in registered :
         /\ registered' = registered \ {r}
         /\ looper' = Append(looper, [what |-> "onStop", service |-> r.service,
                                      consent |-> r.consent])
    /\ UNCHANGED <<intents, dialogs, granted, stops, hurried, threadVars, service, handler,
                   fields, active, format, finished, late, display, crashed>>

onStop ==
    /\ OnMain /\ looper # << >> /\ Head(looper).what = "onStop"
    /\ looper' = Append(Tail(looper), [Head(looper) EXCEPT !.what = "stopCapture"])
    /\ UNCHANGED <<intents, dialogs, granted, stops, hurried, threadVars, serviceVars, display, crashed>>

\* stopCapture, for ACTION_STOP_CAPTURE (which creates a service that is not there),
\* for a reclaimed projection and in onDestroy.
stopCapture(what) ==
    /\ Handle(what) /\ (what = "stop" \/ Head(looper).service = service.instance)
    /\ service' = IF what = "stop" THEN [service EXCEPT !.alive = TRUE] ELSE service
    /\ active' = active \ {fields.capture}
    /\ handler' = [step |-> IF fields.capture = Unset THEN "finish" ELSE "join",
                   then |-> what, consent |-> Head(looper).consent]
    /\ UNCHANGED <<intents, dialogs, granted, stops, hurried, threadVars, fields, registered, format,
                   finished, late, display, crashed>>

\* An instance that was destroyed holds nothing to stop, but writes the static status;
\* the system does not destroy it twice.
StopOfDestroyed ==
    /\ \/ Handle("stopCapture") /\ display' = "IDLE"
       \/ Handle("destroy") /\ UNCHANGED display
    /\ Head(looper).service # service.instance
    /\ UNCHANGED <<intents, dialogs, granted, stops, hurried, threadVars, serviceVars, crashed>>

\* MUTANT: the adapter does not wait for its thread.
Join_Skipped ==
    /\ crashed = "no" /\ handler.step = "join"
    /\ fields' = [fields EXCEPT !.capture = Unset]
    /\ handler' = [handler EXCEPT !.step = "finish"]
    /\ UNCHANGED <<queueVars, threadVars, service, registered, active, format, finished,
                   late, display, crashed>>

\* The adapter waits half a second for its thread, then goes on without it.
Join ==
    /\ crashed = "no" /\ handler.step = "join"
    /\ late' = (late \/ thread[fields.capture].step # "exited")
    /\ fields' = [fields EXCEPT !.capture = Unset]
    /\ handler' = [handler EXCEPT !.step = "finish"]
    /\ UNCHANGED <<queueVars, threadVars, service, registered, active, format, finished,
                   display, crashed>>

\* The sink is finished and dropped, the callback unregistered, the projection stopped;
\* then ACTION_STOP_CAPTURE asks for the end of the service, and onDestroy is it.
FinishStop ==
    /\ crashed = "no" /\ handler.step = "finish" /\ handler' = Between
    /\ finished' = finished \union ({fields.frameSink} \ {Unset})
    /\ registered' = {r \in registered : r.consent # fields.projection}
    /\ fields' = NoFields
    /\ display' = "IDLE"
    /\ intents' = IF handler.then = "stop" THEN Append(intents, Message("destroy", Unset))
                                           ELSE intents
    /\ service' = IF handler.then = "destroy"
                  THEN [instance |-> service.instance + 1, alive |-> FALSE] ELSE service
    /\ UNCHANGED <<looper, dialogs, granted, stops, hurried, threadVars, active, format, late, crashed>>

-----------------------------------------------------------------------------
(***************************************************************************)
(* The capture thread of the session c, and the block's way to the sink.      *)
(***************************************************************************)
Goes(c, from, to) == thread[c].step = from /\ thread' = [thread EXCEPT ![c].step = to]
ThreadOnly == crashed = "no" /\ UNCHANGED <<queueVars, serviceVars>>

\* while (active.get()) read: a read that returns nothing is tried again.
ReadLoop(c) ==
    /\ ThreadOnly /\ UNCHANGED <<mixed, display, crashed>>
    /\ \/ Goes(c, "check", IF c \in active THEN "read" ELSE "exited")
       \/ Goes(c, "read", "block") \/ Goes(c, "read", "check")

\* The callback reads the service's frameSink,
TakeSink(c) ==
    /\ ThreadOnly /\ UNCHANGED <<mixed, display, crashed>>
    /\ thread[c].step = "block"
    /\ thread' = [thread EXCEPT ![c].step = "call", ![c].sink =
                     IF thread[c].service = service.instance THEN fields.frameSink ELSE Unset]

\* and hands it the block: the sink refuses, with an exception nobody catches, one after
\* finish() or before onFormat().
onBlock(c) ==
    LET s == thread[c].sink
    IN /\ ThreadOnly /\ UNCHANGED display
       /\ Goes(c, "call", "status")
       /\ crashed' = CASE s \in finished                           -> "after finish"
                       [] s \notin finished \union format \union {Unset} -> "before format"
                       [] s \in {Unset} \union (format \ finished)  -> "no"
       /\ mixed' = (mixed \/ (s \notin {Unset, c} /\ crashed' = "no"))

\* Every STATUS_EVERY_BLOCKS-th block refreshes the status of a session that captures:
\* any block may be that one.
refreshStatus(c) ==
    /\ ThreadOnly /\ UNCHANGED <<mixed, crashed>>
    /\ \/ Goes(c, "status", "check") /\ UNCHANGED display
       \/ /\ thread[c].service = service.instance /\ fields.capture # Unset
          /\ Goes(c, "status", "set") /\ UNCHANGED display
       \/ Goes(c, "set", "check") /\ display' = "STREAMING"

-----------------------------------------------------------------------------
AndroidNext ==
    \/ StopTapped \/ requestConsent \/ DialogShown \/ (\E ok \in BOOLEAN : Answer(ok))
    \/ onActivityResult \/ DeliverIntent \/ Start \/ WireSink \/ AnnounceFormat \/ Reclaim \/ onStop
    \/ (\E what \in {"stop", "stopCapture", "destroy"} : stopCapture(what))
    \/ StopOfDestroyed \/ Join \/ FinishStop
    \/ \E c \in Consents : ReadLoop(c) \/ TakeSink(c) \/ onBlock(c) \/ refreshStatus(c)

AndroidSpec == AndroidInit /\ [][AndroidNext]_androidVars

-----------------------------------------------------------------------------
(***************************************************************************)
(* Properties.                                                             *)
(***************************************************************************)

\* Stopping is clean, however stops, reclaimed projections and new consents follow
\* each other, if a consent is asked for when no consent, start or stop is in progress,
\* and unless a capture thread outlives the half second its stop waits for it: a sink
\* takes blocks of its own session only and none after finish(), a reclaimed projection
\* or the end of the service stops no later session, and between two messages the
\* display says STREAMING exactly while a session captures (stopCapture,
\* MediaProjectionCaptureAdapter.stop).
CleanStop ==
    ~late /\ ~hurried =>
        /\ ~mixed /\ crashed # "after finish"
        /\ OnMain => (isCapturing <=> fields.capture # Unset)
        /\ handler.then = "stopCapture" => fields.projection \in {Unset, handler.consent}
        /\ handler.then = "destroy" => fields.capture = Unset

\* The sink is told the format before the first block (FrameSink.onFormat: "Format is
\* stable and delivered once, before the first block").
FormatFirst == crashed # "before format"

-----------------------------------------------------------------------------
(***************************************************************************)
(* The strengthening the proof of CleanStop rests on.  A session starts with  *)
(* empty queues: what an earlier one left there is ahead of the start, since  *)
(* a consent is one message at a time and nothing but its start can be last.  *)
(***************************************************************************)
Messages == [what : {"result", "start", "stop", "destroy", "onStop", "stopCapture"},
             service : Nat, consent : Nat]
Only(kinds) == {m \in Messages : m.what \in kinds}

\* The session the fields belong to, or Unset.
Current == fields.projection
FieldsOf(captured, shared, c) == [capture |-> captured, frameSink |-> shared, projection |-> c]

AndroidTypeOK ==
    /\ looper \in Seq(Messages) /\ intents \in Seq(Messages)
    /\ dialogs \in [open : Nat, shown : BOOLEAN] /\ granted \in Nat /\ finished \subseteq 1..granted
    /\ service \in [instance : Nat, alive : BOOLEAN]
    /\ handler \in [step : {"idle", "wire", "format", "join", "finish"},
                    then : {"none", "stop", "stopCapture", "destroy"}, consent : Nat]
    /\ fields \in [capture : Nat, frameSink : Nat, projection : Nat]
    /\ registered \subseteq [consent : Nat, service : Nat]
    /\ thread \in [Consents -> [step : {"none", "check", "read", "block", "call", "status",
                                        "set", "exited"}, sink : Nat, service : Nat]]

\* What the fields hold in the middle of a handler, and between two.
FieldsMatch ==
    /\ Current \in 0..granted \ finished
    /\ handler.step \in {"idle", "wire", "format"} => handler.then = "none"
    /\ handler.step = "idle" => handler = Between
    /\ handler.step = "idle" /\ crashed = "no" => fields = FieldsOf(Current, Current, Current)
    /\ handler.step = "wire" => Current # Unset /\ fields = FieldsOf(Unset, Unset, Current)
    /\ handler.step \in {"format", "join"} =>
          Current # Unset /\ fields = FieldsOf(Current, Current, Current)
    /\ handler.step = "finish" => fields = FieldsOf(Unset, Current, Current)

\* While a session is on, everything queued, registered or handled is about it.
OwnMessages ==
    Only({"stop"}) \union {m \in Only({"onStop", "stopCapture"}) :
                              m.consent = Current /\ m.service = service.instance}

SessionAlone ==
    IF Current = Unset THEN registered = {}
    ELSE /\ dialogs.open = 0 /\ looper \in Seq(OwnMessages) /\ intents \in Seq(Only({"stop"}))
         /\ registered \subseteq {[consent |-> Current, service |-> service.instance]}
         /\ handler.then # "destroy"
         /\ handler.then = "stopCapture" => handler.consent = Current

\* Its thread is the only one that runs, and not past the stop that waited for it.
ThreadAlone ==
    \A k \in Consents : thread[k].step \notin {"none", "exited"} =>
        /\ k = Current /\ thread[k].service = service.instance /\ handler.step # "finish"
        /\ thread[k].step = "call" => thread[k].sink \in {Unset, k}

\* Where a consent is on its way: nowhere; in the dialog; a result, behind every onStop;
\* a start, behind everything.
Leftovers == {"stopCapture", "destroy"}
NoConsent ==
    /\ dialogs.open = 0
    /\ looper \in Seq(Only(Leftovers \union {"stop", "onStop"}))
    /\ intents \in Seq(Only({"stop", "destroy"}))

Asked ==
    /\ dialogs.open = 1
    /\ looper \in Seq(Only(Leftovers \union {"onStop"})) /\ intents \in Seq(Only({"destroy"}))

ResultAmong(q, c) ==
    \E j \in DOMAIN q :
        /\ q[j].what = "result" /\ q[j].consent = c
        /\ \A i \in DOMAIN q : \/ i = j
                               \/ q[i].what \in Leftovers
                               \/ q[i].what = "onStop" /\ i < j

Resulted ==
    dialogs.open = 0 /\ intents \in Seq(Only({"destroy"})) /\ ResultAmong(looper, granted)

StartIsLast(q, c, kinds) ==
    /\ q # << >> /\ q[Len(q)].what = "start" /\ q[Len(q)].consent = c
    /\ \A i \in 1..(Len(q) - 1) : q[i].what \in kinds

Starting ==
    /\ dialogs.open = 0
    /\ \/ looper \in Seq(Only(Leftovers)) /\ StartIsLast(intents, granted, {"destroy"})
       \/ StartIsLast(looper, granted, Leftovers) /\ intents = << >>

OneConsent ==
    \/ NoConsent
    \/ /\ Asked \/ (granted \in (1..granted) \ finished /\ (Resulted \/ Starting))
       /\ Current = Unset /\ handler.then # "stop"

DialogOpen == dialogs.shown => dialogs.open > 0
Unharmed   == mixed = FALSE /\ crashed # "after finish"
ShowsTruth == OnMain => (isCapturing <=> fields.capture # Unset)

Tidy ==
    /\ AndroidTypeOK /\ FieldsMatch /\ SessionAlone /\ ThreadAlone /\ OneConsent
    /\ DialogOpen /\ Unharmed /\ ShowsTruth

AndroidInv == late \in BOOLEAN /\ hurried \in BOOLEAN /\ mixed \in BOOLEAN /\ (late \/ hurried \/ Tidy)
=============================================================================
