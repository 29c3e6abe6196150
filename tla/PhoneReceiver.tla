----------------------------- MODULE PhoneReceiver -----------------------------
(***************************************************************************)
(* The iOS receiver: ReceiverModel with its policy gate, fidelity ladder,     *)
(* renderer and output route.  Everything runs on the main actor; a route     *)
(* change of the system is observed there, and its classified event reaches   *)
(* the model one turn of the main queue later, when the route may already be  *)
(* another.  A route is the kind of its active output.  What the health panel *)
(* shows of the demo (loss, fill, latency) is left out.                     *)
(***************************************************************************)
EXTENDS Integers, Sequences

CONSTANT MaxRouteChanges   \* bound: route changes of the system

ASSUME PhoneAssumption == MaxRouteChanges \in Nat

Routes == {"none", "usb", "other"}

VARIABLES
    tier,          \* PolicyGate.tier: "free" or "pro"
    streaming_lossless,
    confirming,    \* requiresDowngradeConfirmation
    session,       \* [started, explained]
    shown,         \* status.state
    step,          \* status.fidelity.step
    renderer,      \* Renderer.state: [is, usb]
    rendererState, \* the model's copy of it
    route,         \* the system's route
    observed,      \* OutputRouter.lastSnapshot
    routeSnapshot, \* the model's
    notified,      \* route notifications not yet observed
    routeEvents,   \* classified events not yet handled
    changed        \* route changes so far

gateVars   == <<tier, streaming_lossless, confirming>>
statusVars == <<session, shown, step>>
playVars   == <<renderer, rendererState>>
routeVars  == <<route, observed, routeSnapshot, notified, routeEvents, changed>>
phoneVars  == <<gateVars, statusVars, playVars, routeVars>>

State(is) == [is |-> is, usb |-> FALSE]
Running(usb) == [is |-> "running", usb |-> usb]

PhoneInit ==
    /\ tier = "free" /\ streaming_lossless = FALSE /\ confirming = FALSE
    /\ session = [started |-> FALSE, explained |-> FALSE] /\ shown = "idle"
    /\ step = "lossy"
    /\ renderer = State("stopped") /\ rendererState = State("stopped")
    /\ route \in Routes /\ observed = "none" /\ routeSnapshot = route
    /\ notified = 0 /\ routeEvents = << >> /\ changed = 0

-----------------------------------------------------------------------------
(***************************************************************************)
(* Fidelity and tier.                                                      *)
(***************************************************************************)

\* FidelityStatus.transition without a token, which nothing here holds: the pairs it
\* accepts; anything else is rejected and changes nothing.
Transitions ==
    {<<"lossy", "unverified">>, <<"lossy", "converted">>, <<"unverified", "converted">>,
     <<"unverified", "unverified">>, <<"verified", "unverified">>}

ladder(from, to) == IF <<from, to>> \in Transitions THEN to ELSE from

transportsLossless(s) == s # "lossy"

\* syncFidelityFromTier, after the tier became t.
syncFidelityFromTier(t) ==
    /\ step' = IF t = "free" THEN ladder(step, "lossy") ELSE step
    /\ streaming_lossless' = (t # "free" /\ transportsLossless(step))

\* PolicyGate.toggle: dropping the tier of a lossless session asks first.
RequiresConfirm(t) == t = "free" /\ tier = "pro" /\ streaming_lossless

toggleTier(t) ==
    /\ IF RequiresConfirm(t)
       THEN confirming' = TRUE /\ UNCHANGED <<tier, step, streaming_lossless>>
       ELSE tier' = t /\ syncFidelityFromTier(t) /\ UNCHANGED confirming
    /\ UNCHANGED <<session, shown, playVars, routeVars>>

confirmDowngradeToFree ==
    /\ confirming /\ confirming' = FALSE
    /\ tier' = "free" /\ syncFidelityFromTier("free")
    /\ UNCHANGED <<session, shown, playVars, routeVars>>

dismissDowngradeConfirmation ==
    /\ confirming /\ confirming' = FALSE
    /\ UNCHANGED <<tier, streaming_lossless, statusVars, playVars, routeVars>>

-----------------------------------------------------------------------------
(***************************************************************************)
(* The session.                                                            *)
(***************************************************************************)

\* The start button only opens the explanation,
triggerPermissionFlow ==
    /\ ~session.started /\ session' = [started |-> TRUE, explained |-> FALSE]
    /\ UNCHANGED <<shown, step, gateVars, playVars, routeVars>>

\* which is declined,
NotNow ==
    /\ session.started /\ ~session.explained
    /\ session' = [started |-> FALSE, explained |-> TRUE]
    /\ UNCHANGED <<shown, step, gateVars, playVars, routeVars>>

\* or goes on to startSession.  The audio session or the engine may refuse to start.
Render(ok) ==
    renderer' = IF renderer.is \notin {"stopped", "failed"} THEN renderer
                ELSE IF ok THEN Running(routeSnapshot = "usb") ELSE State("failed")

startSession(ok) ==
    /\ session.started /\ ~session.explained
    /\ session' = [session EXCEPT !.explained = TRUE]
    /\ step' = IF tier = "pro" THEN "unverified" ELSE "lossy"
    /\ streaming_lossless' = (tier = "pro")
    /\ Render(ok)
    /\ IF ok /\ renderer.is \in {"stopped", "failed"}
       THEN shown' = "streaming" /\ rendererState' = renderer'
       ELSE shown' = "error" /\ rendererState' = State("failed")
    /\ UNCHANGED <<tier, confirming, routeVars>>

\* Its button is there while the session is started; the explanation can be swiped away.
stopSession ==
    /\ session.started /\ session' = [session EXCEPT !.started = FALSE]
    /\ shown' = "idle"
    /\ renderer' = State("stopped") /\ rendererState' = State("stopped")
    /\ UNCHANGED <<step, gateVars, routeVars>>

-----------------------------------------------------------------------------
(***************************************************************************)
(* The output route.                                                       *)
(***************************************************************************)
RouteChanges(to) ==
    /\ changed < MaxRouteChanges /\ changed' = changed + 1
    /\ to # route /\ route' = to /\ notified' = notified + 1
    /\ UNCHANGED <<observed, routeSnapshot, routeEvents, gateVars, statusVars, playVars>>

\* classifyChange
classifyChange(old, new) ==
    CASE new = "none"                               -> "noOutput"
      [] new = "usb" /\ old # "usb"                 -> "usbAudioAttached"
      [] new = "other" /\ old = "usb"               -> "usbAudioDetached"
      [] new # "none" /\ (old = new \/ (new = "other" /\ old = "none")) -> "routeChanged"

Observe ==
    /\ notified > 0 /\ notified' = notified - 1
    /\ routeEvents' = Append(routeEvents, classifyChange(observed, route))
    /\ observed' = route
    /\ UNCHANGED <<route, routeSnapshot, changed, gateVars, statusVars, playVars>>

\* MUTANT: only the DAC resumes.
Follow_DacOnly(r) ==
    renderer' = CASE r = "none" /\ renderer.is = "running" -> State("paused")
                  [] r = "usb" /\ renderer.is = "paused"   -> Running(TRUE)
                  [] OTHER                                 -> renderer

\* USBAudioPlayer.handle on the decision for the route r: pause without an output, and
\* resume whatever output there is again.
Follow(r) ==
    renderer' = CASE r = "none" /\ renderer.is = "running" -> State("paused")
                  [] r # "none" /\ renderer.is = "paused"  -> Running(r = "usb")
                  [] OTHER                                 -> renderer

\* The event is handled by the route of now.
handleRouteEvent ==
    /\ routeEvents # << >> /\ routeEvents' = Tail(routeEvents)
    /\ routeSnapshot' = route
    /\ Follow(route) /\ rendererState' = renderer'
    /\ UNCHANGED <<route, observed, notified, changed, gateVars, statusVars>>

\* The screen appears again.
refreshRouteLabel ==
    /\ routeSnapshot' = route
    /\ UNCHANGED <<route, observed, notified, routeEvents, changed, gateVars, statusVars, playVars>>

-----------------------------------------------------------------------------
PhoneNext ==
    \/ (\E t \in {"free", "pro"} : toggleTier(t)) \/ confirmDowngradeToFree
    \/ dismissDowngradeConfirmation \/ triggerPermissionFlow \/ NotNow
    \/ (\E ok \in BOOLEAN : startSession(ok)) \/ stopSession
    \/ (\E r \in Routes : RouteChanges(r)) \/ Observe \/ handleRouteEvent \/ refreshRouteLabel

PhoneSpec == PhoneInit /\ [][PhoneNext]_phoneVars

-----------------------------------------------------------------------------
(***************************************************************************)
(* Properties.                                                             *)
(***************************************************************************)

\* Sound returns with the route: once every change that was notified has been observed
\* and handled, a renderer is paused only for want of an output, whichever kind of
\* output came back, though notifications lag behind the route, are observed late and
\* are handled later still (OutputRouter, handleRouteEvent).
RouteFollowed ==
    notified = 0 /\ routeEvents = << >> /\ renderer.is = "paused" => route = "none"

RouteEvents == {"noOutput", "usbAudioAttached", "usbAudioDetached", "routeChanged"}

\* The strengthening its proof rests on: a notification under way is counted, and
\* a classified one is queued.
PhoneInv ==
    /\ notified \in Nat /\ routeEvents \in Seq(RouteEvents)
    /\ route \in Routes /\ observed \in Routes
    /\ RouteFollowed
=============================================================================
