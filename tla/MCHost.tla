--------------------------------- MODULE MCHost ---------------------------------
(***************************************************************************)
(* What surrounds the media path on one host, in one run: the session state   *)
(* machine, the bridge engine behind the mobile shells, the real-time guard   *)
(* and watchdog, the desktop shells with the WASAPI reader, the macOS         *)
(* program, and the two phone applications.  They share no state: a behaviour *)
(* is one of its subject, and the other parts keep their initial states.      *)
(***************************************************************************)
EXTENDS Session, BridgeEngine, RtWatch, Shells, MacHost, AndroidEmitter, PhoneReceiver

VARIABLE subject

hostVars == <<sessionVars, bridgeVars, rtVars, shellVars, plugVars, streamVars,
              androidVars, phoneVars>>

Formats    == {[valid |-> 16, container |-> 16], [valid |-> 24, container |-> 32],
               [valid |-> 0, container |-> 32], [valid |-> 20, container |-> 32]}
ClockSets  == {-3, 3}

TheArgs == parse_receive_args("")
TheTcc  == [consent |-> FALSE, os |-> "14.4", display |-> FALSE]

HostInit ==
    /\ subject \in {"session", "bridge", "guard", "watchdog", "shell", "loopback",
                    "hotplug", "driver", "android", "phone"}
    /\ SessionInit /\ BridgeInit /\ RtInit /\ ShellInit /\ PlugInit /\ StreamInit
    /\ AndroidInit /\ PhoneInit
    /\ subject # "shell" => shell = "win" /\ ~lossless
    /\ subject # "hotplug" => present = {}
    /\ subject # "driver" => args = TheArgs /\ tcc = TheTcc
    /\ subject # "phone" => route = "none"

\* The step A of one part, whose variables are own.
HostNext ==
    /\ UNCHANGED subject
    /\ \/ /\ subject = "session" /\ SessionNext
          /\ UNCHANGED <<bridgeVars, rtVars, shellVars, plugVars, streamVars,
                         androidVars, phoneVars>>
       \/ /\ subject = "bridge" /\ BridgeNext
          /\ UNCHANGED <<sessionVars, rtVars, shellVars, plugVars, streamVars,
                         androidVars, phoneVars>>
       \/ /\ \/ subject = "guard" /\ GuardNext
             \/ subject = "watchdog" /\ WatchNext
          /\ UNCHANGED <<sessionVars, bridgeVars, shellVars, plugVars, streamVars,
                         androidVars, phoneVars>>
       \/ /\ \/ subject = "shell" /\ AppNext
             \/ subject = "loopback" /\ LoopNext
          /\ UNCHANGED <<sessionVars, bridgeVars, rtVars, plugVars, streamVars,
                         androidVars, phoneVars>>
       \/ /\ subject = "hotplug" /\ PlugNext
          /\ UNCHANGED <<sessionVars, bridgeVars, rtVars, shellVars, streamVars,
                         androidVars, phoneVars>>
       \/ /\ subject = "driver" /\ StreamNext
          /\ UNCHANGED <<sessionVars, bridgeVars, rtVars, shellVars, plugVars,
                         androidVars, phoneVars>>
       \/ /\ subject = "android" /\ AndroidNext
          /\ UNCHANGED <<sessionVars, bridgeVars, rtVars, shellVars, plugVars, streamVars,
                         phoneVars>>
       \/ /\ subject = "phone" /\ PhoneNext
          /\ UNCHANGED <<sessionVars, bridgeVars, rtVars, shellVars, plugVars, streamVars,
                         androidVars>>

\* Fairness is that of SessionFairSpec, BridgeFairSpec and RtWatch: the clock
\* advances, expired timers are handed over, and the bridge's and the watchdog's
\* threads run.
Of(part, A) == subject = part /\ A
HostSpec ==
    /\ HostInit /\ [][HostNext]_<<subject, hostVars>>
    /\ WF_sessionVars(Of("session", Tick))
    /\ \A label \in Labels : WF_sessionVars(Of("session", Expire(label)))
    /\ WF_sessionVars(Of("session", ControlTimeout \/ TimeoutIgnored("control_timeout")))
    /\ WF_sessionVars(Of("session", ReconnectTimeout \/ TimeoutIgnored("reconnect")))
    /\ WF_sessionVars(Of("session", TimeoutIgnored("pairing")))
    /\ WF_bridgeVars(Of("bridge", Execute)) /\ WF_bridgeVars(Of("bridge", SetStatus))
    /\ WF_bridgeVars(Of("bridge", Reply))
    /\ WF_rtVars(Of("watchdog", Elapse)) /\ WF_rtVars(Of("watchdog", WatchRead))
    /\ WF_rtVars(Of("watchdog", WatchCheck))
=============================================================================
