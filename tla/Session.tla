------------------------------ MODULE Session ------------------------------
(***************************************************************************)
(* The session state machine of crates/wdr_session/src/lib.rs: one action   *)
(* per arm of Session::advance (an event in a state with no arm changes     *)
(* nothing), with the state change and the timer effects it returns.        *)
(*                                                                         *)
(* The caller is not in the repository: it hands events to advance one at a *)
(* time with the current time and applies the effects.  Here its clock ticks*)
(* and its timers expire at their deadlines; an expired timer's event waits *)
(* in the caller's queue, so that other events may be handled before it,    *)
(* and cancelling or restarting a timer does not take it back.              *)
(*                                                                         *)
(* Times are relative: `age` is now_ms - last_activity_ms, a timer holds    *)
(* the ticks left.                                                         *)
(***************************************************************************)
EXTENDS Integers

CONSTANTS
    CONTROL_RESPONSE_TIMEOUT, RECONNECT_CAP, IDLE_EXPIRY, INITIAL_RECONNECT, PAIRING_WINDOW

ASSUME SessionAssumption ==
    /\ {CONTROL_RESPONSE_TIMEOUT, IDLE_EXPIRY, PAIRING_WINDOW} \subseteq Nat \ {0}
    /\ INITIAL_RECONNECT \in Nat \ {0} /\ RECONNECT_CAP \in Nat
    /\ INITIAL_RECONNECT <= RECONNECT_CAP

VARIABLES
    state,          \* SessionState (a pairing phase is a state of its own)
    reason,         \* of Terminated and Error
    mode,           \* "None" | "lossy" | "lossless", set by the caller
    age,            \* now_ms - last_activity_ms, up to Horizon
    attempt,        \* attempt
    lastReconnect,  \* last_reconnect_ms
    timers,         \* caller: ticks left of each running timer, or Off
    queued,         \* caller: labels of expired timers not yet handed over
    dwell           \* history: ticks since the state was entered, up to Horizon

clocks == <<age, dwell>>
caller == <<timers, queued>>
sessionVars == <<state, reason, mode, attempt, lastReconnect, clocks, caller>>

Off == -1
Labels == {"pairing", "control_timeout", "reconnect"}
\* Ages at least as long as every limit are not told apart.
Horizon == IF CONTROL_RESPONSE_TIMEOUT > IDLE_EXPIRY THEN CONTROL_RESPONSE_TIMEOUT ELSE IDLE_EXPIRY
UpTo(limit, n) == IF n > limit THEN limit ELSE n

SessionInit ==
    /\ state = "Idle" /\ reason = "None" /\ mode = "None"
    /\ age = 0 /\ attempt = 0 /\ lastReconnect = 0
    /\ timers = [l \in Labels |-> Off] /\ queued = {}
    /\ dwell = 0

\* One and a half times the previous delay, in integer arithmetic.
Raised(prev) == (prev * 3) \div 2

next_backoff(prev) == IF Raised(prev) > RECONNECT_CAP THEN RECONNECT_CAP ELSE Raised(prev)

-----------------------------------------------------------------------------
\* MUTANT: the attempt counter of an earlier recovery is kept.
transition_to_KeepsAttempt(next) ==
    /\ state' = next
    /\ age' = 0 /\ dwell' = 0
    /\ lastReconnect' = IF next = "Recovering" THEN INITIAL_RECONNECT ELSE lastReconnect
    /\ UNCHANGED <<mode, attempt, queued>>

\* transition_to: the new state with its time of entry; Recovering starts the
\* backoff afresh.
transition_to(next) ==
    /\ state' = next
    /\ age' = 0 /\ dwell' = 0
    /\ attempt' = IF next = "Recovering" THEN 1 ELSE attempt
    /\ lastReconnect' = IF next = "Recovering" THEN INITIAL_RECONNECT ELSE lastReconnect
    /\ UNCHANGED <<mode, queued>>

\* The caller applies StartTimer.
StartTimer(label, ms) == timers' = [timers EXCEPT ![label] = ms]

Enter(next) == transition_to(next) /\ UNCHANGED <<reason, timers>>
EnterWithTimer(next, label, ms) ==
    transition_to(next) /\ StartTimer(label, ms) /\ UNCHANGED reason
End(next, why) == transition_to(next) /\ reason' = why /\ UNCHANGED timers

Negotiate == EnterWithTimer("Negotiating", "control_timeout", CONTROL_RESPONSE_TIMEOUT)

-----------------------------------------------------------------------------
(***************************************************************************)
(* The arms of advance                                                     *)
(***************************************************************************)
Discovered       == state = "Idle" /\ Enter("Discover")
ConnectRequested == state = "Discover" /\ Enter("Connect")

PairingStarted ==
    state = "Connect" /\ EnterWithTimer("AwaitingSas", "pairing", PAIRING_WINDOW)

SasRejected == state = "AwaitingSas" /\ End("Error", "SAS rejected")

PairingConfirmed ==
    \/ state = "AwaitingSas" /\ Enter("AwaitingConfirm")
    \/ state = "AwaitingConfirm" /\ Negotiate

FingerprintMismatch ==
    state \in {"AwaitingSas", "AwaitingConfirm"} /\ End("Error", "fingerprint mismatch")

NegotiationOk       == state = "Negotiating" /\ Enter("Streaming")
NegotiationMismatch == state = "Negotiating" /\ End("Error", "capability mismatch")

StreamPause  == state = "Streaming" /\ Enter("Paused")
StreamResume == state = "Paused" /\ Enter("Streaming")

ModeChangeRequested ==
    state = "Streaming" /\ mode = "lossless" /\ Enter("Renegotiating")

\* CancelTimer "all".
SleepEntered ==
    /\ state = "Streaming"
    /\ transition_to("Paused")
    /\ timers' = [l \in Labels |-> Off]
    /\ UNCHANGED reason

\* MUTANT: negotiation is resumed without its response timer.
WakeEntered_NoTimer == state = "Paused" /\ Enter("Negotiating")

WakeEntered == state = "Paused" /\ Negotiate

LinkLost ==
    state = "Streaming" /\ EnterWithTimer("Recovering", "reconnect", INITIAL_RECONNECT)

LinkBack == state = "Recovering" /\ Negotiate

RecoveryExhausted == state = "Recovering" /\ End("Terminated", "recovery budget exceeded")

\* The keepalive timer is the caller's own: advance never starts it.
KeepaliveTimeout ==
    state = "Streaming" /\ age >= IDLE_EXPIRY /\ End("Terminated", "session idle")

-----------------------------------------------------------------------------
(***************************************************************************)
(* Timeout events: the caller hands over an expired timer                  *)
(***************************************************************************)
Handed(label) == label \in queued /\ queued' = queued \ {label}

ControlTimeout ==
    /\ Handed("control_timeout")
    /\ state = "Negotiating"
    /\ age >= CONTROL_RESPONSE_TIMEOUT
    /\ state' = "Error" /\ reason' = "control timeout"
    /\ age' = 0 /\ dwell' = 0
    /\ UNCHANGED <<mode, attempt, lastReconnect, timers>>

\* A further attempt after a longer delay.
Retry(delay) ==
    /\ attempt' = attempt + 1
    /\ lastReconnect' = delay
    /\ StartTimer("reconnect", delay)
    /\ UNCHANGED <<state, reason, mode, age, dwell>>

\* At the cap the event is answered with Ok and no timer is started.
ReconnectTimeout ==
    /\ Handed("reconnect")
    /\ state = "Recovering"
    /\ \/ Raised(lastReconnect) <= RECONNECT_CAP /\ Retry(Raised(lastReconnect))
       \/ /\ Raised(lastReconnect) > RECONNECT_CAP /\ lastReconnect < RECONNECT_CAP
          /\ Retry(RECONNECT_CAP)
       \/ /\ lastReconnect >= RECONNECT_CAP
          /\ UNCHANGED <<state, reason, mode, attempt, lastReconnect, clocks, timers>>

\* A timeout no arm takes: too early, in another state, or the pairing timer.
TimeoutIgnored(label) ==
    /\ Handed(label)
    /\ ~(label = "control_timeout" /\ state = "Negotiating" /\ age >= CONTROL_RESPONSE_TIMEOUT)
    /\ ~(label = "reconnect" /\ state = "Recovering")
    /\ UNCHANGED <<state, reason, mode, attempt, lastReconnect, clocks, timers>>

-----------------------------------------------------------------------------
(***************************************************************************)
(* The caller's clock, timers and settings                                 *)
(***************************************************************************)

\* Time passes up to the next deadline.
Tick ==
    /\ \A l \in Labels : timers[l] # 0
    /\ timers' = [l \in Labels |-> IF timers[l] = Off THEN Off ELSE timers[l] - 1]
    /\ age' = UpTo(Horizon, age + 1)
    /\ dwell' = UpTo(Horizon, dwell + 1)
    /\ UNCHANGED <<state, reason, mode, attempt, lastReconnect, queued>>

Expire(label) ==
    /\ timers[label] = 0
    /\ timers' = [timers EXCEPT ![label] = Off]
    /\ queued' = queued \cup {label}
    /\ UNCHANGED <<state, reason, mode, attempt, lastReconnect, clocks>>

SetMode ==
    /\ mode = "None" /\ state = "Idle"
    /\ mode' \in {"lossy", "lossless"}
    /\ UNCHANGED <<state, reason, attempt, lastReconnect, clocks, caller>>

-----------------------------------------------------------------------------
Negotiation == NegotiationOk \/ NegotiationMismatch
Request ==
    \/ Discovered \/ ConnectRequested \/ PairingStarted \/ SasRejected \/ PairingConfirmed
    \/ FingerprintMismatch \/ Negotiation \/ StreamPause \/ StreamResume \/ ModeChangeRequested
    \/ SleepEntered \/ WakeEntered \/ LinkLost \/ LinkBack \/ RecoveryExhausted
Timeout ==
    \/ ControlTimeout \/ ReconnectTimeout
    \/ \E label \in Labels : TimeoutIgnored(label)
Advance == Request \/ Timeout \/ KeepaliveTimeout
Caller == Tick \/ SetMode \/ \E label \in Labels : Expire(label)

SessionNext == Advance \/ Caller

SessionSpec == SessionInit /\ [][SessionNext]_sessionVars

\* The caller's clock advances, its timers expire and their events are handed
\* over.  Nothing is assumed of the user, the peer or the link.
SessionFairSpec ==
    /\ SessionSpec
    /\ WF_sessionVars(Tick)
    /\ \A label \in Labels : WF_sessionVars(Expire(label))
    /\ WF_sessionVars(ControlTimeout \/ TimeoutIgnored("control_timeout"))
    /\ WF_sessionVars(ReconnectTimeout \/ TimeoutIgnored("reconnect"))
    /\ WF_sessionVars(TimeoutIgnored("pairing"))

-----------------------------------------------------------------------------
(***************************************************************************)
(* Properties                                                              *)
(***************************************************************************)

\* The delay of the n-th attempt, as next_backoff gives it.
Backoff[n \in Nat \ {0}] == IF n = 1 THEN INITIAL_RECONNECT ELSE next_backoff(Backoff[n - 1])

\* "reconnect backoff x1.5, max 30 s": in every recovery, also one that follows
\* another, the delay is the one next_backoff gives for the attempt.
BackoffSchedule == state = "Recovering" => attempt >= 1 /\ lastReconnect = Backoff[attempt]

\* Every negotiation ends, if only by its timeout, and a recovery goes on to the
\* capped delay unless it ends before; but no wait ends early: a negotiation is
\* given its whole response time, whatever timers of earlier negotiations are
\* still on their way, and a stream its whole idle time.
WaitsEnd ==
    /\ (state = "Negotiating") ~> (state # "Negotiating")
    /\ (state = "Recovering") ~> (state # "Recovering" \/ lastReconnect = RECONNECT_CAP)
    /\ [][/\ (state = "Negotiating" /\ reason' = "control timeout")
                => dwell >= CONTROL_RESPONSE_TIMEOUT
          /\ (state = "Streaming" /\ reason' = "session idle")
                => dwell >= IDLE_EXPIRY]_sessionVars
=============================================================================
