-------------------------------- MODULE RtWatch --------------------------------
(***************************************************************************)
(* Two ways a real-time callback that misbehaves ends the process instead of  *)
(* being heard: the allocation guard (wdr_rt/src/guard.rs) and the stall      *)
(* watchdog (watchdog.rs).  Both abort.  The watchdog compares two reads of a *)
(* wall clock that may be set, done by threads that may be delayed between    *)
(* their steps; times are kept as distances from the clock's present value.   *)
(***************************************************************************)
EXTENDS Integers, FiniteSets

CONSTANTS
    RtThreads,   \* threads that enter guards and allocate
    DepthMax,    \* largest count RT_DEPTH, a u8, holds: 255 in the code
    Kickers,     \* holders of a clone of the StallDetector that call kick
    MaxStall,    \* max_stall_ms
    MaxDelay,    \* bound: from the watchdog's read of the clock to its check
    ClockSteps,  \* amounts by which the wall clock may be set
    Farthest,    \* the largest of them
    MaxSteps     \* bound: how often it is

ASSUME RtAssumption ==
    /\ DepthMax \in Nat \ {0} /\ MaxStall \in Nat /\ MaxDelay \in Nat
    /\ Farthest \in Nat /\ ClockSteps \subseteq (-Farthest)..Farthest /\ MaxSteps \in Nat
    /\ IsFiniteSet(RtThreads) /\ IsFiniteSet(Kickers)

VARIABLES
    depth,      \* RT_DEPTH of each thread
    live,       \* history: guards that live, by the thread that entered them
    strayed,    \* history: a guard was dropped on another thread
    allocated,  \* history: whether the latest allocation was let through, and
                \* how many guards lived on its thread
    last,       \* last_progress, as the clock's distance from it
    kick_now,   \* what a kicker read from the clock and has not stored, or Idle
    watch_now,  \* the same of the watchdog
    silence,    \* true time since the latest of the stored kicks read the clock
    kick_age,   \* true time since each kicker read the clock
    steps,      \* how often the clock was set
    skewed,     \* history: it was once set forward, or set during a check
    overtaken,  \* history: a kick stored a time older than the one it replaced
    hung,       \* the callback makes no more progress
    aborted     \* "no", "allocation" or "stall"

guardVars == <<depth, live, strayed, allocated>>
watchVars == <<last, kick_now, watch_now, silence, kick_age, steps, skewed,
               overtaken, hung>>
rtVars == <<guardVars, watchVars, aborted>>

\* Distances of Far and more are alike: every check that can still come aborts.
Far == MaxStall + MaxDelay + MaxSteps * Farthest + 1
Capped(d) == IF d > Far THEN Far ELSE d
Idle == Far + 1

\* A guard nests: RT_DEPTH counts the guards of one thread.  StallDetector::new
\* counts its own creation as progress.
RtInit ==
    /\ depth = [t \in RtThreads |-> 0] /\ live = depth /\ strayed = FALSE
    /\ allocated = [passed |-> TRUE, guards |-> 0]
    /\ last = 0 /\ silence = 0 /\ steps = 0
    /\ kick_now = [k \in Kickers |-> Idle] /\ kick_age = [k \in Kickers |-> 0]
    /\ watch_now = Idle
    /\ skewed = FALSE /\ overtaken = FALSE /\ hung = FALSE
    /\ aborted = "no"

-----------------------------------------------------------------------------
(***************************************************************************)
(* The guard.                                                              *)
(***************************************************************************)

\* RtGuard::enter.  The code leaves the count's overflow to the build; here as
\* many guards nest as the count holds.
enter(t) ==
    /\ aborted = "no" /\ depth[t] < DepthMax
    /\ depth' = [depth EXCEPT ![t] = @ + 1]
    /\ live' = [live EXCEPT ![t] = @ + 1]
    /\ UNCHANGED <<strayed, allocated, watchVars, aborted>>

\* MUTANT: the inner guard leaves the callback for the outer one.
drop_Clears(t, here) ==
    /\ aborted = "no" /\ live[t] > 0
    /\ depth' = [depth EXCEPT ![here] = 0]
    /\ live' = [live EXCEPT ![t] = @ - 1]
    /\ strayed' = (strayed \/ here # t)
    /\ UNCHANGED <<allocated, watchVars, aborted>>

\* Drop for RtGuard, of a guard that thread t entered.  The count that goes down
\* is that of the thread it runs on: the type lets a guard move to another.
drop(t, here) ==
    /\ aborted = "no" /\ live[t] > 0
    /\ depth' = [depth EXCEPT ![here] = IF @ = 0 THEN 0 ELSE @ - 1]
    /\ live' = [live EXCEPT ![t] = @ - 1]
    /\ strayed' = (strayed \/ here # t)
    /\ UNCHANGED <<allocated, watchVars, aborted>>

enforce_no_rt_allocation(t) == depth[t] = 0

\* alloc, alloc_zeroed and realloc.
alloc(t) ==
    /\ aborted = "no"
    /\ allocated' = [passed |-> enforce_no_rt_allocation(t), guards |-> live[t]]
    /\ aborted' = IF enforce_no_rt_allocation(t) THEN "no" ELSE "allocation"
    /\ UNCHANGED <<depth, live, strayed, watchVars>>

GuardNext ==
    \E t \in RtThreads : enter(t) \/ (\E here \in RtThreads : drop(t, here)) \/ alloc(t)

-----------------------------------------------------------------------------
(***************************************************************************)
(* The watchdog.                                                           *)
(***************************************************************************)

\* Every distance grows by the same amount when the clock does.
Moved(held, by) == IF held = Idle THEN Idle ELSE Capped(held + by)

\* kick reads the clock ...
KickRead(k) ==
    /\ aborted = "no" /\ ~hung /\ kick_now[k] = Idle
    /\ kick_now' = [kick_now EXCEPT ![k] = 0]
    /\ kick_age' = [kick_age EXCEPT ![k] = 0]
    /\ UNCHANGED <<guardVars, last, watch_now, silence, steps, skewed, overtaken, hung, aborted>>

\* ... and stores what it read, whatever another clone stored in between.
KickStore(k) ==
    /\ aborted = "no" /\ kick_now[k] # Idle
    /\ last' = kick_now[k]
    /\ silence' = IF kick_age[k] < silence THEN kick_age[k] ELSE silence
    /\ overtaken' = (overtaken \/ kick_age[k] > silence)
    /\ kick_now' = [kick_now EXCEPT ![k] = Idle]
    /\ kick_age' = [kick_age EXCEPT ![k] = 0]
    /\ UNCHANGED <<guardVars, watch_now, steps, skewed, hung, aborted>>

\* stall_ms reads the clock first ...
WatchRead ==
    /\ aborted = "no" /\ watch_now = Idle
    /\ watch_now' = 0
    /\ UNCHANGED <<guardVars, last, kick_now, silence, kick_age, steps, skewed,
                   overtaken, hung, aborted>>

\* MUTANT: the difference is taken whichever of the two is later.
stall_ms_AbsDiff(now, progress) ==
    IF progress > now THEN progress - now ELSE now - progress

\* ... then the last kick, which may be later by then: the difference saturates.
stall_ms(now, progress) == IF progress > now THEN progress - now ELSE 0

\* MUTANT: a check starts the measurement anew.
WatchCheck_Restarts ==
    /\ aborted = "no" /\ watch_now # Idle
    /\ aborted' = IF stall_ms(watch_now, last) > MaxStall THEN "stall" ELSE "no"
    /\ watch_now' = Idle /\ last' = watch_now
    /\ UNCHANGED <<guardVars, kick_now, silence, kick_age, steps, skewed,
                   overtaken, hung>>

\* stalled, check_stall_and_abort.
WatchCheck ==
    /\ aborted = "no" /\ watch_now # Idle
    /\ aborted' = IF stall_ms(watch_now, last) > MaxStall THEN "stall" ELSE "no"
    /\ watch_now' = Idle
    /\ UNCHANGED <<guardVars, last, kick_now, silence, kick_age, steps, skewed,
                   overtaken, hung>>

\* One millisecond passes: for the clock and in truth.
Elapse ==
    /\ aborted = "no"
    /\ watch_now # Idle => watch_now < MaxDelay
    /\ last' = Capped(last + 1) /\ silence' = Capped(silence + 1)
    /\ kick_now' = [k \in Kickers |-> Moved(kick_now[k], 1)]
    /\ kick_age' = [k \in Kickers |-> IF kick_now[k] = Idle THEN 0 ELSE Capped(kick_age[k] + 1)]
    /\ watch_now' = Moved(watch_now, 1)
    /\ UNCHANGED <<guardVars, steps, skewed, overtaken, hung, aborted>>

\* The wall clock is set, by hand or by a time server.
StepClock(by) ==
    /\ aborted = "no" /\ steps < MaxSteps
    /\ steps' = steps + 1 /\ skewed' = (skewed \/ by > 0 \/ watch_now # Idle)
    /\ last' = Capped(last + by)
    /\ kick_now' = [k \in Kickers |-> Moved(kick_now[k], by)]
    /\ watch_now' = Moved(watch_now, by)
    /\ UNCHANGED <<guardVars, silence, kick_age, overtaken, hung, aborted>>

\* The callback hangs: no kick begins any more.
Hang ==
    /\ aborted = "no" /\ ~hung
    /\ hung' = TRUE
    /\ UNCHANGED <<guardVars, last, kick_now, watch_now, silence, kick_age, steps,
                   skewed, overtaken, aborted>>

WatchNext ==
    \/ \E k \in Kickers : KickRead(k) \/ KickStore(k)
    \/ WatchRead
    \/ WatchCheck
    \/ Elapse
    \/ \E by \in ClockSteps : StepClock(by)
    \/ Hang

RtSpec == RtInit /\ [][GuardNext \/ WatchNext]_rtVars

\* Time passes and the watchdog thread is scheduled, within MaxDelay of a read.
WatchFairness == WF_rtVars(Elapse) /\ WF_rtVars(WatchRead) /\ WF_rtVars(WatchCheck)

-----------------------------------------------------------------------------
(***************************************************************************)
(* Properties.                                                             *)
(***************************************************************************)

\* The process is ended exactly for what it should be.  No allocation passes on a
\* thread while a guard lives there, however guards nest and end, and none is
\* refused on a thread without one (guard.rs: "While at least one guard is live on
\* this thread, any heap allocation aborts"), as long as no guard is moved to
\* another thread and dropped there.  And the watchdog ends it only for a
\* callback that was silent for longer than the budget, unless the wall clock was
\* set forward, or set at all between the two reads of a check, or one clone's kick
\* overtook another's and put the last progress back.
AbortExplained ==
    /\ strayed \/ allocated.passed = (allocated.guards = 0)
    /\ aborted = "allocation" => ~allocated.passed
    /\ aborted = "stall" => silence > MaxStall \/ skewed \/ overtaken

\* A callback that hangs for good ends the process, also when the clock was set
\* back meanwhile and the stall is measured as none for a time.
StallCaught == hung ~> aborted # "no"

-----------------------------------------------------------------------------
(***************************************************************************)
(* The strengthening the proof of AbortExplained rests on: the count is that  *)
(* of the guards unless one strayed; the stored progress is no older than the *)
(* latest kick unless the clock jumped or a kick was overtaken; and neither   *)
(* is what a kick or a check under way has read and not used.                *)
(***************************************************************************)
RtTypeOK ==
    /\ depth \in [RtThreads -> 0..DepthMax]
    /\ strayed \in BOOLEAN /\ (strayed \/ live = depth)
    /\ last \in Int /\ silence \in Int /\ watch_now \in Int
    /\ kick_now \in [Kickers -> Int] /\ kick_age \in [Kickers -> Int]
    /\ skewed \in BOOLEAN /\ overtaken \in BOOLEAN

AgesTrue ==
    /\ skewed \/ overtaken \/ last <= silence
    /\ skewed \/ \A k \in Kickers : kick_now[k] # Idle => kick_now[k] <= kick_age[k]
    /\ skewed \/ (watch_now # Idle => watch_now >= 0)

RtInv == RtTypeOK /\ AgesTrue /\ AbortExplained
=============================================================================
