------------------------------- MODULE HostProofs -------------------------------
(***************************************************************************)
(* What surrounds the media path on one host, for every value of the          *)
(* constants: the bridge's status, the real-time guard and watchdog, the      *)
(* desktop shells, the macOS program, the two phone applications and the      *)
(* session's reconnections.  The parts share no state; each section is about  *)
(* one of them.                                                               *)
(***************************************************************************)
EXTENDS Session, BridgeEngine, RtWatch, Shells, MacHost, AndroidEmitter, PhoneReceiver,
        ModularArithmetic, SequenceTheorems, TLAPS

-----------------------------------------------------------------------------
(***************************************************************************)
(* BridgeEngine: the status cell.                                            *)
(***************************************************************************)
LEMMA BridgeInitInv == BridgeInit => BridgeInv
BY DEF BridgeInit, BridgeInv, StatusDescribesSink, ResultDescribesSink

\* A command either keeps the sink, or is a start or finish that succeeded.
LEMMA OutcomeCases ==
    ASSUME NEW op, NEW o \in Outcomes(op)
    PROVE  \/ o[1] = sink /\ (op \in {"start", "finish"} => o[2] = FALSE)
           \/ op = "start" /\ o[1] = "live"
           \/ op = "finish" /\ o[1] = "marked"
<1>1. CASE op = "start"
  <2>1. o = <<sink, FALSE>> \/ o = <<"live", TRUE>>
    BY <1>1 DEF Outcomes
  <2>2. CASE o = <<sink, FALSE>>
    BY <2>2
  <2>3. CASE o = <<"live", TRUE>>
    BY <1>1, <2>3
  <2>4. QED
    BY <2>1, <2>2, <2>3
<1>2. CASE op = "finish"
  <2>1. o = <<sink, FALSE>> \/ o = <<"marked", TRUE>>
    BY <1>2 DEF Outcomes
  <2>2. CASE o = <<sink, FALSE>>
    BY <2>2
  <2>3. CASE o = <<"marked", TRUE>>
    BY <1>2, <2>3
  <2>4. QED
    BY <2>1, <2>2, <2>3
<1>3. CASE op \notin {"start", "finish"}
  <2>1. o = <<sink, FALSE>> \/ o = <<sink, TRUE>>
    BY <1>3 DEF Outcomes
  <2>2. CASE o = <<sink, FALSE>>
    BY <2>2
  <2>3. CASE o = <<sink, TRUE>>
    BY <1>3, <2>3
  <2>4. QED
    BY <2>1, <2>2, <2>3
<1>4. QED
  BY <1>1, <1>2, <1>3

LEMMA ExecuteInv == BridgeInv /\ Execute => BridgeInv'
<1> SUFFICES ASSUME BridgeInv, Execute PROVE BridgeInv'
  OBVIOUS
<1> DEFINE op == Head(queue).op
<1>1. PICK o \in Outcomes(op) :
        /\ sink' = o[1]
        /\ current' = [client |-> Head(queue).client, op |-> op, ok |-> o[2]]
  BY DEF Execute
<1>2. worker' = IF op \in {"start", "finish"} THEN "called" ELSE "done"
  BY DEF Execute
<1>3. current'.op = op /\ current'.ok = o[2] /\ UNCHANGED status /\ worker = "idle"
  BY <1>1 DEF Execute
<1>4. CASE op \in {"start", "finish"}
  BY <1>1, <1>2, <1>3, <1>4, OutcomeCases
    DEF BridgeInv, StatusDescribesSink, ResultDescribesSink
<1>5. CASE op \notin {"start", "finish"}
  <2>1. sink' = sink
    BY <1>1, <1>5, OutcomeCases
  <2>2. QED
    BY <1>2, <1>3, <1>5, <2>1 DEF BridgeInv, StatusDescribesSink, ResultDescribesSink
<1>6. QED
  BY <1>4, <1>5

LEMMA SetStatusInv == BridgeInv /\ SetStatus => BridgeInv'
BY DEF BridgeInv, SetStatus, StatusAfter, StatusDescribesSink, ResultDescribesSink

LEMMA BridgeNextInv == BridgeInv /\ [BridgeNext]_bridgeVars => BridgeInv'
<1> SUFFICES ASSUME BridgeInv, [BridgeNext]_bridgeVars PROVE BridgeInv'
  OBVIOUS
<1> USE DEF BridgeInv, StatusDescribesSink, ResultDescribesSink
<1>1. ASSUME NEW c \in Clients, NEW op \in Ops, Call(c, op) PROVE BridgeInv'
  BY <1>1 DEF Call
<1>2. CASE Reply
  BY <1>2 DEF Reply
<1>3. CASE UNCHANGED bridgeVars
  BY <1>3 DEF bridgeVars
<1>4. QED
  BY <1>1, <1>2, <1>3, ExecuteInv, SetStatusInv DEF BridgeNext

\* What status() tells is true of the sink whenever no start or finish is under
\* way, however many threads call the engine and in whatever order.
THEOREM StatusTrue == BridgeSpec => []StatusDescribesSink
<1>1. BridgeInit => BridgeInv
  BY BridgeInitInv
<1>2. BridgeInv /\ [BridgeNext]_bridgeVars => BridgeInv'
  BY BridgeNextInv
<1>3. BridgeInv => StatusDescribesSink
  BY DEF BridgeInv
<1>4. QED
  BY <1>1, <1>2, <1>3, PTL DEF BridgeSpec

-----------------------------------------------------------------------------
(***************************************************************************)
(* RtWatch: why the process was ended.                                       *)
(***************************************************************************)
LEMMA FarType == Far \in Nat /\ Idle \in Int
<1>1. MaxSteps * Farthest \in Nat
  BY RtAssumption
<1>2. PICK most \in Nat : most = MaxSteps * Farthest
  BY <1>1
<1>3. QED
  BY <1>2, RtAssumption DEF Far, Idle

\* Distances keep their order when the clock moves.
LEMMA CappedOrder ==
    ASSUME NEW d \in Int, NEW e \in Int, d <= e
    PROVE  Capped(d) \in Int /\ Capped(e) \in Int /\ Capped(d) <= Capped(e)
BY FarType DEF Capped

LEMMA CappedType ==
    ASSUME NEW d \in Int
    PROVE  Capped(d) \in Int
BY FarType DEF Capped

LEMMA MovedType ==
    ASSUME NEW held \in Int, NEW by \in Int
    PROVE  /\ Moved(held, by) \in Int
           /\ Moved(held, by) # Idle => held # Idle /\ Moved(held, by) = Capped(held + by)
BY FarType DEF Moved, Capped

LEMMA RtInitInv == RtInit => RtInv
<1> SUFFICES ASSUME RtInit PROVE RtInv
  OBVIOUS
<1> USE DEF RtInit
<1>1. RtTypeOK
  <2>1. depth \in [RtThreads -> 0..DepthMax] /\ live = depth /\ strayed = FALSE
    BY RtAssumption
  <2>2. kick_now \in [Kickers -> Int] /\ kick_age \in [Kickers -> Int]
    BY FarType
  <2>3. last \in Int /\ silence \in Int /\ watch_now \in Int
    BY FarType
  <2>4. QED
    BY <2>1, <2>2, <2>3 DEF RtTypeOK
<1>2. AgesTrue
  BY FarType DEF AgesTrue
<1>3. AbortExplained
  BY DEF AbortExplained
<1>4. QED
  BY <1>1, <1>2, <1>3 DEF RtInv

\* The guard's steps leave the watchdog alone.
LEMMA GuardInv == RtInv /\ GuardNext => RtInv'
<1> SUFFICES ASSUME RtInv, NEW t \in RtThreads, NEW here \in RtThreads,
                    enter(t) \/ drop(t, here) \/ alloc(t)
             PROVE  RtInv'
  BY DEF GuardNext
<1>1. /\ depth \in [RtThreads -> 0..DepthMax] /\ depth[t] \in 0..DepthMax
      /\ strayed \in BOOLEAN /\ (strayed \/ live = depth)
  BY DEF RtInv, RtTypeOK
<1>2. CASE enter(t)
  <2>1. depth[t] + 1 \in 0..DepthMax
    BY <1>1, <1>2, RtAssumption DEF enter
  <2>2. depth' \in [RtThreads -> 0..DepthMax] /\ (strayed' \/ live' = depth')
    BY <1>1, <1>2, <2>1 DEF enter
  <2>3. QED
    BY <1>2, <2>2 DEF enter, watchVars, RtInv, RtTypeOK, AgesTrue, AbortExplained
<1>3. CASE drop(t, here)
  <2>1. depth' \in [RtThreads -> 0..DepthMax]
    BY <1>1, <1>3, RtAssumption DEF drop
  <2>2. strayed' \in BOOLEAN /\ (strayed => strayed')
    BY <1>1, <1>3 DEF drop
  <2>3. ASSUME ~strayed' PROVE live' = depth'
    <3>1. here = t /\ live = depth
      BY <1>1, <1>3, <2>3 DEF drop
    <3>2. depth[t] # 0
      BY <1>1, <1>3, <3>1 DEF drop
    <3>3. depth' = [depth EXCEPT ![t] = depth[t] - 1]
      BY <1>3, <3>1, <3>2 DEF drop
    <3>4. QED
      BY <1>3, <3>1, <3>3 DEF drop
  <2>4. QED
    BY <1>3, <2>1, <2>2, <2>3 DEF drop, watchVars, RtInv, RtTypeOK, AgesTrue, AbortExplained
<1>4. CASE alloc(t)
  <2>1. /\ strayed \/ allocated'.passed = (allocated'.guards = 0)
        /\ aborted' = "allocation" => ~allocated'.passed
        /\ aborted' # "stall"
    BY <1>1, <1>4 DEF alloc, enforce_no_rt_allocation
  <2>2. QED
    BY <1>4, <2>1 DEF alloc, watchVars, RtInv, RtTypeOK, AgesTrue, AbortExplained
<1>5. QED
  BY <1>2, <1>3, <1>4

LEMMA KickReadInv == ASSUME NEW k \in Kickers, RtInv, KickRead(k) PROVE RtInv'
<1>1. /\ kick_now' = [kick_now EXCEPT ![k] = 0] /\ kick_age' = [kick_age EXCEPT ![k] = 0]
      /\ UNCHANGED <<depth, live, strayed, allocated, last, watch_now, silence, skewed, overtaken, aborted>>
  BY DEF KickRead, guardVars
<1>2. QED
  BY <1>1 DEF RtInv, RtTypeOK, AgesTrue, AbortExplained, Idle, Far

LEMMA KickStoreInv == ASSUME NEW k \in Kickers, RtInv, KickStore(k) PROVE RtInv'
<1>1. /\ last' = kick_now[k] /\ kick_now[k] # Idle /\ aborted = "no"
      /\ silence' = IF kick_age[k] < silence THEN kick_age[k] ELSE silence
      /\ overtaken' = (overtaken \/ kick_age[k] > silence)
      /\ kick_now' = [kick_now EXCEPT ![k] = Idle] /\ kick_age' = [kick_age EXCEPT ![k] = 0]
      /\ UNCHANGED <<depth, live, strayed, allocated, watch_now, skewed, aborted>>
  BY DEF KickStore, guardVars
<1>2. kick_now[k] \in Int /\ kick_age[k] \in Int /\ silence \in Int
  BY DEF RtInv, RtTypeOK
<1>3. RtTypeOK'
  BY <1>1, <1>2, FarType DEF RtInv, RtTypeOK
<1>4. skewed' \/ overtaken' \/ last' <= silence'
  <2>1. skewed \/ kick_now[k] <= kick_age[k]
    BY <1>1 DEF RtInv, AgesTrue
  <2>2. CASE kick_age[k] > silence
    BY <1>1, <2>2
  <2>3. CASE ~(kick_age[k] > silence)
    <3>1. silence' = kick_age[k]
      BY <1>1, <1>2, <2>3
    <3>2. QED
      BY <1>1, <2>1, <3>1
  <2>4. QED
    BY <2>2, <2>3
<1>5. skewed' \/ \A j \in Kickers : kick_now'[j] # Idle => kick_now'[j] <= kick_age'[j]
  BY <1>1 DEF RtInv, RtTypeOK, AgesTrue
<1>6. QED
  BY <1>1, <1>3, <1>4, <1>5 DEF RtInv, AgesTrue, AbortExplained, Idle, Far

LEMMA WatchReadInv == RtInv /\ WatchRead => RtInv'
BY DEF WatchRead, guardVars, RtInv, RtTypeOK, AgesTrue, AbortExplained, Idle, Far

\* What was read of the clock is not before the read, and the stored progress not
\* older than the latest kick: a difference beyond the budget is a true silence.
LEMMA WatchCheckInv == RtInv /\ WatchCheck => RtInv'
<1> SUFFICES ASSUME RtInv, WatchCheck PROVE RtInv'
  OBVIOUS
<1>1. /\ aborted = "no" /\ watch_now # Idle /\ watch_now' = Idle
      /\ aborted' = IF stall_ms(watch_now, last) > MaxStall THEN "stall" ELSE "no"
      /\ UNCHANGED <<depth, live, strayed, allocated, last, kick_now, silence, kick_age, skewed, overtaken>>
  BY DEF WatchCheck, guardVars
<1>2. last \in Int /\ silence \in Int /\ watch_now \in Int
  BY DEF RtInv, RtTypeOK
<1>3. ASSUME aborted' = "stall" PROVE silence > MaxStall \/ skewed \/ overtaken
  <2>1. stall_ms(watch_now, last) > MaxStall
    BY <1>1, <1>3
  <2>2. last - watch_now > MaxStall
    BY <1>2, <2>1, RtAssumption DEF stall_ms
  <2>3. skewed \/ overtaken \/ (last <= silence /\ watch_now >= 0)
    BY <1>1 DEF RtInv, AgesTrue
  <2>4. QED
    BY <1>2, <2>2, <2>3, RtAssumption
<1>4. RtTypeOK' /\ AgesTrue'
  BY <1>1, FarType DEF RtInv, RtTypeOK, AgesTrue, Idle, Far
<1>5. aborted' \in {"stall", "no"}
  BY <1>1
<1>6. QED
  BY <1>1, <1>3, <1>4, <1>5 DEF RtInv, AbortExplained

LEMMA ElapseInv == RtInv /\ Elapse => RtInv'
<1> SUFFICES ASSUME RtInv, Elapse PROVE RtInv'
  OBVIOUS
<1>1. /\ last' = Capped(last + 1) /\ silence' = Capped(silence + 1) /\ aborted = "no"
      /\ kick_now' = [k \in Kickers |-> Moved(kick_now[k], 1)]
      /\ kick_age' = [k \in Kickers |-> IF kick_now[k] = Idle THEN 0 ELSE Capped(kick_age[k] + 1)]
      /\ watch_now' = Moved(watch_now, 1)
      /\ UNCHANGED <<depth, live, strayed, allocated, skewed, overtaken, aborted>>
  BY DEF Elapse, guardVars
<1>2. last \in Int /\ silence \in Int /\ watch_now \in Int
  BY DEF RtInv, RtTypeOK
<1>3. \A k \in Kickers : kick_now[k] \in Int /\ kick_age[k] \in Int
  BY DEF RtInv, RtTypeOK
<1>4. ASSUME NEW k \in Kickers PROVE kick_now'[k] \in Int /\ kick_age'[k] \in Int
  <2>1. kick_now[k] \in Int /\ kick_age[k] \in Int
    BY <1>3
  <2>2. Moved(kick_now[k], 1) \in Int /\ Capped(kick_age[k] + 1) \in Int
    BY <2>1, FarType DEF Moved, Capped
  <2>3. QED
    BY <1>1, <2>2
<1>5. last' \in Int /\ silence' \in Int /\ watch_now' \in Int
  <2>1. last + 1 \in Int /\ silence + 1 \in Int /\ 1 \in Int
    BY <1>2
  <2>2. Capped(last + 1) \in Int /\ Capped(silence + 1) \in Int
    BY <2>1, CappedType
  <2>3. Moved(watch_now, 1) \in Int
    BY <1>2, <2>1, MovedType
  <2>4. QED
    BY <1>1, <2>2, <2>3
<1>6. RtTypeOK'
  BY <1>1, <1>4, <1>5 DEF RtInv, RtTypeOK
<1>7. last <= silence => last' <= silence'
  BY <1>1, <1>2, FarType DEF Capped
<1>8. ASSUME NEW k \in Kickers, kick_now[k] # Idle => kick_now[k] <= kick_age[k],
             kick_now'[k] # Idle
      PROVE  kick_now'[k] <= kick_age'[k]
  BY <1>1, <1>3, <1>8, FarType DEF Moved, Capped
<1>9. (watch_now # Idle => watch_now >= 0) => (watch_now' # Idle => watch_now' >= 0)
  BY <1>1, <1>2, FarType DEF Moved, Capped
<1>10. AgesTrue'
  BY <1>1, <1>7, <1>8, <1>9, FarType DEF RtInv, AgesTrue
<1>11. QED
  BY <1>1, <1>6, <1>10 DEF RtInv, AbortExplained

\* Set back, the clock makes what was stored look later; set forward, or during a
\* check, it is skewed.
LEMMA StepClockInv == ASSUME NEW by \in ClockSteps, RtInv, StepClock(by) PROVE RtInv'
<1>1. /\ skewed' = (skewed \/ by > 0 \/ watch_now # Idle) /\ aborted = "no"
      /\ last' = Capped(last + by) /\ watch_now' = Moved(watch_now, by)
      /\ kick_now' = [k \in Kickers |-> Moved(kick_now[k], by)]
      /\ UNCHANGED <<depth, live, strayed, allocated, silence, kick_age, overtaken, aborted>>
  BY DEF StepClock, guardVars
<1>2. last \in Int /\ silence \in Int /\ watch_now \in Int /\ by \in Int
  BY RtAssumption DEF RtInv, RtTypeOK
<1>3. \A k \in Kickers : kick_now[k] \in Int /\ kick_age[k] \in Int
  BY DEF RtInv, RtTypeOK
<1>4. \A k \in Kickers : kick_now'[k] \in Int
  BY <1>1, <1>2, <1>3, FarType, MovedType
<1>5. last' \in Int /\ watch_now' \in Int /\ skewed' \in BOOLEAN
  <2>1. last + by \in Int
    BY <1>2
  <2>2. Capped(last + by) \in Int
    BY <2>1, CappedType
  <2>3. Moved(watch_now, by) \in Int
    BY <1>2, MovedType
  <2>4. skewed \in BOOLEAN
    BY DEF RtInv, RtTypeOK
  <2>5. QED
    BY <1>1, <2>2, <2>3, <2>4
<1>6. RtTypeOK'
  BY <1>1, <1>4, <1>5 DEF RtInv, RtTypeOK
<1>7. ASSUME ~skewed' PROVE ~skewed /\ by <= 0 /\ watch_now = Idle /\ watch_now' = Idle
  <2>1. ~skewed /\ ~(by > 0) /\ watch_now = Idle
    BY <1>1, <1>7
  <2>2. QED
    BY <1>1, <1>2, <2>1 DEF Moved
<1>8. by <= 0 /\ last <= silence => last' <= silence'
  BY <1>1, <1>2, FarType DEF Capped
<1>9. ASSUME NEW k \in Kickers, by <= 0, kick_now[k] # Idle => kick_now[k] <= kick_age[k],
             kick_now'[k] # Idle
      PROVE  kick_now'[k] <= kick_age'[k]
  BY <1>1, <1>2, <1>3, <1>9, FarType DEF Moved, Capped
<1>10. AgesTrue'
  BY <1>1, <1>7, <1>8, <1>9, FarType DEF RtInv, AgesTrue
<1>11. QED
  BY <1>1, <1>6, <1>10 DEF RtInv, AbortExplained

LEMMA HangInv == RtInv /\ Hang => RtInv'
BY DEF Hang, guardVars, RtInv, RtTypeOK, AgesTrue, AbortExplained, Idle, Far

\* A process that was ended was ended for what it should be: an allocation under a
\* guard, or a silence beyond the budget, a jump of the clock or an overtaken kick.
THEOREM AbortIsExplained == RtSpec => []AbortExplained
<1>1. RtInit => RtInv
  BY RtInitInv
<1>2. RtInv /\ [GuardNext \/ WatchNext]_rtVars => RtInv'
  <2> SUFFICES ASSUME RtInv, [GuardNext \/ WatchNext]_rtVars PROVE RtInv'
    OBVIOUS
  <2>1. CASE UNCHANGED rtVars
    BY <2>1 DEF rtVars, guardVars, watchVars, RtInv, RtTypeOK, AgesTrue, AbortExplained, Idle, Far
  <2>2. QED
    BY <2>1, GuardInv, KickReadInv, KickStoreInv, WatchReadInv, WatchCheckInv, ElapseInv,
       StepClockInv, HangInv DEF WatchNext
<1>3. RtInv => AbortExplained
  BY DEF RtInv
<1>4. QED
  BY <1>1, <1>2, <1>3, PTL DEF RtSpec

-----------------------------------------------------------------------------
(***************************************************************************)
(* Shells: the applications' buffer, and what the loopback reader lends.     *)
(***************************************************************************)
LEMMA AppInitInv == ShellInit => AppInv
BY ShellAssumption DEF ShellInit, AppInv

\* Whatever the applications do with their source, the frame that is taken away is
\* replaced by as large a vector.
LEMMA AppNextInv == AppInv /\ AppNext => AppInv'
<1> SUFFICES ASSUME AppInv, AppNext PROVE AppInv'
  OBVIOUS
<1>1. ASSUME NEW n \in BlockLengths, push_block(n) PROVE AppInv'
  <2>1. fill \in Nat /\ n \in Nat /\ fill <= AppCapacity /\ room = AppCapacity /\ ~grown
    BY ShellAssumption DEF AppInv
  <2>2. CASE fill + n > AppCapacity
    BY <1>1, <2>1, <2>2 DEF push_block, AppInv
  <2>3. CASE ~(fill + n > AppCapacity)
    <3>1. fill' = fill + n /\ ~(fill + n > room)
      BY <1>1, <2>1, <2>3 DEF push_block
    <3>2. room' = room /\ grown' = FALSE
      BY <1>1, <2>1, <2>3, <3>1 DEF push_block
    <3>3. fill' \in 0..AppCapacity
      BY <2>1, <2>3, <3>1, ShellAssumption
    <3>4. QED
      BY <2>1, <3>2, <3>3 DEF AppInv
  <2>4. QED
    BY <2>2, <2>3
<1>2. ASSUME NEW ok \in BOOLEAN, emit_frame(ok) PROVE AppInv'
  BY <1>2, ShellAssumption DEF emit_frame, AppInv
<1>3. CASE start \/ stop
  BY <1>3 DEF start, stop, AppInv
<1>4. ASSUME NEW e, NEW p, set_endpoint(e, p) PROVE AppInv'
  BY <1>4 DEF set_endpoint, AppInv
<1>5. CASE BluezProfileServer
  BY <1>5 DEF BluezProfileServer, connect, profile1_release, appVars, AppInv
<1>6. (Callback \/ Deliver) => AppInv'
  BY <1>1, <1>2 DEF Callback, Deliver
<1>7. WinEmitterApp => AppInv'
  BY <1>3, <1>4, <1>6 DEF WinEmitterApp
<1>8. LinuxEmitterApp => AppInv'
  BY <1>3, <1>4, <1>6 DEF LinuxEmitterApp
<1>9. MacEmitterApp => AppInv'
  BY <1>3, <1>4, <1>6 DEF MacEmitterApp
<1>10. LinuxReceiverApp => AppInv'
  BY <1>3, <1>4, <1>6 DEF LinuxReceiverApp
<1>11. QED
  BY <1>5, <1>7, <1>8, <1>9, <1>10 DEF AppNext

LEMMA LoopKeepsApp == AppInv /\ LoopNext => AppInv'
<1>1. ASSUME NEW e, loop_set_endpoint(e) PROVE UNCHANGED appVars
  BY <1>1 DEF loop_set_endpoint, LoopUnchanged
<1>2. ASSUME NEW e, NEW w, NEW ok, loop_start(e, w, ok) PROVE UNCHANGED appVars
  BY <1>2 DEF loop_start, LoopUnchanged
<1>3. ASSUME NEW n, NEW silent, poll(n, silent) PROVE UNCHANGED appVars
  BY <1>3 DEF poll, LoopUnchanged
<1>4. loop_stop \/ Unplugged \/ reset_fill => UNCHANGED appVars
  BY DEF loop_stop, Unplugged, reset_fill, LoopUnchanged
<1>5. LoopNext => UNCHANGED appVars
  BY <1>1, <1>2, <1>3, <1>4 DEF LoopNext
<1>6. QED
  BY <1>5 DEF appVars, AppInv

\* No push makes the buffer grow, whether the consumer takes each frame or refuses it.
THEOREM PushNeverGrows == ShellSpec => []PushNeverAllocates
<1>1. AppInv /\ [AppNext \/ LoopNext]_shellVars => AppInv'
  BY AppNextInv, LoopKeepsApp DEF shellVars, appVars, AppInv
<1>2. AppInv => PushNeverAllocates
  BY ShellAssumption DEF AppInv, PushNeverAllocates
<1>3. QED
  BY <1>1, <1>2, AppInitInv, PTL DEF ShellSpec

\* A width the reader accepts is one of three, and a packet has a number of bytes.
LEMMA FrameBytes ==
    ASSUME NEW bits \in {16, 24, 32}, NEW n \in Nat
    PROVE  n * bytes_per_frame(bits) \in Nat
<1>1. bytes_per_frame(bits) \in {2, 3, 4}
  BY DEF bytes_per_frame
<1>2. n * 2 \in Nat /\ n * 3 \in Nat /\ n * 4 \in Nat
  OBVIOUS
<1>3. QED
  BY <1>1, <1>2

LEMMA LoopInitInv == ShellInit => LoopInv
<1> SUFFICES ASSUME ShellInit PROVE LoopInv
  OBVIOUS
<1>1. packets = << >> /\ packets \in Seq(Packet)
  BY DEF ShellInit
<1>2. loop = [open |-> None, bits |-> 16, endpoint_id |-> None, fill |-> 0, lost |-> FALSE,
              session |-> 0]
  BY DEF ShellInit
<1>3. LoopTypeOK
  BY <1>1, <1>2 DEF LoopTypeOK, Streams
<1>4. QED
  BY <1>1, <1>2, <1>3, ShellAssumption DEF LoopInv, OneStreamPerBuffer

\* An empty buffer is of any stream.
LEMMA EmptyBuffer ==
    ASSUME LoopTypeOK', packets' = << >>, loop'.fill = 0
    PROVE  LoopInv'
BY ShellAssumption DEF LoopInv, OneStreamPerBuffer

\* What is buffered stays right while the stream, its format and the fill stay.
LEMMA SameBuffer ==
    ASSUME LoopInv, LoopTypeOK', packets' = packets, loop'.fill = loop.fill,
           loop'.open = loop.open, loop'.bits = loop.bits, loop'.session = loop.session
    PROVE  LoopInv'
BY DEF LoopInv, OneStreamPerBuffer, EndOf

LEMMA SetEndpointInv ==
    ASSUME LoopInv, NEW e \in {None} \union {<<x>> : x \in Endpoints}, loop_set_endpoint(e)
    PROVE  LoopInv'
<1>1. loop' = [loop EXCEPT !.endpoint_id = e] /\ packets' = packets
  BY DEF loop_set_endpoint
<1>2. LoopTypeOK'
  BY <1>1 DEF LoopInv, LoopTypeOK
<1>3. QED
  BY <1>1, <1>2, SameBuffer DEF LoopInv, LoopTypeOK

LEMMA StartInv ==
    ASSUME LoopInv, NEW e \in Endpoints, NEW w \in WaveFormats, NEW ok \in BOOLEAN,
           loop_start(e, w, ok)
    PROVE  LoopInv'
<1>1. /\ loop.open = None /\ format_from_wave(w) \in {16, 24, 32} /\ packets' = packets
      /\ loop' = [loop EXCEPT !.bits = format_from_wave(w), !.lost = FALSE, !.session = @ + 1,
                              !.open = IF ok THEN <<e, w>> ELSE None]
  BY DEF loop_start, format_from_wave, Unsupported
<1>2. packets' = << >> /\ loop.fill = 0
  BY <1>1 DEF LoopInv, OneStreamPerBuffer
<1>3. loop'.fill = 0
  BY <1>1, <1>2 DEF LoopInv, LoopTypeOK
<1>4. (IF ok THEN <<e, w>> ELSE None) \in Streams
  BY DEF Streams
<1>5. LoopTypeOK'
  <2>1. loop.session + 1 \in Nat
    BY DEF LoopInv, LoopTypeOK
  <2>2. loop' = [open |-> IF ok THEN <<e, w>> ELSE None, bits |-> format_from_wave(w),
                 endpoint_id |-> loop.endpoint_id, fill |-> loop.fill, lost |-> FALSE,
                 session |-> loop.session + 1]
    BY <1>1 DEF LoopInv, LoopTypeOK
  <2>3. loop.endpoint_id \in {None} \union {<<x>> : x \in Endpoints} /\ loop.fill \in Nat
    BY DEF LoopInv, LoopTypeOK
  <2>4. packets' \in Seq(Packet)
    BY <1>1 DEF LoopInv, LoopTypeOK
  <2>5. PICK o \in Streams, b \in {16, 24, 32}, k \in Nat :
          loop' = [open |-> o, bits |-> b, endpoint_id |-> loop.endpoint_id, fill |-> loop.fill,
                   lost |-> FALSE, session |-> k]
    <3>1. PICK o : o = (IF ok THEN <<e, w>> ELSE None)
      OBVIOUS
    <3>2. PICK b : b = format_from_wave(w)
      OBVIOUS
    <3>3. PICK k : k = loop.session + 1
      OBVIOUS
    <3>4. o \in Streams
      BY <1>4, <3>1
    <3>5. b \in {16, 24, 32}
      BY <1>1, <3>2
    <3>6. k \in Nat
      BY <2>1, <3>3
    <3>7. loop' = [open |-> o, bits |-> b, endpoint_id |-> loop.endpoint_id, fill |-> loop.fill,
                   lost |-> FALSE, session |-> k]
      BY <2>2, <3>1, <3>2, <3>3, Zenon
    <3>8. QED
      BY <3>4, <3>5, <3>6, <3>7, Zenon
  <2>6. QED
    BY <2>3, <2>4, <2>5 DEF LoopTypeOK
<1>6. QED
  BY <1>2, <1>3, <1>5, EmptyBuffer

LEMMA StopInv == LoopInv /\ (loop_stop \/ reset_fill) => LoopInv'
<1> SUFFICES ASSUME LoopInv, loop_stop \/ reset_fill PROVE LoopInv'
  OBVIOUS
<1>1. packets' = << >> /\ (\/ loop' = [loop EXCEPT !.open = None, !.fill = 0]
                           \/ loop' = [loop EXCEPT !.fill = 0])
  BY DEF loop_stop, reset_fill
<1>2. None \in Streams
  BY DEF Streams
<1>3. PICK o \in Streams : loop' = [loop EXCEPT !.open = o, !.fill = 0]
  <2>1. loop.open \in Streams /\ [loop EXCEPT !.fill = 0] = [loop EXCEPT !.open = loop.open, !.fill = 0]
    BY DEF LoopInv, LoopTypeOK
  <2>2. CASE loop' = [loop EXCEPT !.open = None, !.fill = 0]
    BY <1>2, <2>2, Zenon
  <2>3. CASE loop' = [loop EXCEPT !.fill = 0]
    BY <2>1, <2>3, Zenon
  <2>4. QED
    BY <1>1, <2>2, <2>3, Zenon
<1>4. LoopTypeOK' /\ loop'.fill = 0
  <2>1. packets' \in Seq(Packet)
    BY <1>1
  <2>2. QED
    BY <1>3, <2>1 DEF LoopInv, LoopTypeOK
<1>5. QED
  BY <1>1, <1>4, EmptyBuffer

LEMMA UnpluggedInv == LoopInv /\ Unplugged => LoopInv'
<1> SUFFICES ASSUME LoopInv, Unplugged PROVE LoopInv'
  OBVIOUS
<1>1. loop' = [loop EXCEPT !.lost = TRUE] /\ packets' = packets
  BY DEF Unplugged
<1>2. LoopTypeOK'
  BY <1>1 DEF LoopInv, LoopTypeOK
<1>3. QED
  BY <1>1, <1>2, SameBuffer DEF LoopInv, LoopTypeOK

\* A packet is laid behind the last one, if it fits.
LEMMA PollInv ==
    ASSUME LoopInv, NEW n \in BlockLengths, NEW silent \in BOOLEAN, poll(n, silent)
    PROVE  LoopInv'
<1>1. PICK bytes \in Nat : bytes = n * bytes_per_frame(loop.bits)
  <2>1. loop.bits \in {16, 24, 32}
    BY DEF LoopInv, LoopTypeOK
  <2>2. n \in Nat
    BY ShellAssumption DEF ShellAssumption
  <2>3. QED
    BY <2>1, <2>2, FrameBytes
<1> DEFINE p == [at |-> loop.fill, len |-> bytes, from |-> loop.open,
                 session |-> loop.session, silent |-> silent]
<1>2. loop.open # None
  BY DEF poll
<1>3. \/ UNCHANGED <<packets, loop>>
      \/ /\ bytes <= AppCapacity - loop.fill /\ packets' = Append(packets, p)
         /\ loop' = [loop EXCEPT !.fill = loop.fill + bytes]
  BY <1>1 DEF poll
<1>4. CASE UNCHANGED <<packets, loop>>
  BY <1>4 DEF LoopInv, LoopTypeOK, OneStreamPerBuffer, EndOf
<1>5. ASSUME bytes <= AppCapacity - loop.fill, packets' = Append(packets, p),
             loop' = [loop EXCEPT !.fill = loop.fill + bytes]
      PROVE  LoopInv'
  <2>1. /\ loop.fill \in Nat /\ packets \in Seq(Packet) /\ p \in Packet
        /\ loop.fill + bytes \in Nat
    BY DEF LoopInv, LoopTypeOK, Packet
  <2>2. LoopTypeOK'
    <3>1. packets' \in Seq(Packet)
      BY <1>5, <2>1
    <3>2. PICK more \in Nat : more = loop.fill + bytes
      BY <2>1
    <3>3. loop' = [loop EXCEPT !.fill = more]
      BY <1>5, <3>2
    <3>4. QED
      BY <3>1, <3>3 DEF LoopInv, LoopTypeOK
  <2>3. PICK k \in Nat : k = Len(packets) /\ k + 1 = Len(packets')
    <3> HIDE DEF p
    <3>1. Len(packets) \in Nat /\ Len(Append(packets, p)) = Len(packets) + 1
      BY <2>1
    <3>2. QED
      BY <1>5, <3>1
  <2>4. /\ DOMAIN packets = 1..k /\ DOMAIN packets' = 1..(k + 1)
        /\ packets'[k + 1] = p /\ \A i \in 1..k : packets'[i] = packets[i]
    BY <1>5, <2>1, <2>3
  <2>5. /\ loop'.fill = loop.fill + bytes /\ loop'.open = loop.open
        /\ loop'.session = loop.session /\ loop'.bits = loop.bits
    BY <1>5 DEF LoopInv, LoopTypeOK
  <2>6. p.at = loop.fill /\ p.len = bytes /\ p.from = loop.open /\ p.session = loop.session
    OBVIOUS
  <2> HIDE DEF p
  <2>7. packets' # << >> /\ loop'.fill = EndOf(packets'[k + 1])
    BY <2>3, <2>4, <2>5, <2>6 DEF EndOf
  <2>8. loop'.fill <= AppCapacity
    BY <1>5, <2>1, <2>5, ShellAssumption
  <2>9. loop.fill = IF k = 0 THEN 0 ELSE EndOf(packets[k])
    BY <2>1, <2>3 DEF LoopInv, OneStreamPerBuffer
  <2>10. ASSUME NEW i \in 1..k
         PROVE  /\ packets'[i].from = loop'.open /\ packets'[i].session = loop'.session
                /\ packets'[i].at = IF i = 1 THEN 0 ELSE EndOf(packets'[i - 1])
    <3>1. /\ packets[i].from = loop.open /\ packets[i].session = loop.session
          /\ packets[i].at = IF i = 1 THEN 0 ELSE EndOf(packets[i - 1])
      BY <2>4 DEF LoopInv, OneStreamPerBuffer
    <3>2. i # 1 => i - 1 \in 1..k
      OBVIOUS
    <3>3. QED
      BY <2>4, <2>5, <3>1, <3>2
  <2>11. /\ packets'[k + 1].from = loop'.open /\ packets'[k + 1].session = loop'.session
    BY <2>4, <2>5, <2>6
  <2>12. packets'[k + 1].at = IF k + 1 = 1 THEN 0 ELSE EndOf(packets'[(k + 1) - 1])
    <3>1. k # 0 => k \in 1..k /\ (k + 1) - 1 = k
      OBVIOUS
    <3>2. QED
      BY <2>4, <2>6, <2>9, <3>1
  <2>13. \A i \in 1..(k + 1) : i \in 1..k \/ i = k + 1
    OBVIOUS
  <2>14. OneStreamPerBuffer'
    BY <2>3, <2>4, <2>7, <2>8, <2>10, <2>11, <2>12, <2>13 DEF OneStreamPerBuffer
  <2>15. QED
    BY <1>2, <2>2, <2>5, <2>14 DEF LoopInv
<1>6. QED
  BY <1>3, <1>4, <1>5

LEMMA LoopNextInv == LoopInv /\ [AppNext \/ LoopNext]_shellVars => LoopInv'
<1> SUFFICES ASSUME LoopInv, [AppNext \/ LoopNext]_shellVars PROVE LoopInv'
  OBVIOUS
<1>1. CASE UNCHANGED loopVars
  BY <1>1 DEF loopVars, LoopInv, LoopTypeOK, OneStreamPerBuffer, EndOf
<1>2. AppNext => UNCHANGED loopVars
  BY DEF AppNext, WinEmitterApp, LinuxEmitterApp, MacEmitterApp, LinuxReceiverApp,
         BluezProfileServer, Callback, Deliver, start, stop, push_block, emit_frame,
         set_endpoint, connect, profile1_release, AppUnchanged
<1>3. LoopNext => LoopInv'
  BY SetEndpointInv, StartInv, StopInv, UnpluggedInv, PollInv DEF LoopNext
<1>4. QED
  BY <1>1, <1>2, <1>3 DEF shellVars

\* What the reader lends its worker is the packets of one stream, back to back.
THEOREM LendsOneStream == ShellSpec => []OneStreamPerBuffer
<1>1. LoopInv => OneStreamPerBuffer
  BY DEF LoopInv
<1>2. QED
  BY <1>1, LoopInitInv, LoopNextInv, PTL DEF ShellSpec

-----------------------------------------------------------------------------
(***************************************************************************)
(* PhoneReceiver: sound returns with the route.                              *)
(***************************************************************************)

\* The route was followed: only the want of an output pauses.
LEMMA FollowPauses ==
    ASSUME Follow(route), renderer'.is = "paused"
    PROVE  route = "none"
<1>1. CASE route = "none" /\ renderer.is = "running"
  BY <1>1
<1>2. CASE route # "none" /\ renderer.is = "paused"
  <2>1. renderer' = Running(route = "usb")
    BY <1>2 DEF Follow
  <2>2. QED
    BY <2>1 DEF Running
<1>3. CASE ~(route = "none" /\ renderer.is = "running") /\ ~(route # "none" /\ renderer.is = "paused")
  <2>1. renderer' = renderer
    BY <1>3 DEF Follow
  <2>2. QED
    BY <1>3, <2>1
<1>4. QED
  BY <1>1, <1>2, <1>3

LEMMA PhoneNextInv == PhoneInv /\ [PhoneNext]_phoneVars => PhoneInv'
<1> SUFFICES ASSUME PhoneInv, [PhoneNext]_phoneVars PROVE PhoneInv'
  OBVIOUS
<1> USE DEF PhoneInv, RouteFollowed
<1>1. CASE UNCHANGED <<renderer, route, observed, notified, routeEvents>>
  BY <1>1
<1>2. ASSUME NEW r \in Routes, RouteChanges(r) PROVE PhoneInv'
  BY <1>2 DEF RouteChanges
<1>3. CASE Observe
  <2>1. classifyChange(observed, route) \in RouteEvents
    <3>1. CASE route = "none"
      <4>1. classifyChange(observed, route) = "noOutput"
        BY <3>1, Zenon DEF classifyChange
      <4>2. QED
        BY <4>1 DEF RouteEvents
    <3>2. CASE route = "usb"
      <4>1. classifyChange(observed, route) \in {"usbAudioAttached", "routeChanged"}
        BY <3>2 DEF classifyChange
      <4>2. QED
        BY <4>1 DEF RouteEvents
    <3>3. CASE route = "other"
      <4>1. classifyChange(observed, route) \in {"usbAudioDetached", "routeChanged"}
        BY <3>3 DEF classifyChange, Routes
      <4>2. QED
        BY <4>1 DEF RouteEvents
    <3>4. QED
      BY <3>1, <3>2, <3>3 DEF Routes
  <2>2. QED
    BY <1>3, <2>1 DEF Observe
<1>4. CASE handleRouteEvent
  <2>1. renderer'.is = "paused" => route = "none"
    BY <1>4, FollowPauses DEF handleRouteEvent
  <2>2. QED
    BY <1>4, <2>1 DEF handleRouteEvent
<1>5. ASSUME NEW ok \in BOOLEAN, startSession(ok) PROVE PhoneInv'
  <2>1. renderer'.is = "paused" => renderer' = renderer
    BY <1>5 DEF startSession, Render, Running, State
  <2>2. QED
    BY <1>5, <2>1 DEF startSession, routeVars
<1>6. CASE stopSession
  BY <1>6 DEF stopSession, State, routeVars
<1>7. ASSUME NEW t, toggleTier(t) PROVE UNCHANGED <<renderer, route, observed, notified, routeEvents>>
  BY <1>7 DEF toggleTier, playVars, routeVars
<1>8. confirmDowngradeToFree \/ dismissDowngradeConfirmation \/ triggerPermissionFlow \/ NotNow
        \/ refreshRouteLabel => UNCHANGED <<renderer, route, observed, notified, routeEvents>>
  BY DEF confirmDowngradeToFree, dismissDowngradeConfirmation, triggerPermissionFlow, NotNow,
         refreshRouteLabel, playVars, routeVars
<1>9. UNCHANGED phoneVars => UNCHANGED <<renderer, route, observed, notified, routeEvents>>
  BY DEF phoneVars, playVars, routeVars
<1>10. QED
  BY <1>1, <1>2, <1>3, <1>4, <1>5, <1>6, <1>7, <1>8, <1>9 DEF PhoneNext

\* Once everything notified was observed and handled, a renderer is paused only for
\* want of an output.
THEOREM SoundReturns == PhoneSpec => []RouteFollowed
<1>1. PhoneInit => PhoneInv
  BY DEF PhoneInit, PhoneInv, RouteFollowed, State, Routes
<1>2. PhoneInv => RouteFollowed
  BY DEF PhoneInv
<1>3. QED
  BY <1>1, <1>2, PhoneNextInv, PTL DEF PhoneSpec

-----------------------------------------------------------------------------
(***************************************************************************)
(* MacHost: the hot-plug monitor.                                            *)
(***************************************************************************)
LEMMA PlugInitInv == PlugInit => PlugInv
BY DEF PlugInit, PlugInv, PlugTypeOK, CallNotStale, NoChangeForgotten, NoCall

\* A change is either notified to come or counted: neither is lost on the way.
LEMMA DeviceChangeInv == PlugInv /\ DeviceChange => PlugInv'
<1> SUFFICES ASSUME PlugInv, DeviceChange PROVE PlugInv'
  OBVIOUS
<1>1. PICK d \in Devices :
        present' = IF d \in present THEN present \ {d} ELSE present \union {d}
  BY DEF DeviceChange
<1>2. /\ pending' = IF monitor.subscribed THEN pending + 1 ELSE pending
      /\ UNCHANGED <<generation, monitor, call, swallowed>>
  BY DEF DeviceChange
<1>3. pending' \in Nat /\ (monitor.subscribed => pending' > 0)
  BY <1>2 DEF PlugInv, PlugTypeOK
<1>4. present' \in SUBSET Devices
  BY <1>1 DEF PlugInv, PlugTypeOK
<1>5. PlugTypeOK'
  BY <1>2, <1>3, <1>4 DEF PlugInv, PlugTypeOK
<1>6. CallNotStale' /\ NoChangeForgotten'
  BY <1>2, <1>3 DEF PlugInv, CallNotStale, NoChangeForgotten
<1>7. QED
  BY <1>5, <1>6 DEF PlugInv

LEMMA ListenerInv == PlugInv /\ devices_listener => PlugInv'
<1> SUFFICES ASSUME PlugInv, devices_listener PROVE PlugInv'
  OBVIOUS
<1>1. PICK g \in Nat : g = generation
  BY DEF PlugInv, PlugTypeOK
<1>2. /\ pending > 0 /\ pending' = pending - 1 /\ generation' = g + 1
      /\ UNCHANGED <<present, monitor, call, swallowed>>
  BY <1>1 DEF devices_listener
<1>3. monitor.last_generation \in 0..g /\ call.generation \in 0..g
  BY <1>1 DEF PlugInv, PlugTypeOK
<1>4. PlugTypeOK'
  <2>1. pending' \in Nat /\ generation' \in Nat /\ \A x \in 0..g : x \in 0..generation'
    BY <1>2 DEF PlugInv, PlugTypeOK
  <2>2. QED
    BY <1>1, <1>2, <2>1 DEF PlugInv, PlugTypeOK
<1>5. generation' # monitor'.last_generation /\ generation' # call'.generation
  BY <1>2, <1>3
<1>6. CallNotStale' /\ NoChangeForgotten'
  BY <1>2, <1>5 DEF PlugInv, CallNotStale, NoChangeForgotten
<1>7. QED
  BY <1>4, <1>6 DEF PlugInv

\* What an enumeration may return is a set of devices.
LEMMA EnumerationType ==
    ASSUME PlugInv, NEW list \in Enumerations
    PROVE  list \in SUBSET Devices
BY DEF Enumerations, PlugInv, PlugTypeOK

LEMMA StartMonitoringInv == PlugInv /\ (start_monitoring \/ stop_monitoring) => PlugInv'
<1> SUFFICES ASSUME PlugInv, start_monitoring \/ stop_monitoring PROVE PlugInv'
  OBVIOUS
<1>1. CASE start_monitoring
  <2>1. /\ monitor' = [subscribed |-> TRUE, baseline |-> monitor.baseline,
                      last_generation |-> monitor.last_generation]
        /\ call' = [at |-> "baseline", current |-> {}, generation |-> 0, whole |-> TRUE]
        /\ UNCHANGED <<present, pending, generation>>
    BY <1>1 DEF start_monitoring, NoCall, PlugInv, PlugTypeOK
  <2>2. PlugTypeOK'
    BY <2>1 DEF PlugInv, PlugTypeOK
  <2>3. QED
    BY <2>1, <2>2 DEF PlugInv, CallNotStale, NoChangeForgotten
<1>2. CASE stop_monitoring
  BY <1>2 DEF stop_monitoring, PlugInv, PlugTypeOK, CallNotStale, NoChangeForgotten
<1>3. QED
  BY <1>1, <1>2

LEMMA BaselineInv == PlugInv /\ refresh_baseline => PlugInv'
<1> SUFFICES ASSUME PlugInv, refresh_baseline PROVE PlugInv'
  OBVIOUS
<1>1. PICK list \in Enumerations :
        /\ monitor' = [monitor EXCEPT !.baseline = list]
        /\ call' = [call EXCEPT !.at = "load", !.generation = generation,
                                !.whole = (list = present)]
  BY Zenon DEF refresh_baseline
<1>2. call.at = "baseline" /\ UNCHANGED <<present, pending, generation, swallowed>>
  BY DEF refresh_baseline
<1>3. PICK whole \in BOOLEAN : whole = (list = present)
  OBVIOUS
<1>4. /\ monitor' = [subscribed |-> monitor.subscribed, baseline |-> list,
                     last_generation |-> monitor.last_generation]
      /\ call' = [at |-> "load", current |-> call.current, generation |-> generation,
                  whole |-> whole]
      /\ monitor.subscribed
  BY <1>1, <1>2, <1>3 DEF PlugInv, PlugTypeOK, CallNotStale
<1>5. PlugTypeOK'
  BY <1>2, <1>4, EnumerationType DEF PlugInv, PlugTypeOK
<1>6. CallNotStale' /\ NoChangeForgotten'
  BY <1>2, <1>3, <1>4 DEF CallNotStale, NoChangeForgotten
<1>7. QED
  BY <1>5, <1>6 DEF PlugInv

LEMMA LoadInv == PlugInv /\ load_generation => PlugInv'
<1> SUFFICES ASSUME PlugInv, load_generation PROVE PlugInv'
  OBVIOUS
<1>1. /\ call.at = "load" /\ call' = NoCall
      /\ monitor' = [monitor EXCEPT !.last_generation = generation]
      /\ swallowed' = (~call.whole \/ generation # call.generation)
      /\ UNCHANGED <<present, pending, generation>>
  BY DEF load_generation
<1>2. monitor' = [subscribed |-> monitor.subscribed, baseline |-> monitor.baseline,
                  last_generation |-> generation]
  BY <1>1 DEF PlugInv, PlugTypeOK
<1>3. PlugTypeOK'
  BY <1>1, <1>2 DEF PlugInv, PlugTypeOK, NoCall
<1>4. ~swallowed' /\ monitor'.baseline # present' => pending' > 0
  BY <1>1, <1>2 DEF PlugInv, CallNotStale
<1>5. CallNotStale' /\ NoChangeForgotten'
  BY <1>1, <1>4 DEF CallNotStale, NoChangeForgotten, NoCall
<1>6. QED
  BY <1>3, <1>5 DEF PlugInv

LEMMA PollGenerationInv == PlugInv /\ poll_generation => PlugInv'
<1> SUFFICES ASSUME PlugInv, poll_generation PROVE PlugInv'
  OBVIOUS
<1>1. /\ monitor' = [subscribed |-> TRUE, baseline |-> monitor.baseline,
                    last_generation |-> generation]
      /\ call' = [at |-> "enumerate", current |-> {}, generation |-> 0, whole |-> TRUE]
      /\ UNCHANGED <<present, pending, generation>>
  BY DEF poll_generation, NoCall, PlugInv, PlugTypeOK
<1>2. PlugTypeOK'
  BY <1>1 DEF PlugInv, PlugTypeOK
<1>3. QED
  BY <1>1, <1>2 DEF PlugInv, CallNotStale, NoChangeForgotten

LEMMA EnumerateInv == PlugInv /\ poll_enumerate => PlugInv'
<1> SUFFICES ASSUME PlugInv, poll_enumerate PROVE PlugInv'
  OBVIOUS
<1>1. PICK list \in Enumerations :
        call' = [call EXCEPT !.at = "report", !.current = list, !.whole = (list = present)]
  BY Zenon DEF poll_enumerate
<1>2. call.at = "enumerate" /\ UNCHANGED <<present, pending, generation, monitor, swallowed>>
  BY DEF poll_enumerate
<1>3. PICK whole \in BOOLEAN : whole = (list = present)
  OBVIOUS
<1>4. call' = [at |-> "report", current |-> list, generation |-> call.generation,
               whole |-> whole]
  BY <1>1, <1>3 DEF PlugInv, PlugTypeOK
<1>5. PlugTypeOK'
  BY <1>2, <1>4, EnumerationType DEF PlugInv, PlugTypeOK
<1>6. CallNotStale' /\ NoChangeForgotten'
  BY <1>2, <1>3, <1>4 DEF PlugInv, CallNotStale, NoChangeForgotten
<1>7. QED
  BY <1>5, <1>6 DEF PlugInv

LEMMA ReportInv == PlugInv /\ poll_report => PlugInv'
<1> SUFFICES ASSUME PlugInv, poll_report PROVE PlugInv'
  OBVIOUS
<1>1. /\ call.at = "report" /\ call' = NoCall
      /\ monitor' = [monitor EXCEPT !.baseline = call.current]
      /\ swallowed' = ~call.whole /\ UNCHANGED <<present, pending, generation>>
  BY DEF poll_report
<1>2. monitor' = [subscribed |-> monitor.subscribed, baseline |-> call.current,
                  last_generation |-> monitor.last_generation]
  BY <1>1 DEF PlugInv, PlugTypeOK
<1>3. PlugTypeOK'
  BY <1>1, <1>2 DEF PlugInv, PlugTypeOK, NoCall
<1>4. ~swallowed' /\ monitor'.baseline # present' =>
        pending' > 0 \/ generation' # monitor'.last_generation
  BY <1>1, <1>2 DEF PlugInv, CallNotStale
<1>5. CallNotStale' /\ NoChangeForgotten'
  BY <1>1, <1>4 DEF CallNotStale, NoChangeForgotten, NoCall
<1>6. QED
  BY <1>3, <1>5 DEF PlugInv

\* A list that differs from the devices is one that a notification, the counter or a
\* poll under way will put right, but for the two losses the code has.
THEOREM ChangesAreSeen == PlugSpec => []NoChangeForgotten
<1>1. PlugInv /\ [PlugNext]_plugVars => PlugInv'
  <2> SUFFICES ASSUME PlugInv, [PlugNext]_plugVars PROVE PlugInv'
    OBVIOUS
  <2>1. CASE UNCHANGED plugVars
    BY <2>1 DEF plugVars, PlugInv, PlugTypeOK, CallNotStale, NoChangeForgotten
  <2>2. QED
    BY <2>1, DeviceChangeInv, ListenerInv, StartMonitoringInv, BaselineInv, LoadInv,
       PollGenerationInv, EnumerateInv, ReportInv DEF PlugNext
<1>2. PlugInv => NoChangeForgotten
  BY DEF PlugInv
<1>3. QED
  BY <1>1, <1>2, PlugInitInv, PTL DEF PlugSpec

-----------------------------------------------------------------------------
(***************************************************************************)
(* MacHost: what the drivers' status events tell.                            *)
(***************************************************************************)
LEMMA EventAppended ==
    ASSUME NEW s \in Seq(Statuses), NEW ev \in Statuses
    PROVE  /\ Append(s, ev) \in Seq(Statuses) /\ Append(s, ev) # << >>
           /\ Last(Append(s, ev)) = ev
           /\ ToSet(Append(s, ev)) = ToSet(s) \union {ev}
           /\ Head(Append(s, ev)) = IF s = << >> THEN ev ELSE Head(s)
<1>1. PICK k \in Nat : k = Len(s) /\ k + 1 = Len(Append(s, ev))
  <2>1. Len(s) \in Nat /\ Len(Append(s, ev)) = Len(s) + 1
    OBVIOUS
  <2>2. QED
    BY <2>1
<1>2. /\ DOMAIN s = 1..k /\ DOMAIN Append(s, ev) = 1..(k + 1)
      /\ Append(s, ev)[k + 1] = ev /\ \A i \in 1..k : Append(s, ev)[i] = s[i]
  BY <1>1
<1>3. Append(s, ev) \in Seq(Statuses) /\ Append(s, ev) # << >>
  <2>1. Append(s, ev) \in Seq(Statuses)
    BY AppendProperties
  <2>2. Append(s, ev) # << >>
    BY AppendProperties
  <2>3. QED
    BY <2>1, <2>2
<1>4. Last(Append(s, ev)) = ev
  BY <1>1, <1>2 DEF Last
<1>5. ToSet(Append(s, ev)) = ToSet(s) \union {ev}
  <2>1. \A i \in 1..(k + 1) : i \in 1..k \/ i = k + 1
    OBVIOUS
  <2>2. 1..k \subseteq 1..(k + 1) /\ k + 1 \in 1..(k + 1)
    OBVIOUS
  <2>3. QED
    BY <1>2, <2>1, <2>2 DEF ToSet
<1>6. Head(Append(s, ev)) = IF s = << >> THEN ev ELSE Head(s)
  BY <1>1, <1>2
<1>7. QED
  BY <1>3, <1>4, <1>5, <1>6

LEMMA LastInSet ==
    ASSUME NEW s \in Seq(Statuses), s # << >>
    PROVE  Last(s) \in ToSet(s)
BY DEF Last, ToSet

LEMMA StreamInitInv == StreamInit => StreamInv
<1> SUFFICES ASSUME StreamInit PROVE StreamInv
  OBVIOUS
<1>1. /\ at \in {"policy", "sink"} /\ events = << >> /\ sent = 0 /\ marker = FALSE
      /\ signal = "none"
  <2>1. at = IF args.mode = "stream" THEN "policy" ELSE "sink"
    BY DEF StreamInit
  <2>2. at \in {"policy", "sink"}
    BY <2>1
  <2>3. QED
    BY <2>2 DEF StreamInit
<1>2. ToSet(events) = {} /\ events \in Seq(Statuses)
  BY <1>1 DEF ToSet
<1>3. DriverInv
  <2>1. ToSet(events) \subseteq {"start", "format"}
    BY <1>2
  <2>2. marker \in BOOLEAN /\ ~marker
    BY <1>1
  <2>3. QED
    BY <1>1, <1>2, <2>1, <2>2 DEF DriverInv
<1>4. ("end" \in ToSet(events)) = marker
  <2>1. "end" \notin ToSet(events)
    BY <1>2
  <2>2. QED
    BY <1>1, <1>3, <2>1 DEF DriverInv
<1>5. QED
  BY <1>1, <1>3, <1>4 DEF StreamInv, StatusContract

\* A step within the run prints no last word.
LEMMA RunsOn ==
    ASSUME DriverInv', at' # "exited",
           sent' > 0 => Head(events') = "start" /\ Entitled' /\ Allowed'
    PROVE  StreamInv'
<1>1. ~("end" \in ToSet(events')) /\ marker' \in BOOLEAN /\ ~marker'
  BY DEF DriverInv
<1>2. ~(events' # << >> /\ Last(events') \in Terminal)
  BY LastInSet DEF DriverInv, Terminal
<1>3. ("end" \in ToSet(events')) = marker'
  BY <1>1
<1>4. QED
  BY <1>2, <1>3 DEF StreamInv, StatusContract, Terminal, Entitled, Allowed

\* The last word is printed when the run ends, and tells whether the marker went out.
LEMMA Ends ==
    ASSUME StreamInv, at # "exited", NEW ev \in Terminal, Exit(ev),
           marker' = (ev = "end"), UNCHANGED <<args, signal, sent>>,
           sent > 0 => gate' = gate
    PROVE  StreamInv'
<1>1. /\ events \in Seq(Statuses) /\ ev \in Statuses /\ events' = Append(events, ev)
      /\ at' = "exited" /\ sent \in Nat /\ signal # "early"
  BY DEF StreamInv, DriverInv, Exit, Event, Statuses
<1>2. /\ events' \in Seq(Statuses) /\ events' # << >> /\ Last(events') = ev
      /\ ToSet(events') = ToSet(events) \union {ev}
      /\ Head(events') = IF events = << >> THEN ev ELSE Head(events)
  BY <1>1, EventAppended
<1>3. DriverInv'
  BY <1>1, <1>2 DEF DriverInv
<1>4. ("end" \in ToSet(events')) = marker'
  <2>1. "end" \notin ToSet(events)
    BY DEF StreamInv, DriverInv
  <2>2. "end" \in ToSet(events') <=> ev = "end"
    BY <1>2, <2>1
  <2>3. CASE ev = "end"
    BY <2>2, <2>3
  <2>4. CASE ev # "end"
    BY <2>2, <2>4
  <2>5. QED
    BY <2>3, <2>4
<1>5. sent > 0 => Head(events') = "start" /\ Entitled' /\ Allowed'
  BY <1>2 DEF StreamInv, DriverInv, StatusContract, Entitled, Allowed
<1>6. QED
  BY <1>1, <1>2, <1>3, <1>4, <1>5 DEF StreamInv, StatusContract, Terminal, Entitled, Allowed

\* Before the loop a driver sends nothing; a step there prints nothing, or its last word.
LEMMA PolicyInv == StreamInv /\ policy_gate => StreamInv'
<1> SUFFICES ASSUME StreamInv, policy_gate PROVE StreamInv'
  OBVIOUS
<1>1. /\ at = "policy" /\ sent = 0 /\ ~marker
      /\ UNCHANGED <<args, tcc, gate, stop_flag, signal, sent, marker>>
  BY DEF policy_gate, StreamInv, DriverInv
<1>2. CASE ~Entitled
  <2>1. Exit("fatal")
    BY <1>2 DEF policy_gate, Entitled
  <2>2. QED
    BY <1>1, <2>1, Ends DEF Terminal, StreamInv, DriverInv
<1>3. CASE Entitled
  <2>1. at' = (IF args.fixture THEN "connect" ELSE "permission") /\ events' = events
    BY <1>3 DEF policy_gate, Entitled, Quiet
  <2>2. Entitled' /\ (args.fixture => Allowed')
    BY <1>1, <1>3 DEF Entitled, Allowed
  <2>3. DriverInv'
    BY <1>1, <2>1, <2>2 DEF StreamInv, DriverInv
  <2>4. QED
    BY <1>1, <2>1, <2>3, RunsOn
<1>4. QED
  BY <1>2, <1>3

LEMMA RefreshInv == StreamInv /\ refresh => StreamInv'
<1> SUFFICES ASSUME StreamInv, refresh PROVE StreamInv'
  OBVIOUS
<1>1. /\ at = "permission" /\ sent = 0 /\ ~marker
      /\ UNCHANGED <<args, tcc, stop_flag, signal, sent, marker>>
  BY DEF refresh, StreamInv, DriverInv
<1>2. CASE ~capture_allowed(gate')
  <2>1. Exit("fatal")
    BY <1>2 DEF refresh
  <2>2. QED
    BY <1>1, <2>1, Ends DEF Terminal, StreamInv, DriverInv
<1>3. CASE capture_allowed(gate')
  <2>1. at' = "connect" /\ events' = events
    BY <1>3 DEF refresh, Quiet
  <2>2. Entitled' /\ Allowed'
    BY <1>1, <1>3 DEF StreamInv, DriverInv, Entitled, Allowed, capture_allowed
  <2>3. DriverInv'
    BY <1>1, <2>1, <2>2 DEF StreamInv, DriverInv
  <2>4. QED
    BY <1>1, <2>1, <2>3, RunsOn
<1>4. QED
  BY <1>2, <1>3

LEMMA ConnectInv == ASSUME StreamInv, NEW ok \in BOOLEAN, connect_sink(ok) PROVE StreamInv'
<1>1. /\ at = "connect" /\ sent = 0 /\ ~marker
      /\ UNCHANGED <<args, tcc, gate, stop_flag, signal, sent, marker>>
  BY DEF connect_sink, StreamInv, DriverInv
<1>2. CASE Exit("fatal")
  BY <1>1, <1>2, Ends DEF Terminal, StreamInv, DriverInv
<1>3. CASE at' = "signals" /\ Quiet
  <2>1. DriverInv'
    BY <1>1, <1>3 DEF Quiet, StreamInv, DriverInv, Entitled, Allowed
  <2>2. QED
    BY <1>1, <1>3, <2>1, RunsOn
<1>4. QED
  BY <1>2, <1>3 DEF connect_sink

LEMMA PrepareInv == StreamInv /\ (install_signal_handlers \/ ClearStop) => StreamInv'
<1> SUFFICES ASSUME StreamInv, install_signal_handlers \/ ClearStop PROVE StreamInv'
  OBVIOUS
<1>1. /\ at \in {"signals", "clear"} /\ at' \in {"clear", "start"} /\ sent = 0
      /\ signal' \in {signal, "overwritten"} /\ UNCHANGED <<args, gate, sent, marker, events>>
  BY DEF install_signal_handlers, ClearStop, Quiet, StreamInv, DriverInv
<1>2. DriverInv'
  BY <1>1 DEF StreamInv, DriverInv, Entitled, Allowed
<1>3. QED
  BY <1>1, <1>2, RunsOn

LEMMA PrintStartInv == StreamInv /\ PrintStart => StreamInv'
<1> SUFFICES ASSUME StreamInv, PrintStart PROVE StreamInv'
  OBVIOUS
<1>1. /\ at = "start" /\ at' = "format" /\ events = << >> /\ events' = Append(events, "start")
      /\ sent = 0 /\ UNCHANGED <<args, gate, signal, sent, marker>>
  BY DEF PrintStart, Event, StreamInv, DriverInv
<1>2. /\ events' \in Seq(Statuses) /\ events' # << >> /\ Head(events') = "start"
      /\ ToSet(events') = ToSet(events) \union {"start"}
  BY <1>1, EventAppended DEF StreamInv, DriverInv, Statuses
<1>3. DriverInv'
  BY <1>1, <1>2 DEF StreamInv, DriverInv, Entitled, Allowed
<1>4. QED
  BY <1>1, <1>3, RunsOn

LEMMA FormatInv == ASSUME StreamInv, NEW ok \in BOOLEAN, Format(ok) PROVE StreamInv'
<1>1. /\ at = "format" /\ sent = 0 /\ ~marker /\ events # << >> /\ Head(events) = "start"
      /\ UNCHANGED <<args, gate, stop_flag, signal, sent, marker>>
  BY DEF Format, StreamInv, DriverInv
<1>2. CASE ~ok
  <2>1. Exit("fatal")
    BY <1>2 DEF Format
  <2>2. QED
    BY <1>1, <2>1, Ends DEF Terminal, StreamInv, DriverInv
<1>3. CASE ok
  <2>1. at' \in {"streaming", "capture"} /\ events' \in {events, Append(events, "format")}
    BY <1>3 DEF Format, Event, Quiet
  <2>2. /\ events' \in Seq(Statuses) /\ events' # << >> /\ Head(events') = "start"
        /\ ToSet(events') \subseteq ToSet(events) \union {"format"}
    <3>1. events \in Seq(Statuses)
      BY DEF StreamInv, DriverInv
    <3>2. CASE events' = events
      BY <1>1, <3>1, <3>2
    <3>3. CASE events' = Append(events, "format")
      BY <1>1, <3>1, <3>3, EventAppended DEF Statuses
    <3>4. QED
      BY <2>1, <3>2, <3>3
  <2>3. DriverInv'
    BY <1>1, <2>1, <2>2 DEF StreamInv, DriverInv, Entitled, Allowed
  <2>4. QED
    BY <1>1, <2>1, <2>3, RunsOn
<1>4. QED
  BY <1>2, <1>3

LEMMA StartCaptureInv == ASSUME StreamInv, NEW ok \in BOOLEAN, start_capture(ok) PROVE StreamInv'
<1>1. /\ at = "capture" /\ sent = 0 /\ ~marker
      /\ UNCHANGED <<args, tcc, gate, stop_flag, signal, sent, marker>>
  BY DEF start_capture, StreamInv, DriverInv
<1>2. CASE Exit("fatal")
  BY <1>1, <1>2, Ends DEF Terminal, StreamInv, DriverInv
<1>3. CASE at' = "streaming" /\ Quiet
  <2>1. DriverInv'
    BY <1>1, <1>3 DEF Quiet, StreamInv, DriverInv, Entitled, Allowed
  <2>2. QED
    BY <1>1, <1>3, <2>1, RunsOn
<1>4. QED
  BY <1>2, <1>3 DEF start_capture

\* Blocks go out in the loop alone, which a driver reaches past the gates.
LEMMA BlockInv == ASSUME StreamInv, NEW ok \in BOOLEAN, StreamBlock(ok) PROVE StreamInv'
<1>1. /\ at = "streaming" /\ ~marker /\ UNCHANGED <<args, tcc, gate, stop_flag, signal, marker>>
  BY DEF StreamBlock, StreamInv, DriverInv
<1>2. CASE UNCHANGED sent /\ Exit("fatal")
  BY <1>1, <1>2, Ends DEF Terminal, StreamInv, DriverInv
<1>3. CASE sent' = sent + 1 /\ UNCHANGED at /\ Quiet
  <2>1. DriverInv' /\ Head(events') = "start" /\ Entitled' /\ Allowed'
    BY <1>1, <1>3 DEF Quiet, StreamInv, DriverInv, Entitled, Allowed
  <2>2. QED
    BY <1>1, <1>3, <2>1, RunsOn
<1>4. QED
  BY <1>2, <1>3 DEF StreamBlock

LEMMA LoopEndsInv == StreamInv /\ LoopEnds => StreamInv'
<1> SUFFICES ASSUME StreamInv, LoopEnds PROVE StreamInv'
  OBVIOUS
<1>1. at = "streaming" /\ at' = "finish" /\ UNCHANGED <<args, gate, signal, sent, marker, events>>
  BY DEF LoopEnds, Quiet
<1>2. DriverInv' /\ Head(events') = "start" /\ Entitled' /\ Allowed'
  BY <1>1 DEF StreamInv, DriverInv, Entitled, Allowed
<1>3. QED
  BY <1>1, <1>2, RunsOn

LEMMA FinishInv == ASSUME StreamInv, NEW ok \in BOOLEAN, finish(ok) PROVE StreamInv'
<1>1. at = "finish" /\ ~marker /\ UNCHANGED <<args, tcc, gate, stop_flag, signal, sent>>
  BY DEF finish, StreamInv, DriverInv
<1>2. CASE ok
  <2>1. marker' = TRUE /\ Exit("end")
    BY <1>2 DEF finish
  <2>2. QED
    BY <1>1, <2>1, Ends DEF Terminal
<1>3. CASE ~ok
  <2>1. UNCHANGED marker /\ Exit("fatal")
    BY <1>3 DEF finish
  <2>2. QED
    BY <1>1, <2>1, Ends DEF Terminal, StreamInv, DriverInv
<1>4. QED
  BY <1>2, <1>3

\* Before its handler is there, a signal ends the process without a word.
LEMMA SignalInv == StreamInv /\ on_signal => StreamInv'
<1> SUFFICES ASSUME StreamInv, on_signal PROVE StreamInv'
  OBVIOUS
<1>1. /\ at # "exited" /\ signal = "none"
      /\ UNCHANGED <<args, tcc, gate, sent, marker, events>>
  BY DEF on_signal, Quiet
<1>2. CASE at \in {"policy", "permission", "connect", "signals"}
  <2>1. signal' = "early" /\ at' = "exited" /\ events = << >> /\ sent = 0 /\ ~marker
    BY <1>2 DEF on_signal, StreamInv, DriverInv
  <2>2. QED
    BY <1>1, <2>1 DEF StreamInv, DriverInv, StatusContract
<1>3. CASE at \notin {"policy", "permission", "connect", "signals"}
  <2>1. signal' = "seen" /\ at' = at
    BY <1>3 DEF on_signal
  <2>2. DriverInv'
    BY <1>1, <2>1 DEF StreamInv, DriverInv, Entitled, Allowed
  <2>3. sent' > 0 => Head(events') = "start" /\ Entitled' /\ Allowed'
    BY <1>1 DEF StreamInv, StatusContract, Entitled, Allowed
  <2>4. QED
    BY <1>1, <2>1, <2>2, <2>3, RunsOn
<1>4. QED
  BY <1>2, <1>3

LEMMA ConsentInv == StreamInv /\ ConsentChanges => StreamInv'
BY DEF ConsentChanges, StreamInv, DriverInv, StatusContract, Entitled, Allowed

LEMMA BuildSinkInv == ASSUME StreamInv, NEW ok \in BOOLEAN, build_sink(ok) PROVE StreamInv'
<1>1. /\ at = "sink" /\ sent = 0 /\ ~marker
      /\ UNCHANGED <<args, tcc, gate, stop_flag, signal, sent, marker>>
  BY DEF build_sink, StreamInv, DriverInv
<1>2. CASE Exit("fatal")
  BY <1>1, <1>2, Ends DEF Terminal, StreamInv, DriverInv
<1>3. CASE at' = "listen" /\ Quiet
  <2>1. DriverInv'
    BY <1>1, <1>3 DEF Quiet, StreamInv, DriverInv
  <2>2. QED
    BY <1>1, <1>3, <2>1, RunsOn
<1>4. QED
  BY <1>2, <1>3 DEF build_sink

LEMMA ListenInv == ASSUME StreamInv, NEW ok \in BOOLEAN, listen(ok) PROVE StreamInv'
<1>1. /\ at = "listen" /\ sent = 0 /\ ~marker /\ events = << >>
      /\ UNCHANGED <<args, tcc, gate, stop_flag, signal, sent, marker>>
  BY DEF listen, StreamInv, DriverInv
<1>2. CASE Exit("fatal")
  BY <1>1, <1>2, Ends DEF Terminal, StreamInv, DriverInv
<1>3. CASE at' = "wait" /\ Event("start")
  <2>1. /\ events' \in Seq(Statuses) /\ events' # << >> /\ Head(events') = "start"
        /\ ToSet(events') = ToSet(events) \union {"start"}
    BY <1>1, <1>3, EventAppended DEF Event, StreamInv, DriverInv, Statuses
  <2>2. DriverInv'
    BY <1>1, <1>3, <2>1 DEF StreamInv, DriverInv
  <2>3. QED
    BY <1>1, <1>3, <2>2, RunsOn
<1>4. QED
  BY <1>2, <1>3 DEF listen

LEMMA WaitInv == ASSUME StreamInv, NEW ok \in BOOLEAN, wait(ok) PROVE StreamInv'
<1>1. /\ at = "wait" /\ sent = 0 /\ ~marker
      /\ UNCHANGED <<args, tcc, gate, stop_flag, signal, sent, marker>>
  BY DEF wait, StreamInv, DriverInv
<1>2. PICK ev \in {"complete", "fatal"} : Exit(ev)
  BY DEF wait
<1>3. QED
  BY <1>1, <1>2, Ends DEF Terminal, StreamInv, DriverInv

\* The printed events can be trusted: "end" is the flushed marker, the last word is the
\* last, and blocks went out only past the gates.
THEOREM EventsCanBeTrusted == StreamSpec => []StatusContract
<1>1. StreamInv /\ [StreamNext]_streamVars => StreamInv'
  <2> SUFFICES ASSUME StreamInv, [StreamNext]_streamVars PROVE StreamInv'
    OBVIOUS
  <2>1. CASE UNCHANGED streamVars
    BY <2>1 DEF streamVars, StreamInv, DriverInv, StatusContract, Entitled, Allowed
  <2>2. RunStream => StreamInv'
    BY PolicyInv, RefreshInv, ConnectInv, PrepareInv, PrintStartInv, FormatInv,
       StartCaptureInv, BlockInv, LoopEndsInv, FinishInv DEF RunStream
  <2>3. RunReceive => StreamInv'
    BY BuildSinkInv, ListenInv, WaitInv DEF RunReceive
  <2>4. QED
    BY <2>1, <2>2, <2>3, ConsentInv, SignalInv DEF StreamNext
<1>2. StreamInv => StatusContract
  BY DEF StreamInv
<1>3. QED
  BY <1>1, <1>2, StreamInitInv, PTL DEF StreamSpec

-----------------------------------------------------------------------------
(***************************************************************************)
(* AndroidEmitter: stopping is clean.                                        *)
(***************************************************************************)

\* Queues, as sequences over the messages they may hold.
LEMMA SeqFrom ==
    ASSUME NEW S, NEW T, NEW q \in Seq(S), \A i \in 1..Len(q) : q[i] \in T
    PROVE  q \in Seq(T)
OBVIOUS

LEMMA SeqWithin ==
    ASSUME NEW S, NEW T, S \subseteq T, NEW q \in Seq(S)
    PROVE  q \in Seq(T)
OBVIOUS

LEMMA Taken ==
    ASSUME NEW S, NEW q \in Seq(S), q # << >>
    PROVE  /\ Len(q) \in Nat \ {0} /\ DOMAIN q = 1..Len(q)
           /\ Head(q) \in S /\ Head(q) = q[1]
           /\ Tail(q) \in Seq(S) /\ Len(Tail(q)) = Len(q) - 1
           /\ \A i \in 1..(Len(q) - 1) : Tail(q)[i] = q[i + 1]
OBVIOUS

LEMMA Added ==
    ASSUME NEW S, NEW q \in Seq(S), NEW m \in S
    PROVE  /\ Len(q) \in Nat /\ DOMAIN q = 1..Len(q)
           /\ Append(q, m) \in Seq(S) /\ Len(Append(q, m)) = Len(q) + 1
           /\ DOMAIN Append(q, m) = 1..(Len(q) + 1)
           /\ Append(q, m)[Len(q) + 1] = m
           /\ \A i \in 1..Len(q) : Append(q, m)[i] = q[i]
OBVIOUS

LEMMA OnlyWithin ==
    ASSUME NEW K, NEW L, K \subseteq L, NEW q \in Seq(Only(K))
    PROVE  q \in Seq(Only(L))
<1>1. Only(K) \subseteq Only(L)
  BY DEF Only
<1>2. QED
  BY <1>1, SeqWithin

\* A kind that the two queues together do not hold, neither holds.
LEMMA NeitherHolds ==
    ASSUME NEW K, NEW L, looper \in Seq(Only(L)), intents \in Seq(Only(L)),
           ~ \E m \in ToSet(looper \o intents) : m.what \in K
    PROVE  looper \in Seq(Only(L \ K)) /\ intents \in Seq(Only(L \ K))
<1>1. PICK n \in Nat, k \in Nat : n = Len(looper) /\ k = Len(intents)
  BY LenProperties
<1>2. /\ Len(looper \o intents) = n + k /\ looper \o intents \in Seq(Only(L))
      /\ \A i \in 1..n : (looper \o intents)[i] = looper[i]
      /\ \A i \in 1..k : (looper \o intents)[n + i] = intents[i]
  BY <1>1, ConcatProperties
<1>3. PICK u : u = looper \o intents
  OBVIOUS
<1>4. DOMAIN u = 1..(n + k)
  BY <1>2, <1>3
<1>5. \A i \in 1..(n + k) : u[i].what \notin K
  BY <1>3, <1>4 DEF ToSet
<1>6. \A i \in 1..n : i \in 1..(n + k)
  BY <1>1
<1>7. \A i \in 1..k : n + i \in 1..(n + k)
  BY <1>1
<1>8. \A i \in 1..n : looper[i] \in Only(L \ K)
  <2>1. ASSUME NEW i \in 1..n PROVE looper[i] \in Only(L) /\ looper[i].what \notin K
    <3>1. looper[i] \in Only(L)
      BY <1>1
    <3>2. i \in 1..(n + k) /\ u[i] = looper[i]
      BY <1>2, <1>3, <1>6
    <3>3. u[i].what \notin K
      BY <1>5, <3>2
    <3>4. QED
      BY <3>1, <3>2, <3>3
  <2>2. QED
    BY <2>1 DEF Only
<1>9. \A i \in 1..k : intents[i] \in Only(L \ K)
  <2>1. ASSUME NEW i \in 1..k PROVE intents[i] \in Only(L) /\ intents[i].what \notin K
    <3>1. intents[i] \in Only(L)
      BY <1>1
    <3>2. /\ n + i \in 1..(n + k)
          /\ u[n + i] = intents[i]
      BY <1>2, <1>3, <1>7
    <3>3. u[n + i].what \notin K
      BY <1>5, <3>2
    <3>4. QED
      BY <3>1, <3>2, <3>3
  <2>2. QED
    BY <2>1 DEF Only
<1>10. looper \in Seq(Only(L \ K))
  <2>1. \A i \in 1..Len(looper) : looper[i] \in Only(L \ K)
    BY <1>1, <1>8
  <2>2. QED
    BY <2>1, SeqFrom
<1>11. intents \in Seq(Only(L \ K))
  <2>1. \A i \in 1..Len(intents) : intents[i] \in Only(L \ K)
    BY <1>1, <1>9
  <2>2. QED
    BY <2>1, SeqFrom
<1>12. QED
  BY <1>10, <1>11

\* A result among leftovers, and a start that is last: queued, kept, and taken.
LEMMA ResultQueued ==
    ASSUME NEW q \in Seq(Only(Leftovers \union {"onStop"})), NEW m \in Messages, NEW c,
           m.what = "result", m.consent = c
    PROVE  ResultAmong(Append(q, m), c)
<1>1. PICK n \in Nat : n = Len(q)
  BY LenProperties
<1>2. q \in Seq(Messages) /\ \A i \in 1..n : q[i].what \in Leftovers \union {"onStop"}
  <2>1. q \in Seq(Messages)
    BY SeqWithin DEF Only
  <2>2. QED
    BY <1>1, <2>1 DEF Only
<1>3. PICK r : r = Append(q, m)
  OBVIOUS
<1>4. DOMAIN r = 1..(n + 1) /\ r[n + 1] = m /\ \A i \in 1..n : r[i] = q[i]
  BY <1>1, <1>2, <1>3, Added
<1>5. \A i \in 1..(n + 1) : i = n + 1 \/ (i \in 1..n /\ i < n + 1)
  OBVIOUS
<1>6. n + 1 \in DOMAIN r
  BY <1>4
<1>7. \A i \in DOMAIN r : i = n + 1
              \/ r[i].what \in Leftovers \/ (r[i].what = "onStop" /\ i < n + 1)
  <2>1. ASSUME NEW i \in 1..n
        PROVE  (r[i].what \in Leftovers \/ r[i].what = "onStop") /\ i < n + 1
    BY <1>2, <1>4
  <2>2. QED
    BY <1>4, <1>5, <2>1
<1>8. ResultAmong(r, c)
  BY <1>4, <1>6, <1>7 DEF ResultAmong
<1>9. QED
  BY <1>3, <1>8

LEMMA ResultTail ==
    ASSUME NEW q \in Seq(Messages), NEW c, q # << >>, ResultAmong(q, c),
           Head(q).what # "result"
    PROVE  /\ Head(q).what \in Leftovers \union {"onStop"}
           /\ ResultAmong(Tail(q), c)
<1>1. PICK n \in Nat \ {0} : n = Len(q)
  BY Taken
<1>2. DOMAIN q = 1..n /\ Head(q) = q[1]
  BY <1>1, Taken
<1>3. PICK t : t = Tail(q)
  OBVIOUS
<1>4. t \in Seq(Messages) /\ Len(t) = n - 1 /\ \A i \in 1..(n - 1) : t[i] = q[i + 1]
  BY <1>1, <1>3, Taken
<1>5. DOMAIN t = 1..(n - 1)
  BY <1>4
<1>6. PICK j \in DOMAIN q :
        /\ q[j].what = "result" /\ q[j].consent = c
        /\ \A i \in DOMAIN q : i = j
              \/ q[i].what \in Leftovers \/ (q[i].what = "onStop" /\ i < j)
  BY DEF ResultAmong
<1>7. j # 1 /\ 1 \in 1..n
  BY <1>2, <1>6
<1>8. Head(q).what \in Leftovers \union {"onStop"}
  BY <1>2, <1>6, <1>7
<1>9. j - 1 \in 1..(n - 1) /\ (j - 1) + 1 = j
  BY <1>2, <1>7
<1>10. t[j - 1] = q[j]
  BY <1>4, <1>9
<1>11. \A i \in 1..(n - 1) : /\ i + 1 \in 1..n /\ t[i] = q[i + 1]
                             /\ (i + 1 = j => i = j - 1) /\ (i + 1 < j => i < j - 1)
  BY <1>4
<1>12. \A i \in DOMAIN t : i = j - 1
              \/ t[i].what \in Leftovers \/ (t[i].what = "onStop" /\ i < j - 1)
  <2>1. ASSUME NEW i \in 1..(n - 1)
        PROVE  /\ i + 1 \in DOMAIN q /\ t[i] = q[i + 1]
               /\ (i + 1 = j => i = j - 1) /\ (i + 1 < j => i < j - 1)
    BY <1>2, <1>11
  <2>2. ASSUME NEW i \in 1..(n - 1)
        PROVE  i = j - 1 \/ t[i].what \in Leftovers \/ (t[i].what = "onStop" /\ i < j - 1)
    BY <1>6, <2>1
  <2>3. QED
    BY <1>5, <2>2
<1>13. ResultAmong(t, c)
  BY <1>5, <1>6, <1>9, <1>10, <1>12 DEF ResultAmong
<1>14. QED
  BY <1>3, <1>8, <1>13

LEMMA ResultAppend ==
    ASSUME NEW q \in Seq(Messages), NEW c, ResultAmong(q, c),
           NEW m \in Messages, m.what \in Leftovers
    PROVE  ResultAmong(Append(q, m), c)
<1>1. PICK n \in Nat : n = Len(q)
  BY LenProperties
<1>2. PICK r : r = Append(q, m)
  OBVIOUS
<1>3. DOMAIN r = 1..(n + 1) /\ r[n + 1] = m /\ \A i \in 1..n : r[i] = q[i]
  BY <1>1, <1>2, Added
<1>4. PICK j \in DOMAIN q :
        /\ q[j].what = "result" /\ q[j].consent = c
        /\ \A i \in DOMAIN q : i = j
              \/ q[i].what \in Leftovers \/ (q[i].what = "onStop" /\ i < j)
  BY DEF ResultAmong
<1>5. \A i \in 1..(n + 1) : i \in 1..n \/ i = n + 1
  OBVIOUS
<1>6. j \in 1..n /\ DOMAIN q = 1..n /\ j \in DOMAIN r /\ r[j] = q[j]
  BY <1>1, <1>3, <1>4, <1>5
<1>7. \A i \in DOMAIN r : i = j
              \/ r[i].what \in Leftovers \/ (r[i].what = "onStop" /\ i < j)
  <2>1. ASSUME NEW i \in 1..n
        PROVE  i = j \/ r[i].what \in Leftovers \/ (r[i].what = "onStop" /\ i < j)
    BY <1>3, <1>4, <1>6
  <2>2. QED
    BY <1>3, <1>5, <2>1
<1>8. ResultAmong(r, c)
  BY <1>4, <1>6, <1>7 DEF ResultAmong
<1>9. QED
  BY <1>2, <1>8

LEMMA ResultHead ==
    ASSUME NEW q \in Seq(Messages), NEW c, q # << >>, ResultAmong(q, c),
           Head(q).what = "result"
    PROVE  Head(q).consent = c /\ Tail(q) \in Seq(Only(Leftovers))
<1>1. PICK n \in Nat \ {0} : n = Len(q)
  BY Taken
<1>2. DOMAIN q = 1..n /\ Head(q) = q[1] /\ 1 \in 1..n
  BY <1>1, Taken
<1>3. PICK t : t = Tail(q)
  OBVIOUS
<1>4. t \in Seq(Messages) /\ Len(t) = n - 1 /\ \A i \in 1..(n - 1) : t[i] = q[i + 1]
  BY <1>1, <1>3, Taken
<1>5. PICK j \in DOMAIN q :
        /\ q[j].what = "result" /\ q[j].consent = c
        /\ \A i \in DOMAIN q : i = j
              \/ q[i].what \in Leftovers \/ (q[i].what = "onStop" /\ i < j)
  BY DEF ResultAmong
<1>6. j = 1
  BY <1>2, <1>5 DEF Leftovers
<1>7. \A i \in 1..(n - 1) : i + 1 \in 1..n /\ i + 1 # j /\ ~(i + 1 < j)
  BY <1>6
<1>8. \A i \in 1..(n - 1) : t[i] \in Messages /\ t[i].what \in Leftovers
  <2>1. ASSUME NEW i \in 1..(n - 1)
        PROVE  i + 1 \in DOMAIN q /\ i + 1 # j /\ ~(i + 1 < j) /\ t[i] = q[i + 1]
    BY <1>2, <1>4, <1>7
  <2>2. ASSUME NEW i \in 1..(n - 1) PROVE t[i].what \in Leftovers
    BY <1>5, <2>1
  <2>3. QED
    BY <1>4, <2>2
<1>9. \A i \in 1..Len(t) : t[i] \in Only(Leftovers)
  BY <1>4, <1>8 DEF Only
<1>10. t \in Seq(Only(Leftovers))
  BY <1>4, <1>9, SeqFrom
<1>11. QED
  BY <1>2, <1>3, <1>5, <1>6, <1>10

LEMMA StartQueued ==
    ASSUME NEW K, NEW q \in Seq(Only(K)), NEW m \in Messages, NEW c,
           m.what = "start", m.consent = c
    PROVE  StartIsLast(Append(q, m), c, K)
<1>1. PICK n \in Nat : n = Len(q)
  BY LenProperties
<1>2. q \in Seq(Messages) /\ \A i \in 1..n : q[i].what \in K
  <2>1. q \in Seq(Messages)
    BY SeqWithin DEF Only
  <2>2. QED
    BY <1>1, <2>1 DEF Only
<1>3. PICK r : r = Append(q, m)
  OBVIOUS
<1>4. /\ r \in Seq(Messages) /\ Len(r) = n + 1 /\ r[n + 1] = m
      /\ \A i \in 1..n : r[i] = q[i]
  BY <1>1, <1>2, <1>3, Added
<1>5. r # << >> /\ (n + 1) - 1 = n
  BY <1>4
<1>6. StartIsLast(r, c, K)
  BY <1>2, <1>4, <1>5 DEF StartIsLast
<1>7. QED
  BY <1>3, <1>6

LEMMA StartHead ==
    ASSUME NEW K, "start" \notin K, NEW q \in Seq(Messages), NEW c, StartIsLast(q, c, K),
           Head(q).what = "start"
    PROVE  Head(q).consent = c /\ Tail(q) = << >>
<1>1. q # << >>
  BY DEF StartIsLast
<1>2. PICK n \in Nat \ {0} : n = Len(q)
  BY <1>1, Taken
<1>3. Head(q) = q[1] /\ Tail(q) \in Seq(Messages) /\ Len(Tail(q)) = n - 1
  BY <1>1, <1>2, Taken
<1>4. \A i \in 1..(n - 1) : q[i].what \in K
  BY <1>2 DEF StartIsLast
<1>5. n = 1
  <2>1. 1 \notin 1..(n - 1)
    BY <1>3, <1>4
  <2>2. QED
    BY <2>1
<1>6. q[1].consent = c
  BY <1>2, <1>5 DEF StartIsLast
<1>7. Tail(q) = << >>
  <2>1. Len(Tail(q)) = 0
    BY <1>3, <1>5
  <2>2. QED
    BY <1>3, <2>1, EmptySeq
<1>8. QED
  BY <1>3, <1>6, <1>7

LEMMA StartTail ==
    ASSUME NEW K, NEW q \in Seq(Messages), NEW c, StartIsLast(q, c, K),
           Head(q).what # "start"
    PROVE  Head(q).what \in K /\ StartIsLast(Tail(q), c, K)
<1>1. q # << >>
  BY DEF StartIsLast
<1>2. PICK n \in Nat \ {0} : n = Len(q)
  BY <1>1, Taken
<1>3. PICK t : t = Tail(q)
  OBVIOUS
<1>4. /\ Head(q) = q[1] /\ t \in Seq(Messages) /\ Len(t) = n - 1
      /\ \A i \in 1..(n - 1) : t[i] = q[i + 1]
  BY <1>1, <1>2, <1>3, Taken
<1>5. /\ \A i \in 1..(n - 1) : q[i].what \in K
      /\ q[n].what = "start" /\ q[n].consent = c
  BY <1>2 DEF StartIsLast
<1>6. n # 1 /\ 1 \in 1..(n - 1) /\ n - 1 \in 1..(n - 1) /\ (n - 1) + 1 = n
  <2>1. n # 1
    BY <1>4, <1>5
  <2>2. QED
    BY <2>1
<1>7. t[n - 1] = q[n]
  BY <1>4, <1>6
<1>8. \A i \in 1..((n - 1) - 1) : i \in 1..(n - 1) /\ i + 1 \in 1..(n - 1)
  OBVIOUS
<1>9. \A i \in 1..((n - 1) - 1) : t[i].what \in K
  BY <1>4, <1>5, <1>8
<1>10. t # << >>
  BY <1>4, <1>6
<1>11. StartIsLast(t, c, K)
  BY <1>4, <1>5, <1>7, <1>9, <1>10 DEF StartIsLast
<1>12. QED
  BY <1>3, <1>4, <1>5, <1>6, <1>11

LEMMA AndroidInitInv == AndroidInit => AndroidInv
<1> SUFFICES ASSUME AndroidInit PROVE AndroidInv
  OBVIOUS
<1>1. AndroidTypeOK
  BY DEF AndroidInit, AndroidTypeOK, Between, NoFields, Unset
<1>2. FieldsMatch
  BY DEF AndroidInit, FieldsMatch, Between, NoFields, Unset, Current, FieldsOf
<1>3. SessionAlone /\ ThreadAlone
  BY DEF AndroidInit, SessionAlone, ThreadAlone, NoFields, Current
<1>4. OneConsent
  BY DEF AndroidInit, OneConsent, NoConsent
<1>5. QED
  BY <1>1, <1>2, <1>3, <1>4
    DEF AndroidInit, AndroidInv, Tidy, DialogOpen, Unharmed, ShowsTruth, OnMain, isCapturing,
        NoFields, Unset

\* Between two messages the fields are those of the current session, or of none.
LEMMA FieldsBetween ==
    ASSUME Tidy, OnMain
    PROVE  /\ handler = Between /\ handler.then = "none" /\ handler.step = "idle"
           /\ fields = FieldsOf(Current, Current, Current) /\ fields.capture = Current
           /\ Current \in Nat
BY DEF Tidy, FieldsMatch, OnMain, Between, FieldsOf, Current, AndroidTypeOK

\* A session has no consent under way, and its own messages queued.
LEMMA SessionFacts ==
    ASSUME Tidy, Current # Unset
    PROVE  /\ NoConsent /\ dialogs.open = 0 /\ Current \in (1..granted) \ finished
           /\ looper \in Seq(OwnMessages) /\ intents \in Seq(Only({"stop"}))
           /\ registered \subseteq {[consent |-> Current, service |-> service.instance]}
           /\ handler.then # "destroy"
BY DEF Tidy, SessionAlone, OneConsent, FieldsMatch, AndroidTypeOK, Unset

\* Without a session no capture thread runs.
LEMMA NoThread ==
    ASSUME Tidy, Current = Unset, NEW k \in Consents
    PROVE  thread[k].step \in {"none", "exited"}
BY DEF Tidy, ThreadAlone, Consents, Unset

-----------------------------------------------------------------------------
LEMMA StopTappedInv == ASSUME Tidy, StopTapped PROVE Tidy'
<1>1. /\ OnMain /\ isCapturing /\ intents' = Append(intents, Message("stop", Unset))
      /\ UNCHANGED <<looper, dialogs, granted, mixed, thread, service, handler, fields,
                     registered, finished, display, crashed>>
  BY DEF StopTapped, threadVars, serviceVars
<1>2. Current # Unset
  BY <1>1, FieldsBetween DEF Tidy, ShowsTruth
<1>3. Message("stop", Unset) \in Only({"stop"})
  BY DEF Message, Only, Messages, Unset, Tidy, AndroidTypeOK
<1>4. intents \in Seq(Only({"stop"})) /\ intents' \in Seq(Only({"stop"}))
  BY <1>1, <1>2, <1>3, SessionFacts
<1>5. AndroidTypeOK'
  <2>1. intents' \in Seq(Messages)
    BY <1>4, SeqWithin DEF Only
  <2>2. QED
    BY <1>1, <2>1 DEF Tidy, AndroidTypeOK
<1>6. FieldsMatch' /\ ThreadAlone'
  BY <1>1 DEF Tidy, FieldsMatch, ThreadAlone, Current
<1>7. SessionAlone'
  BY <1>1, <1>2, <1>4 DEF Tidy, SessionAlone, Current, OwnMessages
<1>8. OneConsent'
  <2>1. NoConsent
    BY <1>2, SessionFacts
  <2>2. intents' \in Seq(Only({"stop", "destroy"}))
    BY <1>4, OnlyWithin
  <2>3. NoConsent'
    BY <1>1, <2>1, <2>2 DEF NoConsent
  <2>4. QED
    BY <2>3 DEF OneConsent
<1>9. QED
  BY <1>1, <1>5, <1>6, <1>7, <1>8 DEF Tidy, DialogOpen, Unharmed, ShowsTruth, OnMain,
     isCapturing

\* A result or a start that is under way is in one of the queues.
LEMMA UnderwayInQueues ==
    ASSUME AndroidTypeOK, Resulted \/ Starting
    PROVE  \E m \in ToSet(looper \o intents) : m.what \in {"result", "start"}
<1>1. PICK n \in Nat, k \in Nat : n = Len(looper) /\ k = Len(intents)
  BY LenProperties DEF AndroidTypeOK
<1>2. /\ Len(looper \o intents) = n + k /\ looper \o intents \in Seq(Messages)
      /\ \A i \in 1..n : (looper \o intents)[i] = looper[i]
      /\ \A i \in 1..k : (looper \o intents)[n + i] = intents[i]
  BY <1>1, ConcatProperties DEF AndroidTypeOK
<1>3. PICK u : u = looper \o intents
  OBVIOUS
<1>4. DOMAIN u = 1..(n + k) /\ DOMAIN looper = 1..n /\ DOMAIN intents = 1..k
  BY <1>1, <1>2, <1>3 DEF AndroidTypeOK
<1>5. SUFFICES \E i \in 1..(n + k) : u[i].what \in {"result", "start"}
  BY <1>3, <1>4 DEF ToSet
<1>6. CASE \E i \in 1..n : looper[i].what \in {"result", "start"}
  <2>1. PICK i \in 1..n : looper[i].what \in {"result", "start"}
    BY <1>6
  <2>2. i \in 1..(n + k) /\ u[i] = looper[i]
    BY <1>2, <1>3, <2>1
  <2>3. QED
    BY <2>1, <2>2
<1>7. CASE \E i \in 1..k : intents[i].what \in {"result", "start"}
  <2>1. PICK i \in 1..k : intents[i].what \in {"result", "start"}
    BY <1>7
  <2>2. n + i \in 1..(n + k) /\ u[n + i] = intents[i]
    BY <1>2, <1>3, <2>1
  <2>3. QED
    BY <2>1, <2>2
<1>8. CASE Resulted
  BY <1>4, <1>6, <1>8 DEF Resulted, ResultAmong
<1>9. ASSUME StartIsLast(looper, granted, Leftovers) PROVE \E i \in 1..n : looper[i].what \in {"result", "start"}
  BY <1>1, <1>9 DEF StartIsLast, AndroidTypeOK
<1>10. ASSUME StartIsLast(intents, granted, {"destroy"})
       PROVE  \E i \in 1..k : intents[i].what \in {"result", "start"}
  BY <1>1, <1>10 DEF StartIsLast, AndroidTypeOK
<1>11. QED
  BY <1>6, <1>7, <1>8, <1>9, <1>10 DEF Starting

\* No consent is asked for while another or a stop is under way: the queues hold
\* leftovers alone.
LEMMA RequestInv == ASSUME Tidy, requestConsent, ~hurried' PROVE Tidy'
<1>1. /\ OnMain /\ ~isCapturing /\ dialogs' = [dialogs EXCEPT !.open = @ + 1]
      /\ UNCHANGED <<looper, intents, granted, mixed, thread, service, handler, fields,
                     registered, finished, display, crashed>>
  BY DEF requestConsent, threadVars, serviceVars
<1>2. /\ ~(dialogs.open > 0)
      /\ ~ \E m \in ToSet(looper \o intents) : m.what \in {"result", "start", "stop"}
  BY DEF requestConsent
<1>3. dialogs.open = 0 /\ dialogs' = [open |-> 1, shown |-> dialogs.shown]
      /\ dialogs.shown \in BOOLEAN
  <2>1. dialogs \in [open : Nat, shown : BOOLEAN]
    BY DEF Tidy, AndroidTypeOK
  <2>2. dialogs.open = 0
    BY <1>2, <2>1
  <2>3. QED
    BY <1>1, <2>1, <2>2
<1>4. Current = Unset /\ handler.then = "none"
  BY <1>1, FieldsBetween DEF Tidy, ShowsTruth
<1>5. NoConsent
  <2>1. ASSUME Resulted \/ Starting PROVE FALSE
    <3>1. PICK m \in ToSet(looper \o intents) : m.what \in {"result", "start"}
      BY <2>1, UnderwayInQueues DEF Tidy
    <3>2. QED
      BY <1>2, <3>1
  <2>2. ~Asked
    BY <1>3 DEF Asked
  <2>3. QED
    BY <2>1, <2>2 DEF Tidy, OneConsent
<1>6. Asked'
  <2> DEFINE L == Leftovers \union {"stop", "onStop"}
             K == {"result", "start", "stop"}
  <2>1. looper \in Seq(Only(L)) /\ intents \in Seq(Only({"stop", "destroy"}))
    BY <1>5 DEF NoConsent
  <2>2. intents \in Seq(Only(L))
    BY <2>1, OnlyWithin DEF Leftovers
  <2>3. looper \in Seq(Only(L \ K))
    BY <1>2, <2>1, <2>2, NeitherHolds
  <2>4. looper \in Seq(Only(Leftovers \union {"onStop"}))
    BY <2>3, OnlyWithin
  <2>5. intents \in Seq(Only({"destroy"}))
    <3>1. \A i \in 1..Len(intents) : intents[i] \in Only({"destroy"})
      <4>1. intents \in Seq(Only(L \ K))
        BY <1>2, <2>1, <2>2, NeitherHolds
      <4>2. ASSUME NEW i \in 1..Len(intents) PROVE intents[i] \in Only({"destroy"})
        <5>1. intents[i] \in Only(L \ K) /\ intents[i] \in Only({"stop", "destroy"})
          BY <2>1, <4>1
        <5>2. QED
          BY <5>1 DEF Only
      <4>3. QED
        BY <4>2
    <3>2. QED
      BY <2>1, <3>1, SeqFrom
  <2>6. QED
    BY <1>1, <1>3, <2>4, <2>5 DEF Asked
<1>7. AndroidTypeOK'
  <2>1. dialogs' \in [open : Nat, shown : BOOLEAN]
    BY <1>3
  <2>2. QED
    BY <1>1, <2>1 DEF Tidy, AndroidTypeOK
<1>8. FieldsMatch' /\ ThreadAlone' /\ SessionAlone'
  BY <1>1, <1>4 DEF Tidy, FieldsMatch, ThreadAlone, SessionAlone, Current
<1>9. OneConsent'
  BY <1>1, <1>4, <1>6 DEF OneConsent, Current
<1>10. DialogOpen'
  BY <1>3 DEF DialogOpen
<1>11. QED
  BY <1>1, <1>7, <1>8, <1>9, <1>10 DEF Tidy, Unharmed, ShowsTruth, OnMain, isCapturing

LEMMA DialogShownInv == ASSUME Tidy, DialogShown PROVE Tidy'
<1>1. /\ dialogs.open > 0 /\ dialogs' = [dialogs EXCEPT !.shown = TRUE]
      /\ UNCHANGED <<looper, intents, granted, mixed, thread, service, handler, fields,
                     registered, finished, display, crashed>>
  BY DEF DialogShown, threadVars, serviceVars
<1>2. dialogs' = [open |-> dialogs.open, shown |-> TRUE] /\ dialogs.open \in Nat
  BY <1>1 DEF Tidy, AndroidTypeOK
<1>3. AndroidTypeOK' /\ DialogOpen'
  BY <1>1, <1>2 DEF Tidy, AndroidTypeOK, DialogOpen
<1>4. FieldsMatch' /\ ThreadAlone' /\ SessionAlone'
  BY <1>1, <1>2 DEF Tidy, FieldsMatch, ThreadAlone, SessionAlone, Current, OwnMessages
<1>5. OneConsent'
  BY <1>1, <1>2 DEF Tidy, OneConsent, NoConsent, Asked, Resulted, Starting, Current
<1>6. QED
  BY <1>1, <1>3, <1>4, <1>5 DEF Tidy, Unharmed, ShowsTruth, OnMain, isCapturing

\* The consent granted now is of no earlier session, and its result is queued last.
LEMMA AnswerInv == ASSUME Tidy, NEW ok \in BOOLEAN, Answer(ok) PROVE Tidy'
<1>1. /\ dialogs.shown /\ dialogs' = [open |-> dialogs.open - 1, shown |-> dialogs.open > 1]
      /\ granted' = (IF ok THEN granted + 1 ELSE granted)
      /\ looper' = (IF ok THEN Append(looper, Message("result", granted + 1)) ELSE looper)
      /\ UNCHANGED <<intents, mixed, thread, service, handler, fields, registered, finished,
                     display, crashed>>
  BY DEF Answer, threadVars, serviceVars
<1>2. granted \in Nat /\ finished \subseteq 1..granted
  BY DEF Tidy, AndroidTypeOK
<1>3. Asked /\ Current = Unset /\ handler.then # "stop"
  <2>1. dialogs.open # 0
    BY <1>1 DEF Tidy, DialogOpen
  <2>2. QED
    BY <2>1 DEF Tidy, OneConsent, NoConsent, Resulted, Starting
<1>4. dialogs' = [open |-> 0, shown |-> FALSE]
  <2>1. dialogs.open = 1
    BY <1>3 DEF Asked
  <2>2. (dialogs.open > 1) = FALSE
    BY <2>1
  <2>3. dialogs.open - 1 = 0
    BY <2>1
  <2>4. QED
    BY <1>1, <2>2, <2>3
<1> DEFINE K == Leftovers \union {"onStop"}
           m == Message("result", granted + 1)
<1>5. looper \in Seq(Only(K)) /\ intents \in Seq(Only({"destroy"}))
  BY <1>3 DEF Asked
<1>6. m \in Messages /\ m.what = "result" /\ m.consent = granted + 1
  BY <1>2 DEF Message, Messages, Tidy, AndroidTypeOK
<1> HIDE DEF m
<1>7. looper' \in Seq(Messages)
  BY <1>1, <1>6 DEF Tidy, AndroidTypeOK, m
<1>8. granted' \in Nat /\ granted <= granted' /\ (ok => granted' \in (1..granted') \ finished)
  BY <1>1, <1>2
<1>9. finished \subseteq 1..granted'
  BY <1>2, <1>8
<1>10. AndroidTypeOK'
  BY <1>1, <1>4, <1>7, <1>8, <1>9, SMTT(30) DEF Tidy, AndroidTypeOK
<1>11. FieldsMatch'
  <2>1. Current \in 0..granted' \ finished
    BY <1>2, <1>3, <1>8, <1>9 DEF Unset
  <2>2. QED
    BY <1>1, <2>1 DEF Tidy, FieldsMatch, Current
<1>12. ThreadAlone' /\ SessionAlone'
  BY <1>1, <1>3 DEF Tidy, ThreadAlone, SessionAlone, Current
<1>13. OneConsent'
  <2>1. CASE ok
    <3>1. looper' = Append(looper, m) /\ granted' = granted + 1
      BY <1>1, <2>1 DEF m
    <3>2. ResultAmong(looper', granted')
      BY <1>5, <1>6, <3>1, ResultQueued
    <3>3. dialogs'.open = 0
      BY <1>4
    <3>4. intents' \in Seq(Only({"destroy"}))
      BY <1>1, <1>5
    <3>5. Resulted'
      BY <3>2, <3>3, <3>4 DEF Resulted
    <3>6. QED
      BY <1>1, <1>3, <1>8, <2>1, <3>5 DEF OneConsent, Current
  <2>2. CASE ~ok
    <3>1. looper' = looper /\ intents' = intents
      BY <1>1, <2>2
    <3>2. looper \in Seq(Only(Leftovers \union {"stop", "onStop"}))
            /\ intents \in Seq(Only({"stop", "destroy"}))
      BY <1>5, OnlyWithin
    <3>3. QED
      BY <1>4, <3>1, <3>2 DEF OneConsent, NoConsent
  <2>3. QED
    BY <2>1, <2>2
<1>14. DialogOpen'
  BY <1>4 DEF DialogOpen
<1>15. QED
  BY <1>1, <1>10, <1>11, <1>12, <1>13, <1>14 DEF Tidy, Unharmed, ShowsTruth, OnMain, isCapturing

-----------------------------------------------------------------------------
\* One message more, and one less.
LEMMA MoreOf ==
    ASSUME NEW K, NEW q \in Seq(Only(K)), NEW m \in Messages, m.what \in K
    PROVE  Append(q, m) \in Seq(Only(K))
<1>1. m \in Only(K)
  BY DEF Only
<1>2. QED
  BY <1>1

LEMMA LessOf ==
    ASSUME NEW K, NEW q \in Seq(Only(K)), q # << >>
    PROVE  /\ Head(q) \in Messages /\ Head(q).what \in K
           /\ Tail(q) \in Seq(Only(K))
<1>1. Head(q) \in Only(K) /\ Tail(q) \in Seq(Only(K))
  BY Taken
<1>2. QED
  BY <1>1 DEF Only

\* Handling what is neither a result nor a start leaves the consent where it is.
LEMMA HeadGone ==
    ASSUME Tidy, looper # << >>, Head(looper).what \notin {"result", "start"},
           looper' = Tail(looper), UNCHANGED <<intents, dialogs, granted>>
    PROVE  /\ NoConsent => NoConsent'
           /\ Asked => Asked'
           /\ Resulted => Resulted'
           /\ Starting => Starting'
<1>1. looper \in Seq(Messages)
  BY DEF Tidy, AndroidTypeOK
<1>2. ASSUME NoConsent PROVE NoConsent'
  BY <1>2, LessOf DEF NoConsent
<1>3. ASSUME Asked PROVE Asked'
  BY <1>3, LessOf DEF Asked
<1>4. ASSUME Resulted PROVE Resulted'
  <2>1. ResultAmong(looper', granted)
    BY <1>1, <1>4, ResultTail DEF Resulted
  <2>2. QED
    BY <1>4, <2>1 DEF Resulted
<1>5. ASSUME Starting PROVE Starting'
  <2>1. CASE looper \in Seq(Only(Leftovers)) /\ StartIsLast(intents, granted, {"destroy"})
    <3>1. looper' \in Seq(Only(Leftovers))
      BY <2>1, LessOf
    <3>2. QED
      BY <1>5, <2>1, <3>1 DEF Starting
  <2>2. CASE StartIsLast(looper, granted, Leftovers) /\ intents = << >>
    <3>1. StartIsLast(looper', granted, Leftovers)
      BY <1>1, <2>2, StartTail
    <3>2. QED
      BY <1>5, <2>2, <3>1 DEF Starting
  <2>3. QED
    BY <1>5, <2>1, <2>2 DEF Starting
<1>6. QED
  BY <1>2, <1>3, <1>4, <1>5

\* What the head of the looper's queue says about the consent.
LEMMA HeadTells ==
    ASSUME Tidy, looper # << >>
    PROVE  /\ Head(looper).what = "result" => Resulted
           /\ Head(looper).what = "start" =>
                 /\ Starting /\ Head(looper).consent = granted
                 /\ Tail(looper) = << >> /\ intents = << >>
           /\ Head(looper).what = "stop" => NoConsent
           /\ Head(looper).what = "onStop" => ~Starting
<1>1. looper \in Seq(Messages)
  BY DEF Tidy, AndroidTypeOK
<1>2. ASSUME NoConsent PROVE Head(looper).what \in Leftovers \union {"stop", "onStop"}
  BY <1>2, LessOf DEF NoConsent
<1>3. ASSUME Asked PROVE Head(looper).what \in Leftovers \union {"onStop"}
  BY <1>3, LessOf DEF Asked
<1>4. ASSUME Resulted, Head(looper).what # "result"
      PROVE  Head(looper).what \in Leftovers \union {"onStop"}
  BY <1>1, <1>4, ResultTail DEF Resulted
<1>5. ASSUME Starting, Head(looper).what # "start" PROVE Head(looper).what \in Leftovers
  <2>1. CASE looper \in Seq(Only(Leftovers))
    BY <2>1, LessOf
  <2>2. CASE StartIsLast(looper, granted, Leftovers)
    BY <1>1, <1>5, <2>2, StartTail
  <2>3. QED
    BY <1>5, <2>1, <2>2 DEF Starting
<1>6. ASSUME Starting, Head(looper).what = "start"
      PROVE  Head(looper).consent = granted /\ Tail(looper) = << >> /\ intents = << >>
  <2>1. looper \notin Seq(Only(Leftovers))
    <3>1. ASSUME looper \in Seq(Only(Leftovers)) PROVE FALSE
      <4>1. Head(looper).what \in Leftovers
        BY <3>1, LessOf
      <4>2. QED
        BY <1>6, <4>1 DEF Leftovers
    <3>2. QED
      BY <3>1
  <2>2. StartIsLast(looper, granted, Leftovers) /\ intents = << >>
    BY <1>6, <2>1 DEF Starting
  <2>3. "start" \notin Leftovers
    BY DEF Leftovers
  <2>4. QED
    BY <1>1, <1>6, <2>2, <2>3, StartHead
<1>7. NoConsent \/ Asked \/ Resulted \/ Starting
  BY DEF Tidy, OneConsent
<1>8. CASE Head(looper).what = "result"
  BY <1>2, <1>3, <1>5, <1>7, <1>8 DEF Leftovers
<1>9. CASE Head(looper).what = "start"
  BY <1>2, <1>3, <1>4, <1>6, <1>7, <1>9 DEF Leftovers
<1>10. CASE Head(looper).what = "stop"
  BY <1>3, <1>4, <1>5, <1>7, <1>10 DEF Leftovers
<1>11. CASE Head(looper).what = "onStop"
  BY <1>5, <1>11 DEF Leftovers
<1>12. QED
  BY <1>8, <1>9, <1>10, <1>11

LEMMA DeliverIntentInv == ASSUME Tidy, DeliverIntent PROVE Tidy'
<1>1. PICK m : m = Head(intents)
  OBVIOUS
<1>2. /\ intents # << >> /\ looper' = Append(looper, m) /\ intents' = Tail(intents)
      /\ UNCHANGED <<dialogs, granted, mixed, thread, service, handler, fields, registered,
                     finished, display, crashed>>
  BY <1>1 DEF DeliverIntent, threadVars, serviceVars
<1>3. looper \in Seq(Messages) /\ intents \in Seq(Messages)
  BY DEF Tidy, AndroidTypeOK
<1>4. m \in Messages /\ intents' \in Seq(Messages)
  BY <1>1, <1>2, <1>3, Taken
<1>5. looper' \in Seq(Messages)
  BY <1>2, <1>3, <1>4
<1>6. AndroidTypeOK'
  BY <1>2, <1>4, <1>5 DEF Tidy, AndroidTypeOK
<1>7. FieldsMatch' /\ ThreadAlone'
  BY <1>2 DEF Tidy, FieldsMatch, ThreadAlone, Current
<1>8. SessionAlone'
  <2>1. CASE Current = Unset
    BY <1>2, <2>1 DEF Tidy, SessionAlone, Current
  <2>2. CASE Current # Unset
    <3>1. m \in Only({"stop"}) /\ intents' \in Seq(Only({"stop"}))
      BY <1>1, <1>2, <2>2, SessionFacts, Taken
    <3>2. m \in OwnMessages
      BY <3>1 DEF OwnMessages
    <3>3. looper' \in Seq(OwnMessages)
      BY <1>2, <2>2, <3>2, SessionFacts
    <3>4. OwnMessages' = OwnMessages /\ Current' = Current
      BY <1>2 DEF OwnMessages, Current
    <3>5. QED
      BY <1>2, <2>2, <3>1, <3>3, <3>4 DEF Tidy, SessionAlone
  <2>3. QED
    BY <2>1, <2>2
<1>9. OneConsent'
  <2>1. ASSUME NoConsent PROVE NoConsent'
    <3>1. m.what \in {"stop", "destroy"} /\ intents' \in Seq(Only({"stop", "destroy"}))
      BY <1>1, <1>2, <2>1, LessOf DEF NoConsent
    <3>2. m.what \in Leftovers \union {"stop", "onStop"}
      BY <3>1 DEF Leftovers
    <3>3. looper' \in Seq(Only(Leftovers \union {"stop", "onStop"}))
      BY <1>2, <1>4, <2>1, <3>2, MoreOf DEF NoConsent
    <3>4. QED
      BY <1>2, <2>1, <3>1, <3>3 DEF NoConsent
  <2>2. ASSUME Asked PROVE Asked'
    <3>1. m.what \in {"destroy"} /\ intents' \in Seq(Only({"destroy"}))
      BY <1>1, <1>2, <2>2, LessOf DEF Asked
    <3>2. m.what \in Leftovers \union {"onStop"}
      BY <3>1 DEF Leftovers
    <3>3. looper' \in Seq(Only(Leftovers \union {"onStop"}))
      BY <1>2, <1>4, <2>2, <3>2, MoreOf DEF Asked
    <3>4. QED
      BY <1>2, <2>2, <3>1, <3>3 DEF Asked
  <2>3. ASSUME Resulted PROVE Resulted'
    <3>1. m.what \in {"destroy"} /\ intents' \in Seq(Only({"destroy"}))
      BY <1>1, <1>2, <2>3, LessOf DEF Resulted
    <3>2. m.what \in Leftovers
      BY <3>1 DEF Leftovers
    <3>3. ResultAmong(looper', granted)
      BY <1>2, <1>3, <1>4, <2>3, <3>2, ResultAppend DEF Resulted
    <3>4. QED
      BY <1>2, <2>3, <3>1, <3>3 DEF Resulted
  <2>4. ASSUME Starting PROVE Starting'
    <3>1. looper \in Seq(Only(Leftovers)) /\ StartIsLast(intents, granted, {"destroy"})
      BY <1>2, <2>4 DEF Starting
    <3>2. CASE m.what = "start"
      <4>1. m.consent = granted /\ intents' = << >>
        BY <1>1, <1>2, <1>3, <3>1, <3>2, StartHead
      <4>2. StartIsLast(looper', granted, Leftovers)
        BY <1>2, <1>4, <3>1, <3>2, <4>1, StartQueued
      <4>3. QED
        BY <1>2, <2>4, <4>1, <4>2 DEF Starting
    <3>3. CASE m.what # "start"
      <4>1. m.what \in {"destroy"} /\ StartIsLast(intents', granted, {"destroy"})
        BY <1>1, <1>2, <1>3, <3>1, <3>3, StartTail
      <4>2. m.what \in Leftovers
        BY <4>1 DEF Leftovers
      <4>3. looper' \in Seq(Only(Leftovers))
        BY <1>2, <1>4, <3>1, <4>2, MoreOf
      <4>4. QED
        BY <1>2, <2>4, <4>1, <4>3 DEF Starting
    <3>4. QED
      BY <3>2, <3>3
  <2>5. QED
    BY <1>2, <2>1, <2>2, <2>3, <2>4 DEF Tidy, OneConsent, Current
<1>10. QED
  BY <1>2, <1>6, <1>7, <1>8, <1>9 DEF Tidy, DialogOpen, Unharmed, ShowsTruth, OnMain, isCapturing

\* The consent's result becomes the last of the service's requests.
LEMMA onActivityResultInv == ASSUME Tidy, onActivityResult PROVE Tidy'
<1>1. PICK m : m = [Head(looper) EXCEPT !.what = "start"]
  OBVIOUS
<1>2. /\ OnMain /\ looper # << >> /\ Head(looper).what = "result" /\ looper' = Tail(looper)
      /\ intents' = Append(intents, m)
      /\ UNCHANGED <<dialogs, granted, mixed, thread, service, handler, fields, registered,
                     finished, display, crashed>>
  BY <1>1 DEF onActivityResult, Handle, threadVars, serviceVars
<1>3. looper \in Seq(Messages) /\ intents \in Seq(Messages)
  BY DEF Tidy, AndroidTypeOK
<1>4. Head(looper) \in Messages /\ looper' \in Seq(Messages)
  BY <1>2, <1>3, Taken
<1>5. m \in Messages /\ m.what = "start" /\ m.consent = Head(looper).consent
  BY <1>1, <1>4 DEF Messages
<1>6. intents' \in Seq(Messages)
  BY <1>2, <1>3, <1>5
<1>7. Resulted
  BY <1>2, HeadTells
<1>8. m.consent = granted /\ looper' \in Seq(Only(Leftovers))
  BY <1>2, <1>3, <1>5, <1>7, ResultHead DEF Resulted
<1>9. Starting'
  <2>1. StartIsLast(intents', granted, {"destroy"})
    BY <1>2, <1>5, <1>7, <1>8, StartQueued DEF Resulted
  <2>2. dialogs'.open = 0
    BY <1>2, <1>7 DEF Resulted
  <2>3. QED
    BY <1>2, <1>8, <2>1, <2>2 DEF Starting
<1>10. ~NoConsent
  <2>1. ASSUME NoConsent PROVE FALSE
    <3>1. Head(looper).what \in Leftovers \union {"stop", "onStop"}
      BY <1>2, <2>1, LessOf DEF NoConsent
    <3>2. QED
      BY <1>2, <3>1 DEF Leftovers
  <2>2. QED
    BY <2>1
<1>11. ~Asked
  <2>1. ASSUME Asked PROVE FALSE
    <3>1. Head(looper).what \in Leftovers \union {"onStop"}
      BY <1>2, <2>1, LessOf DEF Asked
    <3>2. QED
      BY <1>2, <3>1 DEF Leftovers
  <2>2. QED
    BY <2>1
<1>12. Current = Unset /\ handler.then # "stop" /\ granted \in (1..granted) \ finished
  BY <1>10, <1>11 DEF Tidy, OneConsent
<1>13. AndroidTypeOK'
  BY <1>2, <1>4, <1>6 DEF Tidy, AndroidTypeOK
<1>14. FieldsMatch' /\ ThreadAlone' /\ SessionAlone'
  BY <1>2, <1>12 DEF Tidy, FieldsMatch, ThreadAlone, SessionAlone, Current
<1>15. OneConsent'
  BY <1>2, <1>9, <1>12 DEF OneConsent, Current
<1>16. QED
  BY <1>2, <1>13, <1>14, <1>15 DEF Tidy, DialogOpen, Unharmed, ShowsTruth, OnMain, isCapturing

LEMMA onStopInv == ASSUME Tidy, onStop PROVE Tidy'
<1>1. PICK m : m = [Head(looper) EXCEPT !.what = "stopCapture"]
  OBVIOUS
<1>2. /\ OnMain /\ looper # << >> /\ Head(looper).what = "onStop"
      /\ looper' = Append(Tail(looper), m)
      /\ UNCHANGED <<intents, dialogs, granted, mixed, thread, service, handler, fields,
                     registered, finished, display, crashed>>
  BY <1>1 DEF onStop, threadVars, serviceVars
<1>3. looper \in Seq(Messages)
  BY DEF Tidy, AndroidTypeOK
<1>4. Head(looper) \in Messages /\ Tail(looper) \in Seq(Messages)
  BY <1>2, <1>3, Taken
<1>5. /\ m \in Messages /\ m.what = "stopCapture" /\ m.consent = Head(looper).consent
      /\ m.service = Head(looper).service
  BY <1>1, <1>4 DEF Messages
<1>6. looper' \in Seq(Messages)
  BY <1>2, <1>4, <1>5
<1>7. AndroidTypeOK'
  BY <1>2, <1>6 DEF Tidy, AndroidTypeOK
<1>8. FieldsMatch' /\ ThreadAlone'
  BY <1>2 DEF Tidy, FieldsMatch, ThreadAlone, Current
<1>9. SessionAlone'
  <2>1. CASE Current = Unset
    BY <1>2, <2>1 DEF Tidy, SessionAlone, Current
  <2>2. CASE Current # Unset
    <3>1. Head(looper) \in OwnMessages /\ Tail(looper) \in Seq(OwnMessages)
      BY <1>2, <2>2, SessionFacts, Taken
    <3>2. m \in OwnMessages
      BY <1>2, <1>5, <3>1 DEF OwnMessages, Only
    <3>3. looper' \in Seq(OwnMessages)
      BY <1>2, <3>1, <3>2
    <3>4. OwnMessages' = OwnMessages /\ Current' = Current
      BY <1>2 DEF OwnMessages, Current
    <3>5. QED
      BY <1>2, <2>2, <3>3, <3>4 DEF Tidy, SessionAlone
  <2>3. QED
    BY <2>1, <2>2
<1>10. m.what \in Leftovers
  BY <1>5 DEF Leftovers
<1>11. OneConsent'
  <2>1. ASSUME NoConsent PROVE NoConsent'
    <3>1. Tail(looper) \in Seq(Only(Leftovers \union {"stop", "onStop"}))
      BY <1>2, <2>1, LessOf DEF NoConsent
    <3>2. looper' \in Seq(Only(Leftovers \union {"stop", "onStop"}))
      BY <1>2, <1>5, <1>10, <3>1, MoreOf
    <3>3. QED
      BY <1>2, <2>1, <3>2 DEF NoConsent
  <2>2. ASSUME Asked PROVE Asked'
    <3>1. Tail(looper) \in Seq(Only(Leftovers \union {"onStop"}))
      BY <1>2, <2>2, LessOf DEF Asked
    <3>2. looper' \in Seq(Only(Leftovers \union {"onStop"}))
      BY <1>2, <1>5, <1>10, <3>1, MoreOf
    <3>3. QED
      BY <1>2, <2>2, <3>2 DEF Asked
  <2>3. ASSUME Resulted PROVE Resulted'
    <3>1. ResultAmong(Tail(looper), granted)
      BY <1>2, <1>3, <2>3, ResultTail DEF Resulted
    <3>2. ResultAmong(looper', granted)
      BY <1>2, <1>4, <1>5, <1>10, <3>1, ResultAppend
    <3>3. QED
      BY <1>2, <2>3, <3>2 DEF Resulted
  <2>4. ~Starting
    BY <1>2, HeadTells
  <2>5. QED
    BY <1>2, <2>1, <2>2, <2>3, <2>4 DEF Tidy, OneConsent, Current
<1>12. QED
  BY <1>2, <1>7, <1>8, <1>9, <1>11 DEF Tidy, DialogOpen, Unharmed, ShowsTruth, OnMain, isCapturing

\* Only a session's projection is registered: its callback is one of its own messages.
LEMMA ReclaimInv == ASSUME Tidy, Reclaim PROVE Tidy'
<1>1. PICK r \in registered :
        /\ registered' = registered \ {r}
        /\ looper' = Append(looper, [what |-> "onStop", service |-> r.service,
                                     consent |-> r.consent])
  BY DEF Reclaim
<1>2. UNCHANGED <<intents, dialogs, granted, mixed, thread, service, handler, fields,
                  finished, display, crashed>>
  BY DEF Reclaim, threadVars
<1>3. Current # Unset
  BY <1>1 DEF Tidy, SessionAlone
<1>4. r = [consent |-> Current, service |-> service.instance]
  BY <1>1, <1>3, SessionFacts
<1>5. Current \in Nat /\ service.instance \in Nat
  BY DEF Tidy, AndroidTypeOK, Current
<1>6. PICK m : m = [what |-> "onStop", service |-> r.service, consent |-> r.consent]
  OBVIOUS
<1>7. /\ m \in Messages /\ m.what = "onStop" /\ m.consent = Current
      /\ m.service = service.instance
  BY <1>4, <1>5, <1>6 DEF Messages
<1>8. looper' = Append(looper, m) /\ looper \in Seq(Messages)
  BY <1>1, <1>6 DEF Tidy, AndroidTypeOK
<1>9. AndroidTypeOK'
  <2>1. looper' \in Seq(Messages)
    BY <1>7, <1>8
  <2>2. registered' \subseteq [consent : Nat, service : Nat]
    BY <1>1 DEF Tidy, AndroidTypeOK
  <2>3. QED
    BY <1>2, <2>1, <2>2 DEF Tidy, AndroidTypeOK
<1>10. FieldsMatch' /\ ThreadAlone'
  BY <1>2 DEF Tidy, FieldsMatch, ThreadAlone, Current
<1>11. SessionAlone'
  <2>1. m \in OwnMessages
    BY <1>7 DEF OwnMessages, Only
  <2>2. looper' \in Seq(OwnMessages)
    BY <1>3, <1>8, <2>1, SessionFacts
  <2>3. OwnMessages' = OwnMessages /\ Current' = Current
    BY <1>2 DEF OwnMessages, Current
  <2>4. registered' \subseteq {[consent |-> Current, service |-> service.instance]}
    BY <1>1, <1>3, SessionFacts
  <2>5. QED
    BY <1>2, <1>3, <2>2, <2>3, <2>4 DEF Tidy, SessionAlone
<1>12. OneConsent'
  <2>1. NoConsent
    BY <1>3, SessionFacts
  <2>2. m.what \in Leftovers \union {"stop", "onStop"}
    BY <1>7
  <2>3. looper' \in Seq(Only(Leftovers \union {"stop", "onStop"}))
    BY <1>7, <1>8, <2>1, <2>2, MoreOf DEF NoConsent
  <2>4. NoConsent'
    BY <1>2, <2>1, <2>3 DEF NoConsent
  <2>5. QED
    BY <2>4 DEF OneConsent
<1>13. QED
  BY <1>2, <1>9, <1>10, <1>11, <1>12 DEF Tidy, DialogOpen, Unharmed, ShowsTruth, OnMain, isCapturing

-----------------------------------------------------------------------------
Steps == {"none", "check", "read", "block", "call", "status", "set", "exited"}

LEMMA ThreadTyped ==
    ASSUME Tidy
    PROVE  thread \in [Consents -> [step : Steps, sink : Nat, service : Nat]]
BY DEF Tidy, AndroidTypeOK, Steps

\* One thread's record is changed, and into a record.
LEMMA ThreadReplaced ==
    ASSUME Tidy, NEW c \in Consents, NEW v \in [step : Steps, sink : Nat, service : Nat],
           NEW g, DOMAIN g = Consents, g = [k \in Consents |-> g[k]], g[c] = v,
           \A k \in Consents \ {c} : g[k] = thread[k]
    PROVE  g \in [Consents -> [step : Steps, sink : Nat, service : Nat]]
<1>1. PICK R : R = [step : Steps, sink : Nat, service : Nat]
  OBVIOUS
<1>2. thread \in [Consents -> R] /\ v \in R
  BY <1>1, ThreadTyped
<1>3. \A k \in Consents : g[k] \in R
  BY <1>2
<1>4. g \in [Consents -> R]
  BY <1>3
<1>5. QED
  BY <1>1, <1>4

\* A capture thread's step disturbs its own record at most.
LEMMA SinkTaken ==
    ASSUME Tidy, NEW c \in Consents, NEW s \in Steps, NEW held \in Nat,
           thread' = [thread EXCEPT ![c].step = s, ![c].sink = held]
    PROVE  /\ thread' \in [Consents -> [step : Steps, sink : Nat, service : Nat]]
           /\ thread'[c] = [step |-> s, sink |-> held, service |-> thread[c].service]
           /\ \A k \in Consents \ {c} : thread'[k] = thread[k]
<1>1. PICK a \in Steps, b \in Nat, d \in Nat :
        thread[c] = [step |-> a, sink |-> b, service |-> d]
  BY ThreadTyped
<1>2. DOMAIN thread = Consents
  BY ThreadTyped
<1>3. DOMAIN thread' = Consents /\ thread' = [k \in Consents |-> thread'[k]]
  BY <1>2
<1>4. thread'[c] = [step |-> s, sink |-> held, service |-> thread[c].service]
  BY <1>1, <1>2
<1>5. \A k \in Consents \ {c} : thread'[k] = thread[k]
  BY <1>2
<1>6. [step |-> s, sink |-> held, service |-> thread[c].service]
         \in [step : Steps, sink : Nat, service : Nat]
  BY <1>1
<1>7. QED
  BY <1>3, <1>4, <1>5, <1>6, ThreadReplaced

\* And so does the start of one.
LEMMA ServiceTaken ==
    ASSUME Tidy, NEW c \in Consents, NEW s \in Steps, NEW held \in Nat,
           thread' = [thread EXCEPT ![c].step = s, ![c].service = held]
    PROVE  /\ thread' \in [Consents -> [step : Steps, sink : Nat, service : Nat]]
           /\ thread'[c] = [step |-> s, sink |-> thread[c].sink, service |-> held]
           /\ \A k \in Consents \ {c} : thread'[k] = thread[k]
<1>1. PICK a \in Steps, b \in Nat, d \in Nat :
        thread[c] = [step |-> a, sink |-> b, service |-> d]
  BY ThreadTyped
<1>2. DOMAIN thread = Consents
  BY ThreadTyped
<1>3. DOMAIN thread' = Consents /\ thread' = [k \in Consents |-> thread'[k]]
  BY <1>2
<1>4. thread'[c] = [step |-> s, sink |-> thread[c].sink, service |-> held]
  BY <1>1, <1>2
<1>5. \A k \in Consents \ {c} : thread'[k] = thread[k]
  BY <1>2
<1>6. [step |-> s, sink |-> thread[c].sink, service |-> held]
         \in [step : Steps, sink : Nat, service : Nat]
  BY <1>1
<1>7. QED
  BY <1>3, <1>4, <1>5, <1>6, ThreadReplaced

-----------------------------------------------------------------------------
\* The session that starts finds both queues empty.
LEMMA SessionStartInv == ASSUME Tidy, Start PROVE Tidy'
<1>1. /\ OnMain /\ looper # << >> /\ Head(looper).what = "start" /\ looper' = Tail(looper)
      /\ service' = [service EXCEPT !.alive = TRUE]
      /\ UNCHANGED <<intents, dialogs, granted, finished, mixed>>
  BY DEF Start, Handle
<1>2. PICK c : c = Head(looper).consent
  OBVIOUS
<1>3. \/ /\ fields.capture # Unset
         /\ UNCHANGED <<handler, fields, registered, active, thread, display, crashed>>
      \/ /\ fields.capture = Unset /\ display' = "ERROR"
         /\ UNCHANGED <<handler, fields, registered, active, thread, crashed>>
      \/ /\ fields.capture = Unset
         /\ fields' = [fields EXCEPT !.projection = c]
         /\ registered' = registered \union {[consent |-> c, service |-> service.instance]}
         /\ \/ crashed' = "recorder" /\ UNCHANGED <<handler, active, thread>>
            \/ /\ active' = active \union {c} /\ UNCHANGED crashed
               /\ thread' = [thread EXCEPT ![c].step = "check", ![c].service = service.instance]
               /\ handler' = [Between EXCEPT !.step = "wire"]
         /\ UNCHANGED display
  BY <1>2 DEF Start
<1>4. Starting /\ c = granted /\ looper' = << >> /\ intents' = << >>
  BY <1>1, <1>2, HeadTells
<1>5. dialogs.open = 0
  BY <1>4 DEF Starting
<1>6. granted \in Nat /\ finished \subseteq 1..granted
  BY DEF Tidy, AndroidTypeOK
<1>7. /\ handler = Between /\ handler.then = "none"
      /\ fields = FieldsOf(Current, Current, Current)
  BY <1>1, FieldsBetween
<1>8. ~NoConsent /\ ~Asked
  <2>1. ASSUME NoConsent PROVE FALSE
    <3>1. Head(looper).what \in Leftovers \union {"stop", "onStop"}
      BY <1>1, <2>1, LessOf DEF NoConsent
    <3>2. QED
      BY <1>1, <3>1 DEF Leftovers
  <2>2. QED
    BY <1>5, <2>1 DEF Asked
<1>9. Current = Unset /\ granted \in (1..granted) \ finished
  BY <1>8 DEF Tidy, OneConsent
<1>10. fields = FieldsOf(Unset, Unset, Unset) /\ fields.capture = Unset /\ registered = {}
  BY <1>7, <1>9 DEF FieldsOf, Tidy, SessionAlone
<1>11. service' \in [instance : Nat, alive : BOOLEAN] /\ service'.instance = service.instance
  BY <1>1 DEF Tidy, AndroidTypeOK
<1>12. looper' \in Seq(Messages) /\ intents' \in Seq(Messages)
  BY <1>4
<1>13. NoConsent'
  <2>1. dialogs'.open = 0
    BY <1>1, <1>5
  <2>2. /\ << >> \in Seq(Only(Leftovers \union {"stop", "onStop"}))
        /\ << >> \in Seq(Only({"stop", "destroy"}))
    OBVIOUS
  <2>3. QED
    BY <1>4, <2>1, <2>2 DEF NoConsent
<1>14. OneConsent' /\ DialogOpen' /\ mixed' = FALSE
  BY <1>1, <1>13 DEF OneConsent, Tidy, DialogOpen, Unharmed
<1>15. CASE /\ display' = "ERROR"
            /\ UNCHANGED <<handler, fields, registered, active, thread, crashed>>
  <2>1. AndroidTypeOK'
    BY <1>1, <1>11, <1>12, <1>15 DEF Tidy, AndroidTypeOK
  <2>2. FieldsMatch' /\ SessionAlone'
    BY <1>1, <1>9, <1>15 DEF Tidy, FieldsMatch, SessionAlone, Current
  <2>3. ThreadAlone'
    BY <1>11, <1>15 DEF Tidy, ThreadAlone, Current
  <2>4. Unharmed' /\ ShowsTruth'
    BY <1>1, <1>10, <1>15 DEF Tidy, Unharmed, ShowsTruth, isCapturing
  <2>5. QED
    BY <1>14, <2>1, <2>2, <2>3, <2>4 DEF Tidy
<1>16. CASE /\ fields' = [fields EXCEPT !.projection = c]
            /\ registered' = registered \union {[consent |-> c, service |-> service.instance]}
            /\ display' = display
            /\ crashed' = "recorder" /\ UNCHANGED <<handler, active, thread>>
  <2>1. fields' = FieldsOf(Unset, Unset, granted) /\ Current' = granted
    BY <1>4, <1>10, <1>16 DEF FieldsOf, Current
  <2>2. registered' = {[consent |-> granted, service |-> service.instance]}
    BY <1>4, <1>10, <1>16
  <2>3. AndroidTypeOK'
    <3>1. fields' \in [capture : Nat, frameSink : Nat, projection : Nat]
      BY <1>6, <2>1 DEF FieldsOf, Unset
    <3>2. registered' \subseteq [consent : Nat, service : Nat]
      BY <1>6, <2>2 DEF Tidy, AndroidTypeOK
    <3>3. QED
      BY <1>1, <1>11, <1>12, <1>16, <3>1, <3>2 DEF Tidy, AndroidTypeOK
  <2>4. FieldsMatch'
    <3>1. Current' \in 0..granted' \ finished'
      BY <1>1, <1>6, <1>9, <2>1
    <3>2. handler' = Between /\ crashed' # "no"
      BY <1>7, <1>16
    <3>3. QED
      BY <3>1, <3>2 DEF FieldsMatch, Between
  <2>5. SessionAlone'
    <3>1. granted # Unset
      BY <1>9 DEF Unset
    <3>2. handler'.then = "none"
      BY <1>7, <1>16
    <3>3. /\ looper' \in Seq(OwnMessages)' /\ intents' \in Seq(Only({"stop"}))
      BY <1>4
    <3>4. QED
      BY <1>1, <1>5, <1>11, <2>1, <2>2, <3>1, <3>2, <3>3 DEF SessionAlone
  <2>6. ThreadAlone'
    <3>1. \A k \in Consents : thread'[k].step \in {"none", "exited"}
      BY <1>9, <1>16, NoThread
    <3>2. QED
      BY <3>1 DEF ThreadAlone
  <2>7. Unharmed' /\ ShowsTruth'
    BY <1>14, <1>16 DEF Unharmed, ShowsTruth, OnMain
  <2>8. QED
    BY <1>14, <2>3, <2>4, <2>5, <2>6, <2>7 DEF Tidy
<1>17. CASE /\ fields' = [fields EXCEPT !.projection = c]
            /\ registered' = registered \union {[consent |-> c, service |-> service.instance]}
            /\ display' = display /\ crashed' = crashed
            /\ thread' = [thread EXCEPT ![c].step = "check", ![c].service = service.instance]
            /\ handler' = [Between EXCEPT !.step = "wire"]
  <2>1. fields' = FieldsOf(Unset, Unset, granted) /\ Current' = granted
    BY <1>4, <1>10, <1>17 DEF FieldsOf, Current
  <2>2. registered' = {[consent |-> granted, service |-> service.instance]}
    BY <1>4, <1>10, <1>17
  <2>3. handler' = [step |-> "wire", then |-> "none", consent |-> Unset]
    BY <1>17 DEF Between
  <2>4. service.instance \in Nat
    BY DEF Tidy, AndroidTypeOK
  <2>5. /\ thread' \in [Consents -> [step : {"none", "check", "read", "block", "call", "status",
                                             "set", "exited"}, sink : Nat, service : Nat]]
        /\ \A k \in Consents \ {c} : thread'[k] = thread[k]
        /\ c \in Consents => thread'[c] = [step |-> "check", sink |-> thread[c].sink,
                                           service |-> service.instance]
    <3>1. thread \in [Consents -> [step : Steps, sink : Nat, service : Nat]]
      BY ThreadTyped
    <3>2. CASE c \in Consents
      <4>1. "check" \in Steps
        BY DEF Steps
      <4>2. PICK k \in Nat, s \in Steps : k = service.instance /\ s = "check"
        BY <2>4, <4>1
      <4>3. thread' = [thread EXCEPT ![c].step = s, ![c].service = k]
        BY <1>17, <4>2
      <4>4. /\ thread' \in [Consents -> [step : Steps, sink : Nat, service : Nat]]
            /\ thread'[c] = [step |-> s, sink |-> thread[c].sink, service |-> k]
            /\ \A i \in Consents \ {c} : thread'[i] = thread[i]
        BY <3>2, <4>3, ServiceTaken, Zenon
      <4>5. QED
        BY <4>2, <4>4 DEF Steps
    <3>3. CASE c \notin Consents
      <4>1. thread' = thread
        BY <1>17, <3>1, <3>3
      <4>2. QED
        BY <3>1, <3>3, <4>1 DEF Steps
    <3>4. QED
      BY <3>2, <3>3
  <2>6. AndroidTypeOK'
    <3>1. fields' \in [capture : Nat, frameSink : Nat, projection : Nat]
      BY <1>6, <2>1 DEF FieldsOf, Unset
    <3>2. registered' \subseteq [consent : Nat, service : Nat]
      BY <1>6, <2>2, <2>4
    <3>3. handler' \in [step : {"idle", "wire", "format", "join", "finish"},
                        then : {"none", "stop", "stopCapture", "destroy"}, consent : Nat]
      BY <2>3 DEF Unset
    <3>4. QED
      BY <1>1, <1>11, <1>12, <2>5, <3>1, <3>2, <3>3 DEF Tidy, AndroidTypeOK
  <2>7. FieldsMatch'
    <3>1. Current' \in 0..granted' \ finished'
      BY <1>1, <1>6, <1>9, <2>1
    <3>2. Current' # Unset
      BY <1>9, <2>1 DEF Unset
    <3>3. handler'.step = "wire" /\ handler'.then = "none"
      BY <2>3
    <3>4. fields' = FieldsOf(Unset, Unset, Current')
      BY <2>1
    <3>5. QED
      BY <3>1, <3>2, <3>3, <3>4 DEF FieldsMatch, FieldsOf
  <2>8. SessionAlone'
    <3>1. granted # Unset
      BY <1>9 DEF Unset
    <3>2. handler'.then = "none"
      BY <2>3
    <3>3. /\ looper' \in Seq(OwnMessages)' /\ intents' \in Seq(Only({"stop"}))
      BY <1>4
    <3>4. QED
      BY <1>1, <1>5, <1>11, <2>1, <2>2, <3>1, <3>2, <3>3 DEF SessionAlone
  <2>9. ThreadAlone'
    <3>1. \A k \in Consents : thread[k].step \in {"none", "exited"}
      BY <1>9, NoThread
    <3>2. ASSUME NEW k \in Consents, thread'[k].step \notin {"none", "exited"}
          PROVE  /\ k = Current' /\ thread'[k].service = service'.instance
                 /\ thread'[k].step = "check"
      BY <1>4, <1>11, <2>1, <2>5, <3>1, <3>2
    <3>3. handler'.step = "wire"
      BY <2>3
    <3>4. QED
      BY <3>2, <3>3 DEF ThreadAlone
  <2>10. Unharmed'
    BY <1>14, <1>17 DEF Tidy, Unharmed
  <2>11. ShowsTruth'
    <3>1. handler' # Between
      BY <2>3 DEF Between
    <3>2. QED
      BY <3>1 DEF ShowsTruth, OnMain
  <2>12. QED
    BY <1>14, <2>6, <2>7, <2>8, <2>9, <2>10, <2>11 DEF Tidy
<1>18. QED
  BY <1>3, <1>10, <1>15, <1>16, <1>17

LEMMA WireSinkInv == ASSUME Tidy, WireSink PROVE Tidy'
<1>1. /\ handler.step = "wire"
      /\ fields' = [fields EXCEPT !.capture = fields.projection, !.frameSink = fields.projection]
      /\ handler' = [handler EXCEPT !.step = "format"]
      /\ UNCHANGED <<looper, intents, dialogs, granted, mixed, thread, service, registered,
                     finished, display, crashed>>
  BY DEF WireSink, queueVars, threadVars
<1>2. /\ Current # Unset /\ fields = FieldsOf(Unset, Unset, Current) /\ handler.then = "none"
      /\ Current \in 0..granted \ finished /\ Current \in Nat
  BY <1>1 DEF Tidy, FieldsMatch, AndroidTypeOK, Current
<1>3. fields' = FieldsOf(Current, Current, Current) /\ Current' = Current
  BY <1>1, <1>2 DEF FieldsOf, Current
<1>4. handler' = [step |-> "format", then |-> "none", consent |-> handler.consent]
  BY <1>1, <1>2 DEF Tidy, AndroidTypeOK
<1>5. AndroidTypeOK'
  <2>1. fields' \in [capture : Nat, frameSink : Nat, projection : Nat]
    BY <1>2, <1>3 DEF FieldsOf
  <2>2. handler' \in [step : {"idle", "wire", "format", "join", "finish"},
                      then : {"none", "stop", "stopCapture", "destroy"}, consent : Nat]
    BY <1>4 DEF Tidy, AndroidTypeOK
  <2>3. QED
    BY <1>1, <2>1, <2>2 DEF Tidy, AndroidTypeOK
<1>6. handler'.step = "format" /\ handler'.then = "none"
  BY <1>4
<1>7. FieldsMatch'
  <2>1. Current' \in 0..granted' \ finished'
    BY <1>1, <1>2, <1>3
  <2>2. fields' = FieldsOf(Current', Current', Current')
    BY <1>3
  <2>3. QED
    BY <1>2, <1>3, <1>6, <2>1, <2>2 DEF FieldsMatch, FieldsOf
<1>8. SessionAlone'
  <2>1. OwnMessages' = OwnMessages
    BY <1>1, <1>3 DEF OwnMessages
  <2>2. QED
    BY <1>1, <1>2, <1>3, <1>6, <2>1 DEF Tidy, SessionAlone
<1>9. ThreadAlone'
  BY <1>1, <1>3, <1>6 DEF Tidy, ThreadAlone
<1>10. OneConsent'
  BY <1>1, <1>2, SessionFacts DEF OneConsent, NoConsent
<1>11. ShowsTruth'
  BY <1>6 DEF ShowsTruth, OnMain, Between
<1>12. QED
  BY <1>1, <1>5, <1>7, <1>8, <1>9, <1>10, <1>11 DEF Tidy, DialogOpen, Unharmed

LEMMA AnnounceFormatInv == ASSUME Tidy, AnnounceFormat PROVE Tidy'
<1>1. /\ handler.step = "format" /\ handler' = Between /\ display' = "STREAMING"
      /\ UNCHANGED <<looper, intents, dialogs, granted, mixed, thread, service, fields,
                     registered, finished, crashed>>
  BY DEF AnnounceFormat, queueVars, threadVars
<1>2. /\ Current # Unset /\ fields = FieldsOf(Current, Current, Current)
      /\ Current \in 0..granted \ finished
  BY <1>1 DEF Tidy, FieldsMatch
<1>3. handler'.step = "idle" /\ handler'.then = "none" /\ Current' = Current
  BY <1>1 DEF Between, Current
<1>4. AndroidTypeOK'
  <2>1. handler' \in [step : {"idle", "wire", "format", "join", "finish"},
                      then : {"none", "stop", "stopCapture", "destroy"}, consent : Nat]
    BY <1>1 DEF Between, Unset
  <2>2. QED
    BY <1>1, <2>1 DEF Tidy, AndroidTypeOK
<1>5. FieldsMatch'
  <2>1. Current' \in 0..granted' \ finished'
    BY <1>1, <1>2, <1>3
  <2>2. fields' = FieldsOf(Current', Current', Current')
    BY <1>1, <1>2, <1>3
  <2>3. QED
    BY <1>1, <1>3, <2>1, <2>2 DEF FieldsMatch, FieldsOf
<1>6. SessionAlone'
  <2>1. OwnMessages' = OwnMessages
    BY <1>1, <1>3 DEF OwnMessages
  <2>2. QED
    BY <1>1, <1>2, <1>3, <2>1 DEF Tidy, SessionAlone
<1>7. ThreadAlone'
  BY <1>1, <1>3 DEF Tidy, ThreadAlone
<1>8. OneConsent'
  BY <1>1, <1>2, SessionFacts DEF OneConsent, NoConsent
<1>9. ShowsTruth'
  <2>1. fields'.capture # Unset
    BY <1>1, <1>2 DEF FieldsOf
  <2>2. QED
    BY <1>1, <2>1 DEF ShowsTruth, isCapturing
<1>10. QED
  BY <1>1, <1>4, <1>5, <1>6, <1>7, <1>8, <1>9 DEF Tidy, DialogOpen, Unharmed

\* A stop finds either its own session or none.
LEMMA stopCaptureInv ==
    ASSUME Tidy, NEW what \in {"stop", "stopCapture", "destroy"}, stopCapture(what)
    PROVE  Tidy'
<1>1. /\ OnMain /\ looper # << >> /\ Head(looper).what = what /\ looper' = Tail(looper)
      /\ what = "stop" \/ Head(looper).service = service.instance
      /\ UNCHANGED <<intents, dialogs, granted, mixed, thread, fields, registered, finished,
                     display, crashed>>
  BY DEF stopCapture, Handle, threadVars
<1>2. PICK s, t : s = (IF fields.capture = Unset THEN "finish" ELSE "join")
                  /\ t = Head(looper).consent
  OBVIOUS
<1>3. handler' = [step |-> s, then |-> what, consent |-> t]
  BY <1>2 DEF stopCapture
<1>4. service' \in [instance : Nat, alive : BOOLEAN] /\ service'.instance = service.instance
  BY DEF stopCapture, Tidy, AndroidTypeOK
<1>5. looper \in Seq(Messages)
  BY DEF Tidy, AndroidTypeOK
<1>6. Head(looper) \in Messages /\ looper' \in Seq(Messages)
  BY <1>1, <1>5, Taken
<1>7. t \in Nat /\ s \in {"finish", "join"}
  BY <1>2, <1>6 DEF Messages
<1>8. /\ handler = Between /\ handler.then = "none"
      /\ fields = FieldsOf(Current, Current, Current) /\ fields.capture = Current
  BY <1>1, FieldsBetween
<1>9. handler'.step = s /\ handler'.then = what /\ handler'.consent = t
  BY <1>3
<1>10. Current' = Current
  BY <1>1 DEF Current
<1>11. AndroidTypeOK'
  <2>1. handler' \in [step : {"idle", "wire", "format", "join", "finish"},
                      then : {"none", "stop", "stopCapture", "destroy"}, consent : Nat]
    BY <1>3, <1>7
  <2>2. QED
    BY <1>1, <1>4, <1>6, <2>1 DEF Tidy, AndroidTypeOK
<1>12. FieldsMatch'
  <2>1. Current' \in 0..granted' \ finished'
    BY <1>1, <1>10 DEF Tidy, FieldsMatch
  <2>2. CASE Current = Unset
    BY <1>1, <1>2, <1>8, <1>9, <1>10, <2>1, <2>2 DEF FieldsMatch, FieldsOf
  <2>3. CASE Current # Unset
    BY <1>1, <1>2, <1>8, <1>9, <1>10, <2>1, <2>3 DEF FieldsMatch, FieldsOf
  <2>4. QED
    BY <2>2, <2>3
<1>13. ShowsTruth'
  <2>1. handler' # Between
    BY <1>9 DEF Between
  <2>2. QED
    BY <2>1 DEF ShowsTruth, OnMain
<1>14. CASE Current = Unset
  <2>1. SessionAlone'
    BY <1>1, <1>10, <1>14 DEF Tidy, SessionAlone
  <2>2. ThreadAlone'
    <3>1. \A k \in Consents : thread'[k].step \in {"none", "exited"}
      BY <1>1, <1>14, NoThread
    <3>2. QED
      BY <3>1 DEF ThreadAlone
  <2>3. Head(looper).what \notin {"result", "start"}
    BY <1>1
  <2>4. OneConsent'
    <3>1. CASE what = "stop"
      BY <1>1, <2>3, <3>1, HeadTells, HeadGone DEF OneConsent
    <3>2. CASE what # "stop"
      BY <1>1, <1>9, <1>10, <1>14, <2>3, <3>2, HeadGone DEF Tidy, OneConsent
    <3>3. QED
      BY <3>1, <3>2
  <2>5. QED
    BY <1>1, <1>11, <1>12, <1>13, <2>1, <2>2, <2>4 DEF Tidy, DialogOpen, Unharmed
<1>15. CASE Current # Unset
  <2>1. Head(looper) \in OwnMessages /\ looper' \in Seq(OwnMessages)
    BY <1>1, <1>15, SessionFacts, Taken
  <2>2. what # "destroy" /\ (what = "stopCapture" => t = Current)
    BY <1>1, <1>2, <2>1 DEF OwnMessages, Only
  <2>3. OwnMessages' = OwnMessages
    BY <1>4, <1>10 DEF OwnMessages
  <2>4. SessionAlone'
    BY <1>1, <1>4, <1>9, <1>10, <1>15, <2>1, <2>2, <2>3 DEF Tidy, SessionAlone
  <2>5. handler'.step = "join"
    BY <1>2, <1>8, <1>9, <1>15
  <2>6. ThreadAlone'
    BY <1>1, <1>4, <1>10, <2>5 DEF Tidy, ThreadAlone
  <2>7. OneConsent'
    <3>1. Head(looper).what \notin {"result", "start"}
      BY <1>1
    <3>2. QED
      BY <1>1, <1>15, <3>1, SessionFacts, HeadGone DEF OneConsent
  <2>8. QED
    BY <1>1, <1>11, <1>12, <1>13, <2>4, <2>6, <2>7 DEF Tidy, DialogOpen, Unharmed
<1>16. QED
  BY <1>14, <1>15

\* What is left of an instance that was destroyed is handled outside every session.
LEMMA StopOfDestroyedInv == ASSUME Tidy, StopOfDestroyed PROVE Tidy'
<1>1. /\ OnMain /\ looper # << >> /\ Head(looper).what \in {"stopCapture", "destroy"}
      /\ looper' = Tail(looper) /\ Head(looper).service # service.instance
      /\ display' \in {display, "IDLE"}
      /\ UNCHANGED <<intents, dialogs, granted, mixed, thread, service, handler, fields,
                     registered, finished, crashed>>
  BY DEF StopOfDestroyed, Handle, threadVars, serviceVars
<1>2. Current = Unset
  <2>1. ASSUME Current # Unset PROVE FALSE
    <3>1. Head(looper) \in OwnMessages
      BY <1>1, <2>1, SessionFacts, Taken
    <3>2. QED
      BY <1>1, <3>1 DEF OwnMessages, Only
  <2>2. QED
    BY <2>1
<1>3. fields.capture = Unset
  BY <1>1, <1>2, FieldsBetween
<1>4. looper' \in Seq(Messages)
  BY <1>1, Taken DEF Tidy, AndroidTypeOK
<1>5. AndroidTypeOK'
  BY <1>1, <1>4 DEF Tidy, AndroidTypeOK
<1>6. FieldsMatch' /\ ThreadAlone' /\ SessionAlone'
  BY <1>1, <1>2 DEF Tidy, FieldsMatch, ThreadAlone, SessionAlone, Current
<1>7. OneConsent'
  <2>1. Head(looper).what \notin {"result", "start"}
    BY <1>1
  <2>2. QED
    BY <1>1, <2>1, HeadGone DEF Tidy, OneConsent, Current
<1>8. ShowsTruth'
  BY <1>1, <1>3 DEF Tidy, ShowsTruth, OnMain, isCapturing
<1>9. QED
  BY <1>1, <1>5, <1>6, <1>7, <1>8 DEF Tidy, DialogOpen, Unharmed

\* A join that is not late leaves no thread behind.
LEMMA JoinInv == ASSUME Tidy, Join, ~late' PROVE Tidy'
<1>1. /\ crashed = "no" /\ handler.step = "join"
      /\ fields' = [fields EXCEPT !.capture = Unset]
      /\ handler' = [handler EXCEPT !.step = "finish"]
      /\ UNCHANGED <<looper, intents, dialogs, granted, mixed, thread, service, registered,
                     finished, display, crashed>>
  BY DEF Join, queueVars, threadVars
<1>2. thread[fields.capture].step = "exited"
  BY DEF Join
<1>3. /\ Current # Unset /\ fields = FieldsOf(Current, Current, Current)
      /\ Current \in 0..granted \ finished /\ Current \in Nat
  BY <1>1 DEF Tidy, FieldsMatch, AndroidTypeOK, Current
<1>4. fields' = FieldsOf(Unset, Current, Current) /\ Current' = Current
  BY <1>1, <1>3 DEF FieldsOf, Current
<1>5. /\ handler' = [step |-> "finish", then |-> handler.then, consent |-> handler.consent]
      /\ handler.then \in {"none", "stop", "stopCapture", "destroy"} /\ handler.consent \in Nat
  BY <1>1 DEF Tidy, AndroidTypeOK
<1>6. /\ handler'.step = "finish" /\ handler'.then = handler.then
      /\ handler'.consent = handler.consent
  BY <1>5
<1>7. AndroidTypeOK'
  <2>1. fields' \in [capture : Nat, frameSink : Nat, projection : Nat]
    BY <1>3, <1>4 DEF FieldsOf, Unset
  <2>2. handler' \in [step : {"idle", "wire", "format", "join", "finish"},
                      then : {"none", "stop", "stopCapture", "destroy"}, consent : Nat]
    BY <1>5
  <2>3. QED
    BY <1>1, <2>1, <2>2 DEF Tidy, AndroidTypeOK
<1>8. FieldsMatch'
  <2>1. Current' \in 0..granted' \ finished'
    BY <1>1, <1>3, <1>4
  <2>2. fields' = FieldsOf(Unset, Current', Current')
    BY <1>4
  <2>3. QED
    BY <1>6, <2>1, <2>2 DEF FieldsMatch, FieldsOf
<1>9. SessionAlone'
  <2>1. OwnMessages' = OwnMessages
    BY <1>1, <1>4 DEF OwnMessages
  <2>2. QED
    BY <1>1, <1>3, <1>4, <1>6, <2>1 DEF Tidy, SessionAlone
<1>10. ThreadAlone'
  <2>1. fields.capture = Current
    BY <1>3 DEF FieldsOf
  <2>2. \A k \in Consents : thread'[k].step \in {"none", "exited"}
    BY <1>1, <1>2, <2>1 DEF Tidy, ThreadAlone
  <2>3. QED
    BY <2>2 DEF ThreadAlone
<1>11. OneConsent'
  BY <1>1, <1>3, SessionFacts DEF OneConsent, NoConsent
<1>12. ShowsTruth'
  BY <1>6 DEF ShowsTruth, OnMain, Between
<1>13. QED
  BY <1>1, <1>7, <1>8, <1>9, <1>10, <1>11, <1>12 DEF Tidy, DialogOpen, Unharmed

\* The session is over: nothing of it is registered, and its sink is finished.
LEMMA FinishStopInv == ASSUME Tidy, FinishStop PROVE Tidy'
<1>1. PICK m : m = Message("destroy", Unset)
  OBVIOUS
<1>2. /\ handler.step = "finish" /\ handler' = Between /\ fields' = NoFields
      /\ finished' = finished \union ({fields.frameSink} \ {Unset})
      /\ registered' = {r \in registered : r.consent # fields.projection}
      /\ display' = "IDLE"
      /\ intents' = (IF handler.then = "stop" THEN Append(intents, m) ELSE intents)
      /\ UNCHANGED <<looper, dialogs, granted, mixed, thread, crashed>>
  BY <1>1 DEF FinishStop, threadVars
<1>3. service' = (IF handler.then = "destroy"
                  THEN [instance |-> service.instance + 1, alive |-> FALSE] ELSE service)
  BY DEF FinishStop
<1>4. /\ fields = FieldsOf(Unset, Current, Current) /\ Current \in 0..granted
      /\ granted \in Nat /\ finished \subseteq 1..granted
  BY <1>2 DEF Tidy, FieldsMatch, AndroidTypeOK
<1>5. finished' = finished \union ({Current} \ {Unset}) /\ granted' = granted
  BY <1>2, <1>4 DEF FieldsOf
<1>6. finished' \subseteq 1..granted' /\ Unset \notin finished'
  BY <1>4, <1>5 DEF Unset
<1>7. Current' = Unset /\ fields' = FieldsOf(Unset, Unset, Unset)
  BY <1>2 DEF NoFields, FieldsOf, Current
<1>8. handler'.step = "idle" /\ handler'.then = "none"
  BY <1>2 DEF Between
<1>9. registered' = {}
  <2>1. \A r \in registered : r.consent = Current
    BY DEF Tidy, SessionAlone
  <2>2. QED
    BY <1>2, <2>1 DEF Current
<1>10. m \in Messages /\ m.what = "destroy"
  BY <1>1 DEF Message, Messages, Unset, Tidy, AndroidTypeOK
<1>11. AndroidTypeOK'
  <2>1. intents' \in Seq(Messages)
    BY <1>2, <1>10 DEF Tidy, AndroidTypeOK
  <2>2. service' \in [instance : Nat, alive : BOOLEAN]
    BY <1>3 DEF Tidy, AndroidTypeOK
  <2>3. handler' \in [step : {"idle", "wire", "format", "join", "finish"},
                      then : {"none", "stop", "stopCapture", "destroy"}, consent : Nat]
    BY <1>2 DEF Between, Unset
  <2>4. fields' \in [capture : Nat, frameSink : Nat, projection : Nat]
    BY <1>2 DEF NoFields, Unset
  <2>5. QED
    BY <1>2, <1>6, <1>9, <2>1, <2>2, <2>3, <2>4 DEF Tidy, AndroidTypeOK
<1>12. FieldsMatch'
  <2>1. Current' \in 0..granted' \ finished'
    BY <1>4, <1>5, <1>6, <1>7 DEF Unset
  <2>2. fields' = FieldsOf(Current', Current', Current')
    BY <1>7
  <2>3. QED
    BY <1>2, <1>8, <2>1, <2>2 DEF FieldsMatch, FieldsOf
<1>13. SessionAlone'
  BY <1>7, <1>9 DEF SessionAlone
<1>14. ThreadAlone'
  <2>1. \A k \in Consents : thread'[k].step \in {"none", "exited"}
    BY <1>2 DEF Tidy, ThreadAlone
  <2>2. QED
    BY <2>1 DEF ThreadAlone
<1>15. OneConsent'
  <2>1. ASSUME NoConsent PROVE NoConsent'
    <3>1. intents' \in Seq(Only({"stop", "destroy"}))
      <4>1. m.what \in {"stop", "destroy"}
        BY <1>10
      <4>2. Append(intents, m) \in Seq(Only({"stop", "destroy"}))
        BY <1>10, <2>1, <4>1, MoreOf DEF NoConsent
      <4>3. QED
        BY <1>2, <2>1, <4>2 DEF NoConsent
    <3>2. QED
      BY <1>2, <2>1, <3>1 DEF NoConsent
  <2>2. CASE ~NoConsent
    <3>1. /\ Asked \/ (granted \in (1..granted) \ finished /\ (Resulted \/ Starting))
          /\ Current = Unset /\ handler.then # "stop"
      BY <2>2 DEF Tidy, OneConsent
    <3>2. finished' = finished /\ intents' = intents /\ looper' = looper /\ dialogs' = dialogs
      BY <1>2, <1>5, <3>1
    <3>3. /\ Asked => Asked'
          /\ Resulted => Resulted'
          /\ Starting => Starting'
      BY <1>5, <3>2 DEF Asked, Resulted, Starting
    <3>4. QED
      BY <1>5, <1>7, <1>8, <3>1, <3>2, <3>3 DEF OneConsent
  <2>3. QED
    BY <2>1, <2>2 DEF OneConsent
<1>16. ShowsTruth'
  <2>1. fields'.capture = Unset /\ display' # "STREAMING"
    BY <1>2 DEF NoFields
  <2>2. QED
    BY <2>1 DEF ShowsTruth, isCapturing
<1>17. QED
  BY <1>2, <1>11, <1>12, <1>13, <1>14, <1>15, <1>16 DEF Tidy, DialogOpen, Unharmed

-----------------------------------------------------------------------------
\* A step that takes nothing.
LEMMA SteppedOn ==
    ASSUME Tidy, NEW c \in Consents, NEW s \in Steps,
           thread' = [thread EXCEPT ![c].step = s]
    PROVE  /\ thread' \in [Consents -> [step : Steps, sink : Nat, service : Nat]]
           /\ thread'[c] = [step |-> s, sink |-> thread[c].sink, service |-> thread[c].service]
           /\ \A k \in Consents \ {c} : thread'[k] = thread[k]
BY DEF Tidy, AndroidTypeOK, Steps

\* The thread that runs is the session's, and what it read as its sink is the session's.
LEMMA RunsAlone ==
    ASSUME Tidy, NEW c \in Consents, thread[c].step \notin {"none", "exited"}
    PROVE  /\ c = Current /\ Current # Unset /\ thread[c].service = service.instance
           /\ handler.step # "finish" /\ thread[c].sink \in Nat
           /\ thread[c].step = "call" => thread[c].sink \in {Unset, c}
           /\ c \in Nat /\ c \notin finished /\ Unset \notin finished
BY SMTT(30) DEF Tidy, ThreadAlone, FieldsMatch, AndroidTypeOK, Consents, Unset

\* What a thread's step leaves to show: its own record, the crash and the display.
LEMMA ThreadStepInv ==
    ASSUME Tidy, NEW c \in Consents, thread[c].step \notin {"none", "exited"},
           thread' \in [Consents -> [step : Steps, sink : Nat, service : Nat]],
           \A k \in Consents \ {c} : thread'[k] = thread[k],
           thread'[c].service = thread[c].service,
           thread'[c].step = "call" => thread'[c].sink \in {Unset, c},
           UNCHANGED <<queueVars, serviceVars>>,
           crashed = "no", crashed' # "after finish", mixed' = FALSE,
           display' \in {display, "STREAMING"}
    PROVE  Tidy'
<1>1. UNCHANGED <<looper, intents, dialogs, granted, service, handler, fields, registered,
                  finished>>
  BY DEF queueVars, serviceVars
<1>2. AndroidTypeOK'
  BY <1>1 DEF Tidy, AndroidTypeOK, Steps
<1>3. FieldsMatch'
  BY <1>1 DEF Tidy, FieldsMatch, Current
<1>4. SessionAlone' /\ OneConsent'
  BY <1>1 DEF Tidy, SessionAlone, OwnMessages, Current, OneConsent, NoConsent, Asked, Resulted,
              Starting
<1>5. ThreadAlone'
  <2>1. Current' = Current
    BY <1>1 DEF Current
  <2>2. ASSUME NEW k \in Consents, thread'[k].step \notin {"none", "exited"}
        PROVE  /\ k = Current' /\ thread'[k].service = service'.instance
               /\ handler'.step # "finish"
               /\ thread'[k].step = "call" => thread'[k].sink \in {Unset, k}
    <3>1. CASE k = c
      BY <1>1, <2>1, <3>1, RunsAlone
    <3>2. CASE k # c
      <4>1. thread'[k] = thread[k]
        BY <3>2
      <4>2. QED
        BY <1>1, <2>1, <2>2, <4>1 DEF Tidy, ThreadAlone
    <3>3. QED
      BY <3>1, <3>2
  <2>3. QED
    BY <2>2 DEF ThreadAlone
<1>6. ShowsTruth'
  <2>1. ASSUME OnMain' PROVE isCapturing' /\ fields'.capture # Unset
    <3>1. OnMain
      BY <1>1, <2>1 DEF OnMain
    <3>2. fields.capture # Unset
      BY <3>1, FieldsBetween, RunsAlone
    <3>3. isCapturing
      BY <3>1, <3>2 DEF Tidy, ShowsTruth
    <3>4. QED
      BY <1>1, <3>2, <3>3 DEF isCapturing
  <2>2. QED
    BY <2>1 DEF ShowsTruth
<1>7. QED
  BY <1>1, <1>2, <1>3, <1>4, <1>5, <1>6 DEF Tidy, DialogOpen, Unharmed

LEMMA CaptureThreadInv ==
    ASSUME Tidy, NEW c \in Consents,
           ReadLoop(c) \/ TakeSink(c) \/ onBlock(c) \/ refreshStatus(c)
    PROVE  Tidy'
<1>1. crashed = "no" /\ UNCHANGED <<queueVars, serviceVars>>
  BY DEF ReadLoop, TakeSink, onBlock, refreshStatus, ThreadOnly
<1>2. ASSUME NEW from \in Steps \ {"none", "exited"}, NEW to \in Steps \ {"call"},
             Goes(c, from, to), crashed' # "after finish", mixed' = FALSE,
             display' \in {display, "STREAMING"}
      PROVE  Tidy'
  <2>1. /\ thread[c].step = from /\ thread' = [thread EXCEPT ![c].step = to]
        /\ from # "none" /\ from # "exited" /\ to # "call"
    BY <1>2 DEF Goes
  <2>2. /\ thread' \in [Consents -> [step : Steps, sink : Nat, service : Nat]]
        /\ thread'[c] = [step |-> to, sink |-> thread[c].sink, service |-> thread[c].service]
        /\ \A k \in Consents \ {c} : thread'[k] = thread[k]
    BY <2>1, SteppedOn
  <2>3. /\ thread[c].step \notin {"none", "exited"}
        /\ thread'[c].service = thread[c].service /\ thread'[c].step # "call"
    BY <2>1, <2>2
  <2>4. QED
    BY <1>1, <1>2, <2>2, <2>3, ThreadStepInv
<1>3. mixed = FALSE
  BY DEF Tidy, Unharmed
<1>4. CASE ReadLoop(c)
  <2>1. mixed' = FALSE /\ display' = display /\ crashed' = "no"
    BY <1>1, <1>3, <1>4 DEF ReadLoop
  <2>2. \/ \E to \in {"read", "exited"} : Goes(c, "check", to)
        \/ \E to \in {"block", "check"} : Goes(c, "read", to)
    BY <1>4 DEF ReadLoop
  <2>3. QED
    BY <1>2, <2>1, <2>2 DEF Steps
<1>5. CASE TakeSink(c)
  <2>1. PICK held : held = (IF thread[c].service = service.instance THEN fields.frameSink
                                                                     ELSE Unset)
    OBVIOUS
  <2>2. /\ mixed' = FALSE /\ display' = display /\ crashed' = "no" /\ thread[c].step = "block"
        /\ thread' = [thread EXCEPT ![c].step = "call", ![c].sink = held]
    BY <1>1, <1>3, <1>5, <2>1 DEF TakeSink
  <2>3. c = Current /\ handler.step # "finish" /\ c \in Nat
    BY <2>2, RunsAlone
  <2>4. fields.frameSink \in {Unset, c}
    <3>1. handler.step \in {"idle", "wire", "format", "join"}
      BY <2>3 DEF Tidy, AndroidTypeOK
    <3>2. \/ fields = FieldsOf(Current, Current, Current)
          \/ fields = FieldsOf(Unset, Unset, Current)
      BY <1>1, <3>1 DEF Tidy, FieldsMatch
    <3>3. QED
      BY <2>3, <3>2 DEF FieldsOf
  <2>5. held \in {Unset, c} /\ held \in Nat
    BY <2>1, <2>3, <2>4 DEF Unset
  <2>6. /\ thread' \in [Consents -> [step : Steps, sink : Nat, service : Nat]]
        /\ thread'[c] = [step |-> "call", sink |-> held, service |-> thread[c].service]
        /\ \A k \in Consents \ {c} : thread'[k] = thread[k]
    BY <2>2, <2>5, SinkTaken DEF Steps
  <2>7. /\ thread[c].step \notin {"none", "exited"}
        /\ thread'[c].service = thread[c].service /\ thread'[c].sink \in {Unset, c}
    BY <2>2, <2>5, <2>6
  <2>8. QED
    BY <1>1, <2>2, <2>6, <2>7, ThreadStepInv
<1>6. CASE onBlock(c)
  <2>1. Goes(c, "call", "status") /\ display' = display
    BY <1>6 DEF onBlock
  <2>2. thread[c].sink \in {Unset, c} /\ c \notin finished /\ Unset \notin finished
    BY <2>1, RunsAlone DEF Goes
  <2>3. crashed' \in {"before format", "no"}
    <3>1. PICK s : s = thread[c].sink
      OBVIOUS
    <3>2. crashed' = CASE s \in finished                           -> "after finish"
                       [] s \notin finished \union format \union {Unset} -> "before format"
                       [] s \in {Unset} \union (format \ finished)  -> "no"
      BY <1>6, <3>1 DEF onBlock
    <3>3. s \notin finished
      BY <2>2, <3>1
    <3>4. QED
      BY <3>2, <3>3
  <2>4. mixed' = FALSE
    BY <1>3, <1>6, <2>2 DEF onBlock
  <2>5. QED
    BY <1>2, <2>1, <2>3, <2>4 DEF Steps
<1>7. CASE refreshStatus(c)
  <2>1. mixed' = FALSE /\ crashed' = "no"
    BY <1>1, <1>3, <1>7 DEF refreshStatus
  <2>2. \/ \E to \in {"check", "set"} : Goes(c, "status", to) /\ display' = display
        \/ Goes(c, "set", "check") /\ display' = "STREAMING"
    BY <1>7 DEF refreshStatus
  <2>3. QED
    BY <1>2, <2>1, <2>2 DEF Steps
<1>8. QED
  BY <1>4, <1>5, <1>6, <1>7

-----------------------------------------------------------------------------
\* What a step may make of the history: it only ever says more.
LEMMA History ==
    ASSUME late \in BOOLEAN, hurried \in BOOLEAN, mixed \in BOOLEAN, AndroidNext
    PROVE  /\ late' \in BOOLEAN /\ hurried' \in BOOLEAN /\ mixed' \in BOOLEAN
           /\ ~late' => ~late
           /\ ~hurried' => ~hurried
<1>1. CASE StopTapped \/ DialogShown \/ (\E ok \in BOOLEAN : Answer(ok))
           \/ onActivityResult \/ DeliverIntent \/ onStop \/ StopOfDestroyed
  BY <1>1 DEF StopTapped, DialogShown, Answer, onActivityResult, DeliverIntent, onStop,
              StopOfDestroyed, threadVars, serviceVars
<1>2. CASE requestConsent
  <2>1. late' = late /\ mixed' = mixed
    BY <1>2 DEF requestConsent, threadVars, serviceVars
  <2>2. hurried' \in BOOLEAN /\ (~hurried' => ~hurried)
    BY <1>2 DEF requestConsent
  <2>3. QED
    BY <2>1, <2>2
<1>3. CASE Start \/ Reclaim \/ (\E what \in {"stop", "stopCapture", "destroy"} : stopCapture(what))
           \/ FinishStop \/ WireSink \/ AnnounceFormat
  BY <1>3 DEF Start, Reclaim, stopCapture, FinishStop, WireSink, AnnounceFormat, threadVars,
              queueVars
<1>4. CASE Join
  <2>1. hurried' = hurried /\ mixed' = mixed
    BY <1>4 DEF Join, queueVars, threadVars
  <2>2. late' \in BOOLEAN /\ (~late' => ~late)
    BY <1>4 DEF Join
  <2>3. QED
    BY <2>1, <2>2
<1>5. ASSUME NEW c \in Consents, ReadLoop(c) \/ TakeSink(c) \/ onBlock(c) \/ refreshStatus(c)
      PROVE  /\ late' = late /\ hurried' = hurried
             /\ mixed' \in BOOLEAN
  <2>1. late' = late /\ hurried' = hurried
    BY <1>5 DEF ReadLoop, TakeSink, onBlock, refreshStatus, ThreadOnly, queueVars, serviceVars
  <2>2. CASE onBlock(c)
    <3>1. mixed' \in BOOLEAN
      BY <2>2 DEF onBlock
    <3>2. QED
      BY <2>1, <3>1
  <2>3. CASE ReadLoop(c) \/ TakeSink(c) \/ refreshStatus(c)
    BY <2>1, <2>3 DEF ReadLoop, TakeSink, refreshStatus
  <2>4. QED
    BY <1>5, <2>2, <2>3
<1>6. QED
  BY <1>1, <1>2, <1>3, <1>4, <1>5 DEF AndroidNext

LEMMA AndroidNextInv == AndroidInv /\ [AndroidNext]_androidVars => AndroidInv'
<1> SUFFICES ASSUME AndroidInv, [AndroidNext]_androidVars PROVE AndroidInv'
  OBVIOUS
<1>1. CASE AndroidNext
  <2>1. /\ late' \in BOOLEAN /\ hurried' \in BOOLEAN /\ mixed' \in BOOLEAN
        /\ ~late' => ~late
        /\ ~hurried' => ~hurried
    BY <1>1, History DEF AndroidInv
  <2>2. ASSUME ~late', ~hurried' PROVE Tidy'
    <3>1. Tidy
      BY <2>1, <2>2 DEF AndroidInv
    <3>2. ASSUME NEW ok \in BOOLEAN, Answer(ok) PROVE Tidy'
      BY <3>1, <3>2, AnswerInv
    <3>3. ASSUME NEW what \in {"stop", "stopCapture", "destroy"}, stopCapture(what) PROVE Tidy'
      BY <3>1, <3>3, stopCaptureInv
    <3>4. ASSUME NEW c \in Consents,
                 ReadLoop(c) \/ TakeSink(c) \/ onBlock(c) \/ refreshStatus(c)
          PROVE  Tidy'
      BY <3>1, <3>4, CaptureThreadInv
    <3>5. CASE StopTapped \/ requestConsent \/ DialogShown \/ onActivityResult \/ DeliverIntent
      BY <2>2, <3>1, <3>5, StopTappedInv, RequestInv, DialogShownInv, onActivityResultInv,
         DeliverIntentInv
    <3>6. CASE Start \/ WireSink \/ AnnounceFormat \/ Reclaim \/ onStop
      BY <3>1, <3>6, SessionStartInv, WireSinkInv, AnnounceFormatInv, ReclaimInv, onStopInv
    <3>7. CASE StopOfDestroyed \/ Join \/ FinishStop
      BY <2>2, <3>1, <3>7, StopOfDestroyedInv, JoinInv, FinishStopInv
    <3>8. QED
      BY <1>1, <3>2, <3>3, <3>4, <3>5, <3>6, <3>7 DEF AndroidNext
  <2>3. QED
    BY <2>1, <2>2 DEF AndroidInv
<1>2. CASE UNCHANGED androidVars
  <2>1. UNCHANGED <<looper, intents, dialogs, granted, mixed, thread, service, handler, fields,
                    registered, finished, display, crashed, late, hurried>>
    BY <1>2 DEF androidVars, queueVars, threadVars, serviceVars
  <2>2. ASSUME Tidy PROVE Tidy'
    <3>1. AndroidTypeOK' /\ FieldsMatch' /\ ThreadAlone'
      BY <2>1, <2>2 DEF Tidy, AndroidTypeOK, FieldsMatch, ThreadAlone, Current
    <3>2. SessionAlone' /\ OneConsent'
      BY <2>1, <2>2 DEF Tidy, SessionAlone, OwnMessages, Current, OneConsent, NoConsent, Asked,
                        Resulted, Starting
    <3>3. QED
      BY <2>1, <2>2, <3>1, <3>2 DEF Tidy, DialogOpen, Unharmed, ShowsTruth, OnMain, isCapturing
  <2>3. QED
    BY <2>1, <2>2 DEF AndroidInv
<1>3. QED
  BY <1>1, <1>2

LEMMA AndroidSafe == AndroidInv => CleanStop
<1> SUFFICES ASSUME Tidy PROVE CleanStop
  <2>1. ASSUME AndroidInv, ~late, ~hurried PROVE Tidy
    BY <2>1 DEF AndroidInv
  <2>2. QED
    BY <2>1 DEF CleanStop
<1>1. ~mixed /\ crashed # "after finish" /\ (OnMain => (isCapturing <=> fields.capture # Unset))
  BY DEF Tidy, Unharmed, ShowsTruth
<1>2. handler.then = "stopCapture" => fields.projection \in {Unset, handler.consent}
  BY DEF Tidy, SessionAlone, Current
<1>3. handler.then = "destroy" => fields.capture = Unset
  <2>1. SUFFICES ASSUME handler.then = "destroy" PROVE fields.capture = Unset
    OBVIOUS
  <2>2. Current = Unset
    BY <2>1 DEF Tidy, SessionAlone
  <2>3. handler.step = "finish"
    BY <2>1, <2>2 DEF Tidy, FieldsMatch, AndroidTypeOK
  <2>4. QED
    BY <2>3 DEF Tidy, FieldsMatch, FieldsOf
<1>4. QED
  BY <1>1, <1>2, <1>3 DEF CleanStop

\* Stopping is clean however consents, stops and reclaimed projections follow each other,
\* unless a thread outlives its join or a consent is asked for during another, a start or
\* a stop (EmitterService.stopCapture, MediaProjectionCaptureAdapter.stop).
THEOREM StoppingIsClean == AndroidSpec => []CleanStop
<1>1. AndroidInit => AndroidInv
  BY AndroidInitInv
<1>2. AndroidInv /\ [AndroidNext]_androidVars => AndroidInv'
  BY AndroidNextInv
<1>3. AndroidInv => CleanStop
  BY AndroidSafe
<1>4. QED
  BY <1>1, <1>2, <1>3, PTL DEF AndroidSpec

-----------------------------------------------------------------------------
(***************************************************************************)
(* The session.                                                            *)
(***************************************************************************)

\* g gives the delays of the attempts in D.
DelaysOn(D, g) ==
    g = [n \in D |-> IF n = 1 THEN INITIAL_RECONNECT ELSE next_backoff(g[n - 1])]

\* The first n attempts have delays.
LEMMA FirstDelays ==
    ASSUME NEW n \in Nat
    PROVE  \E g : DelaysOn(1..n, g)
<1> DEFINE T == {k \in Nat : \E g : DelaysOn(1..k, g)}
<1>1. 0 \in T
  <2>1. DelaysOn(1..0, [k \in 1..0 |-> 0])
    BY DEF DelaysOn
  <2>2. QED
    BY <2>1
<1>2. ASSUME NEW k \in T PROVE k + 1 \in T
  <2>1. PICK g : DelaysOn(1..k, g)
    OBVIOUS
  <2>2. k \in Nat
    OBVIOUS
  <2> DEFINE h == [j \in 1..(k + 1) |->
                     IF j = 1 THEN INITIAL_RECONNECT ELSE next_backoff(g[j - 1])]
  <2>3. \A j \in 1..k : h[j] = g[j]
    <3>1. 1..k \subseteq 1..(k + 1)
      BY <2>2
    <3>2. \A j \in 1..k : g[j] = IF j = 1 THEN INITIAL_RECONNECT ELSE next_backoff(g[j - 1])
      BY <2>1 DEF DelaysOn
    <3>3. QED
      BY <3>1, <3>2
  <2>4. \A j \in 1..(k + 1) : j # 1 => h[j - 1] = g[j - 1]
    <3>1. \A j \in 1..(k + 1) : j # 1 => j - 1 \in 1..k
      BY <2>2
    <3> HIDE DEF h
    <3>2. QED
      BY <2>3, <3>1
  <2>5. DelaysOn(1..(k + 1), h)
    BY <2>4 DEF DelaysOn
  <2>6. \E f : DelaysOn(1..(k + 1), f)
    <3> HIDE DEF h
    <3>1. QED
      BY <2>5
  <2>7. QED
    BY <2>2, <2>6
<1>3. T = Nat
  <2> HIDE DEF T
  <2>1. T \in SUBSET Nat
    BY DEF T
  <2>2. QED
    BY <1>1, <1>2, <2>1, HoldsEveryNumber
<1>4. QED
  BY <1>3

\* And they are the same, however many attempts are counted.
LEMMA DelaysAgree ==
    ASSUME NEW m \in Nat, NEW n \in Nat, NEW g, NEW h, DelaysOn(1..m, g), DelaysOn(1..n, h)
    PROVE  \A k \in 1..m : k \in 1..n => g[k] = h[k]
<1> DEFINE T == {k \in Nat : k \in 1..m /\ k \in 1..n => g[k] = h[k]}
<1>1. /\ \A k \in 1..m : g[k] = IF k = 1 THEN INITIAL_RECONNECT ELSE next_backoff(g[k - 1])
      /\ \A k \in 1..n : h[k] = IF k = 1 THEN INITIAL_RECONNECT ELSE next_backoff(h[k - 1])
  BY DEF DelaysOn
<1>2. 0 \in T
  OBVIOUS
<1>3. ASSUME NEW k \in T PROVE k + 1 \in T
  <2>1. k \in Nat /\ k + 1 \in Nat
    OBVIOUS
  <2>2. ASSUME k + 1 \in 1..m, k + 1 \in 1..n PROVE g[k + 1] = h[k + 1]
    <3>1. CASE k = 0
      BY <1>1, <2>2, <3>1
    <3>2. CASE k # 0
      <4>1. g[k] = h[k]
        BY <2>1, <2>2, <3>2
      <4>2. (k + 1) - 1 = k /\ k + 1 # 1
        BY <2>1, <3>2
      <4>3. g[k + 1] = next_backoff(g[(k + 1) - 1]) /\ h[k + 1] = next_backoff(h[(k + 1) - 1])
        BY <1>1, <2>2, <4>2
      <4>4. QED
        BY <4>1, <4>2, <4>3
    <3>3. QED
      BY <3>1, <3>2
  <2>3. QED
    BY <2>1, <2>2
<1>4. T = Nat
  <2> HIDE DEF T
  <2>1. T \in SUBSET Nat
    BY DEF T
  <2>2. QED
    BY <1>2, <1>3, <2>1, HoldsEveryNumber
<1>5. QED
  BY <1>4

\* The schedule is the one next_backoff defines.
LEMMA BackoffUnfolds ==
    /\ Backoff[1] = INITIAL_RECONNECT
    /\ \A n \in Nat \ {0} : Backoff[n + 1] = next_backoff(Backoff[n])
<1> DEFINE D == Nat \ {0}
           table(n) == CHOOSE g : DelaysOn(1..n, g)
           f == [n \in D |-> table(n)[n]]
<1>1. \A n \in D : DelaysOn(1..n, table(n))
  BY FirstDelays
<1> HIDE DEF table
<1>2. \A n \in D : f[n] = IF n = 1 THEN INITIAL_RECONNECT ELSE next_backoff(f[n - 1])
  <2>1. TAKE n \in D
  <2>2. n \in 1..n /\ f[n] = table(n)[n]
    OBVIOUS
  <2>3. table(n)[n] = IF n = 1 THEN INITIAL_RECONNECT ELSE next_backoff(table(n)[n - 1])
    BY <1>1, <2>2 DEF DelaysOn
  <2>4. ASSUME n # 1 PROVE table(n)[n - 1] = f[n - 1]
    <3>1. n - 1 \in D /\ n - 1 \in 1..n /\ n - 1 \in 1..(n - 1)
      BY <2>4
    <3>2. DelaysOn(1..n, table(n)) /\ DelaysOn(1..(n - 1), table(n - 1))
      BY <1>1, <3>1
    <3>3. n \in Nat /\ n - 1 \in Nat
      BY <3>1
    <3>4. table(n)[n - 1] = table(n - 1)[n - 1]
      BY <3>1, <3>2, <3>3, DelaysAgree
    <3>5. QED
      BY <3>1, <3>4
  <2> HIDE DEF f
  <2>5. QED
    BY <2>2, <2>3, <2>4
<1>3. DelaysOn(D, f)
  <2> DEFINE h == [n \in D |-> IF n = 1 THEN INITIAL_RECONNECT ELSE next_backoff(f[n - 1])]
  <2>1. f = h
    <3>1. \A n \in D : f[n] = h[n]
      BY <1>2
    <3>2. DOMAIN f = D /\ DOMAIN h = D /\ f = [n \in D |-> f[n]] /\ h = [n \in D |-> h[n]]
      OBVIOUS
    <3> HIDE DEF f, h
    <3>3. QED
      BY <3>1, <3>2
  <2> HIDE DEF f
  <2>2. QED
    BY <2>1 DEF DelaysOn
<1> HIDE DEF f
<1>4. DelaysOn(D, Backoff)
  <2>1. Backoff = CHOOSE g : DelaysOn(D, g)
    BY DEF Backoff, DelaysOn
  <2>2. QED
    BY <1>3, <2>1
<1>5. \A n \in D : Backoff[n] = IF n = 1 THEN INITIAL_RECONNECT ELSE next_backoff(Backoff[n - 1])
  BY <1>4 DEF DelaysOn
<1>6. \A n \in D : n + 1 \in D /\ n + 1 # 1 /\ (n + 1) - 1 = n
  OBVIOUS
<1>7. \A n \in D : Backoff[n + 1] = next_backoff(Backoff[n])
  <2>1. TAKE n \in D
  <2>2. Backoff[n + 1] = next_backoff(Backoff[(n + 1) - 1])
    BY <1>5, <1>6
  <2>3. QED
    BY <1>6, <2>2
<1>8. QED
  BY <1>5, <1>7

\* Every step keeps to the schedule: a recovery starts it afresh, and a retry
\* takes the next delay.
SessionInv ==
    /\ attempt \in Nat /\ lastReconnect \in Nat
    /\ BackoffSchedule

LEMMA Transition ==
    ASSUME SessionInv, NEW next, transition_to(next)
    PROVE  SessionInv'
<1>1. /\ state' = next
      /\ attempt' = IF next = "Recovering" THEN 1 ELSE attempt
      /\ lastReconnect' = IF next = "Recovering" THEN INITIAL_RECONNECT ELSE lastReconnect
  BY DEF transition_to
<1>2. BackoffSchedule'
  BY <1>1, BackoffUnfolds DEF BackoffSchedule
<1>3. attempt' \in Nat /\ lastReconnect' \in Nat
  BY <1>1, SessionAssumption DEF SessionInv
<1>4. QED
  BY <1>1, <1>2, <1>3 DEF SessionInv

\* A step that leaves the state and the schedule alone.
LEMMA ScheduleKept ==
    ASSUME SessionInv, UNCHANGED <<state, attempt, lastReconnect>>
    PROVE  SessionInv'
BY DEF SessionInv, BackoffSchedule

\* A timer event that reaches an arm of advance.
LEMMA TimeoutKeeps == SessionInv /\ Timeout => SessionInv'
<1> SUFFICES ASSUME SessionInv, Timeout PROVE SessionInv'
  OBVIOUS
<1>1. CASE ControlTimeout
  BY <1>1 DEF ControlTimeout, SessionInv, BackoffSchedule
<1>2. CASE ReconnectTimeout
  <2>1. /\ attempt \in Nat \ {0} /\ lastReconnect \in Nat
        /\ lastReconnect = Backoff[attempt] /\ state = "Recovering"
    BY <1>2 DEF ReconnectTimeout, SessionInv, BackoffSchedule
  <2>2. ASSUME NEW delay \in Nat, delay = next_backoff(lastReconnect), Retry(delay)
        PROVE  SessionInv'
    <3>1. /\ attempt' = attempt + 1 /\ lastReconnect' = delay
          /\ UNCHANGED state
      BY <2>2 DEF Retry
    <3>2. Backoff[attempt + 1] = delay
      BY <2>1, <2>2, BackoffUnfolds
    <3>3. BackoffSchedule'
      BY <2>1, <3>1, <3>2 DEF BackoffSchedule
    <3>4. attempt' \in Nat /\ lastReconnect' \in Nat
      BY <2>1, <2>2, <3>1
    <3>5. QED
      BY <3>1, <3>3, <3>4 DEF SessionInv
  <2>3. Raised(lastReconnect) \in Nat /\ RECONNECT_CAP \in Nat
    BY <2>1, SessionAssumption DEF Raised
  <2>4. CASE Raised(lastReconnect) <= RECONNECT_CAP /\ Retry(Raised(lastReconnect))
    <3>1. Raised(lastReconnect) = next_backoff(lastReconnect)
      BY <2>3, <2>4 DEF next_backoff
    <3>2. QED
      BY <2>2, <2>3, <2>4, <3>1
  <2>5. CASE Raised(lastReconnect) > RECONNECT_CAP /\ Retry(RECONNECT_CAP)
    <3>1. RECONNECT_CAP = next_backoff(lastReconnect)
      BY <2>3, <2>5 DEF next_backoff
    <3>2. QED
      BY <2>2, <2>3, <2>5, <3>1
  <2>6. CASE UNCHANGED <<state, reason, mode, attempt, lastReconnect, clocks, timers>>
    BY <2>6, ScheduleKept DEF clocks, SessionInv
  <2>7. QED
    BY <1>2, <2>4, <2>5, <2>6 DEF ReconnectTimeout
<1>3. ASSUME NEW label \in Labels, TimeoutIgnored(label) PROVE SessionInv'
  BY <1>3, ScheduleKept DEF TimeoutIgnored, clocks, SessionInv
<1>4. QED
  BY <1>1, <1>2, <1>3 DEF Timeout

\* The arms that change the state.
LEMMA RequestKeeps == SessionInv /\ (Request \/ KeepaliveTimeout) => SessionInv'
<1> SUFFICES ASSUME SessionInv, Request \/ KeepaliveTimeout PROVE SessionInv'
  OBVIOUS
<1>1. ASSUME NEW next, transition_to(next) PROVE SessionInv'
  BY <1>1, Transition
<1>2. ASSUME NEW next, Enter(next) PROVE SessionInv'
  BY <1>1, <1>2 DEF Enter
<1>3. ASSUME NEW next, NEW label, NEW ms, EnterWithTimer(next, label, ms) PROVE SessionInv'
  BY <1>1, <1>3 DEF EnterWithTimer
<1>4. ASSUME NEW next, NEW why, End(next, why) PROVE SessionInv'
  BY <1>1, <1>4 DEF End
<1>5. CASE Discovered \/ ConnectRequested \/ NegotiationOk \/ StreamPause \/ StreamResume
           \/ ModeChangeRequested
  BY <1>2, <1>5 DEF Discovered, ConnectRequested, NegotiationOk, StreamPause, StreamResume,
                    ModeChangeRequested
<1>6. CASE PairingStarted \/ PairingConfirmed \/ WakeEntered \/ LinkLost \/ LinkBack
  BY <1>2, <1>3, <1>6 DEF PairingStarted, PairingConfirmed, WakeEntered, LinkLost, LinkBack,
                          Negotiate
<1>7. CASE SasRejected \/ FingerprintMismatch \/ NegotiationMismatch \/ RecoveryExhausted
           \/ KeepaliveTimeout
  BY <1>4, <1>7 DEF SasRejected, FingerprintMismatch, NegotiationMismatch, RecoveryExhausted,
                    KeepaliveTimeout
<1>8. CASE SleepEntered
  BY <1>1, <1>8 DEF SleepEntered
<1>9. QED
  BY <1>5, <1>6, <1>7, <1>8 DEF Request, Negotiation

LEMMA SessionStep == SessionInv /\ [SessionNext]_sessionVars => SessionInv'
<1> SUFFICES ASSUME SessionInv, [SessionNext]_sessionVars PROVE SessionInv'
  OBVIOUS
<1>1. CASE Advance
  BY <1>1, RequestKeeps, TimeoutKeeps DEF Advance
<1>2. CASE Tick
  BY <1>2, ScheduleKept DEF Tick, SessionInv
<1>3. CASE SetMode
  BY <1>3, ScheduleKept DEF SetMode, clocks, SessionInv
<1>4. ASSUME NEW label \in Labels, Expire(label) PROVE SessionInv'
  BY <1>4, ScheduleKept DEF Expire, clocks, SessionInv
<1>5. CASE UNCHANGED sessionVars
  BY <1>5, ScheduleKept DEF sessionVars, clocks, SessionInv
<1>6. QED
  BY <1>1, <1>2, <1>3, <1>4, <1>5 DEF SessionNext, Caller

LEMMA SessionInvariance == SessionSpec => []SessionInv
<1>1. SessionInit => SessionInv
  BY DEF SessionInit, SessionInv, BackoffSchedule
<1>2. SessionInv /\ [SessionNext]_sessionVars => SessionInv'
  BY SessionStep
<1>3. QED
  BY <1>1, <1>2, PTL DEF SessionSpec

\* In every recovery the delay before an attempt is the one next_backoff gives
\* for its number, for every first delay and every cap (ReconnectTimeout).
THEOREM BackoffIsKept == SessionSpec => []BackoffSchedule
<1>1. SessionInv => BackoffSchedule
  BY DEF SessionInv
<1>2. QED
  BY <1>1, SessionInvariance, PTL

=============================================================================
