------------------------------ MODULE BridgeEngine ------------------------------
(***************************************************************************)
(* EngineHandle (wdr_bridge), through which a mobile shell's threads drive    *)
(* one QuicAudioSink.  The sink stays on the engine's worker thread; a call   *)
(* puts a command and a reply channel of its own in the command channel and   *)
(* blocks for the reply, while status() reads a shared cell at any time.      *)
(* Here the sink is only what the commands leave of it (LiveSink models it).  *)
(***************************************************************************)
EXTENDS Naturals, FiniteSets, SequencesExt

CONSTANTS
    Clients,   \* the shell's threads
    MaxCalls   \* bound: calls in all

ASSUME BridgeAssumption == IsFiniteSet(Clients) /\ MaxCalls \in Nat

VARIABLES
    waiting,   \* clients blocked in a call
    queue,     \* the command channel
    worker,    \* worker: "idle", "called" (status still to be set), "done"
    current,   \* worker: the command it executes, and whether it succeeded
    sink,      \* "none", "live", or "marked": its end marker was sent
    status,    \* the status cell
    calls

bridgeVars == <<waiting, queue, worker, current, sink, status, calls>>

Ops     == {"start", "format", "block", "finish"}
Nothing == [client |-> CHOOSE c \in Clients : TRUE, op |-> "format", ok |-> TRUE]

BridgeInit ==
    /\ waiting = {} /\ queue = << >> /\ worker = "idle" /\ current = Nothing
    /\ sink = "none" /\ status = "Idle" /\ calls = 0

\* start, on_format, on_block and finish: send the command, then wait.
Call(c, op) ==
    /\ c \notin waiting /\ calls < MaxCalls
    /\ waiting' = waiting \cup {c} /\ calls' = calls + 1
    /\ queue' = Append(queue, [client |-> c, op |-> op])
    /\ UNCHANGED <<worker, current, sink, status>>

\* What a command may leave of the sink, and whether it succeeds.  A start that
\* fails (bad code, unreachable receiver, policy, pairing) keeps the old sink.
Outcomes(op) ==
    {<<sink, FALSE>>} \cup
      IF op = "start" THEN {<<"live", TRUE>>}
      ELSE IF sink = "none" THEN {}
      ELSE {<<IF op = "finish" THEN "marked" ELSE sink, TRUE>>}

\* engine_loop takes the next command and runs it on the sink.
Execute ==
    /\ worker = "idle" /\ queue # << >>
    /\ queue' = Tail(queue)
    /\ \E o \in Outcomes(Head(queue).op) :
         /\ sink' = o[1]
         /\ current' = [client |-> Head(queue).client, op |-> Head(queue).op, ok |-> o[2]]
    /\ worker' = IF Head(queue).op \in {"start", "finish"} THEN "called" ELSE "done"
    /\ UNCHANGED <<waiting, status, calls>>

\* MUTANT: the result of a finish is not looked at.
StatusAfter_FinishAlways(cmd) ==
    IF cmd.op = "finish" THEN "Finished" ELSE IF cmd.ok THEN "Streaming" ELSE "Error"

\* Only start and finish set the status; Dialing is never set.
StatusAfter(cmd) ==
    IF ~cmd.ok THEN "Error" ELSE IF cmd.op = "start" THEN "Streaming" ELSE "Finished"

SetStatus ==
    /\ worker = "called" /\ worker' = "done"
    /\ status' = StatusAfter(current)
    /\ UNCHANGED <<waiting, queue, current, sink, calls>>

\* MUTANT: no reply is sent when a command failed.
Answered_OnlySuccess == IF current.ok THEN {current.client} ELSE {}

Answered == {current.client}

\* The reply wakes the client that sent the command.
Reply ==
    /\ worker = "done" /\ worker' = "idle"
    /\ waiting' = waiting \ Answered
    /\ UNCHANGED <<queue, current, sink, status, calls>>

BridgeNext ==
    \/ \E c \in Clients, op \in Ops : Call(c, op)
    \/ Execute
    \/ SetStatus
    \/ Reply

\* The worker thread runs, and every call on the sink returns: dialling and the
\* handshake are bounded by timeouts.
BridgeFairness == WF_bridgeVars(Execute) /\ WF_bridgeVars(SetStatus) /\ WF_bridgeVars(Reply)
BridgeSpec     == BridgeInit /\ [][BridgeNext]_bridgeVars
BridgeFairSpec == BridgeSpec /\ BridgeFairness

-----------------------------------------------------------------------------
(***************************************************************************)
(* Properties.                                                             *)
(***************************************************************************)

\* What status() tells the shell is true of the sink unless a start or finish is
\* under way: Streaming means a sink whose marker is still to come, Finished one
\* whose marker was sent, Idle no sink; Error tells nothing, for a failed start
\* keeps the sink it found, and the stream goes on.
StatusDescribesSink ==
    worker # "called" =>
      /\ status = "Streaming" => sink = "live"
      /\ status = "Finished" => sink = "marked"
      /\ status = "Idle" => sink = "none"

\* A shell thread that calls the engine gets its answer, whatever the commands
\* before it did and whoever else is calling.
CallsReturn == \A c \in Clients : c \in waiting ~> c \notin waiting

-----------------------------------------------------------------------------
(***************************************************************************)
(* The inductive strengthening of StatusDescribesSink: while the worker has  *)
(* its command's result in hand, the sink is what that result says.         *)
(***************************************************************************)
ResultDescribesSink ==
    worker = "called" =>
      /\ current.op \in {"start", "finish"}
      /\ current.ok => sink = IF current.op = "start" THEN "live" ELSE "marked"

BridgeInv == StatusDescribesSink /\ ResultDescribesSink
=============================================================================
