------------------------------- MODULE MediaLane -------------------------------
(***************************************************************************)
(* One media stream from end to end: the emitter (emitter.rs), the QUIC      *)
(* connection, and the receiver (receiver_server.rs driving the Receiver of *)
(* receiver.rs around the JitterBuffer, whose actions are used as they are). *)
(* Lossy audio rides datagrams: any of them may be lost or overtake others. *)
(* Lossless audio rides reliable streams, one item per stream, and the       *)
(* receiver accepts them in the order they were opened.                      *)
(***************************************************************************)
EXTENDS JitterBuffer, SequencesExt

CONSTANTS
    Lanes,       \* lanes a behaviour may use: a subset of {"datagram", "stream"}
    Total,       \* whole frames the source supplies
    HeldMax,     \* datagrams the reorder impairment may hold back (8 in the code)
    SniffTicks,  \* the 5 s deadline for the first item, in ticks
    EndTicks     \* END_POLL_MS, in ticks

ASSUME LaneAssumption ==
    /\ Lanes \subseteq {"datagram", "stream"}
    /\ Total \in Nat /\ HeldMax \in Nat
    /\ SniffTicks \in Nat \ {0} /\ EndTicks \in Nat \ {0}

VARIABLES
    lane,         \* fixed by the codec's plan: lossy on datagrams, lossless on streams
    phase,        \* emitter: "run", "ended" (marker sent) or "failed"
    seq,          \* emitter: next sequence number
    held,         \* emitter: sequence numbers of the datagrams held back
    packetsSent,  \* emitter: packets_sent
    offered,      \* history: emit_one calls so far, duplicates included
    wire,         \* items in flight or waiting to be read, in sending order
    connected,    \* the QUIC connection is up
    rphase,       \* receiver: "sniff", "run", "done" (an outcome) or "failed"
    timer,        \* receiver: ticks since its current bounded wait began
    idle,         \* history: ticks since the receiver last took an item
    formatSent,   \* receiver: format_sent
    packetsRecv,  \* metrics.packets_recv
    malformed,    \* metrics.malformed
    loss,         \* metrics.loss
    rendered      \* history: sequence numbers the render sink accepted

emitter  == <<lane, phase, seq, held, packetsSent, offered>>
receiver == <<rphase, timer, idle>>
metrics  == <<formatSent, packetsRecv, malformed, loss, rendered>>
laneVars == <<vars, emitter, wire, connected, receiver, metrics>>

Datagram == lane = "datagram"

Audio(n) == [kind |-> "audio", n |-> n]
End(n)   == [kind |-> "end", n |-> n]

LaneInit ==
    /\ Init
    /\ lane \in Lanes
    /\ phase = "run" /\ seq = 0 /\ held = << >> /\ packetsSent = 0 /\ offered = 0
    /\ wire = << >> /\ connected = TRUE
    /\ rphase = "sniff" /\ timer = 0 /\ idle = 0
    /\ formatSent = FALSE /\ packetsRecv = 0 /\ malformed = 0 /\ loss = 0
    /\ rendered = {}

-----------------------------------------------------------------------------
(***************************************************************************)
(* The emitter.                                                            *)
(***************************************************************************)

\* The ways one packed frame can leave emit_one: sent, and the held datagrams
\* after it; or, on the datagram lane, held back by the reorder impairment.
emit_one(h, n) ==
    {[held |-> << >>, sent |-> <<n>> \o h]} \cup
    (IF Datagram /\ Len(h) < HeldMax
        THEN {[held |-> Append(h, n), sent |-> << >>]} ELSE {})

Frames(s) == [i \in DOMAIN s |-> Audio(s[i])]

\* One iteration of run(): the frame is dropped by the loss impairment, sent
\* once, or sent twice.  Every case consumes a sequence number.
EmitFrame ==
    /\ phase = "run" /\ connected /\ seq < Total
    /\ seq' = seq + 1
    /\ \/ UNCHANGED <<held, packetsSent, offered, wire>>
       \/ \E r \in emit_one(held, seq) :
            /\ held' = r.held
            /\ wire' = wire \o Frames(r.sent)
            /\ packetsSent' = packetsSent + Len(r.sent)
            /\ offered' = offered + 1
       \/ \E r \in emit_one(held, seq) : \E d \in emit_one(r.held, seq) :
            /\ held' = d.held
            /\ wire' = wire \o Frames(r.sent \o d.sent)
            /\ packetsSent' = packetsSent + Len(r.sent \o d.sent)
            /\ offered' = offered + 2
    /\ UNCHANGED <<vars, lane, phase, connected, receiver, metrics>>

\* emit_end: flush what is held (datagram lane), then the marker, which
\* carries the number of frames the source supplied.
EmitEnd ==
    /\ phase = "run" /\ connected /\ seq = Total
    /\ wire' = wire \o Frames(held) \o <<End(seq)>>
    /\ packetsSent' = packetsSent + Len(held)
    /\ held' = << >>
    /\ phase' = "ended"
    /\ UNCHANGED <<vars, lane, seq, offered, connected, receiver, metrics>>

\* A send over a dead connection is a typed error and ends run().
EmitFails ==
    /\ phase = "run" /\ ~connected
    /\ phase' = "failed"
    /\ UNCHANGED <<vars, lane, seq, held, packetsSent, offered, wire, connected, receiver, metrics>>

-----------------------------------------------------------------------------
(***************************************************************************)
(* The connection.                                                         *)
(***************************************************************************)

Lose ==
    /\ Datagram
    /\ \E i \in DOMAIN wire : wire' = RemoveAt(wire, i)
    /\ UNCHANGED <<vars, emitter, connected, receiver, metrics>>

\* The peer closes or dies: what has not reached the receiver is gone.
Disconnect ==
    /\ connected
    /\ connected' = FALSE
    /\ \E k \in 0 .. Len(wire) : wire' = SubSeq(wire, 1, k)
    /\ UNCHANGED <<vars, emitter, receiver, metrics>>

-----------------------------------------------------------------------------
(***************************************************************************)
(* The receiver.                                                           *)
(***************************************************************************)

\* The items a read may return next.
Readable == IF Datagram THEN DOMAIN wire ELSE DOMAIN wire \cap {1}

\* Announce the format before the first block, then decode and render each
\* frame.  A refused format, a frame that fails to decode and a block the sink
\* refuses each count as malformed; the last two skip the frame.
render_frames(frames) ==
    /\ formatSent' = (formatSent \/ frames # {})
    /\ \E bad \in SUBSET frames :
       \E refused \in IF frames # {} /\ ~formatSent THEN {0, 1} ELSE {0} :
          /\ malformed' = malformed + Cardinality(bad) + refused
          /\ packetsRecv' = packetsRecv + Cardinality(frames \ bad)
          /\ rendered' = rendered \cup (frames \ bad)

\* ingest_frame: into the jitter buffer, out of it into the sink.
IngestFrame(n) ==
    /\ Push(n)
    /\ render_frames(out')
    /\ rphase' = "run"
    /\ UNCHANGED loss

\* MUTANT: the frames still in the jitter buffer are not rendered.
FinishAfterEnd_NoDrain(total) ==
    /\ DrainAll
    /\ render_frames({})
    /\ loss' = IF total > packetsRecv' THEN total - packetsRecv' ELSE 0
    /\ rphase' = "done"

\* finish_after_end: drain, render, and account for the loss (saturating).
FinishAfterEnd(total) ==
    /\ DrainAll
    /\ render_frames(out')
    /\ loss' = IF total > packetsRecv' THEN total - packetsRecv' ELSE 0
    /\ rphase' = "done"

\* MUTANT: the sniffed item only announces the stream and is not ingested.
Sniff_Discards ==
    /\ rphase = "sniff"
    /\ \E i \in Readable :
          /\ wire' = RemoveAt(wire, i)
          /\ rphase' = IF wire[i].kind = "audio" THEN "run" ELSE "failed"
    /\ timer' = 0
    /\ idle' = 0
    /\ UNCHANGED <<vars, emitter, connected, metrics>>

\* sniff_first_item, and the head of run_lane: the first item fixes the
\* stream's metadata and the wait for the end begins.
Sniff ==
    /\ rphase = "sniff"
    /\ \E i \in Readable :
          /\ wire' = RemoveAt(wire, i)
          /\ \/ /\ wire[i].kind = "audio"
                /\ IngestFrame(wire[i].n)
             \/ /\ wire[i].kind = "end"
                /\ rphase' = "failed"
                /\ UNCHANGED <<vars, metrics>>
    /\ timer' = 0
    /\ idle' = 0
    /\ UNCHANGED <<emitter, connected>>

\* The stream lane bounds the wait for each item, the datagram lane sets one
\* deadline when it starts.
NextTimer == IF Datagram THEN timer ELSE 0

\* The loop of run_lane.
Read ==
    /\ rphase = "run"
    /\ \E i \in Readable :
          /\ wire' = RemoveAt(wire, i)
          /\ \/ wire[i].kind = "audio" /\ IngestFrame(wire[i].n)
             \/ wire[i].kind = "end" /\ FinishAfterEnd(wire[i].n)
    /\ timer' = NextTimer
    /\ idle' = 0
    /\ UNCHANGED <<emitter, connected>>

Limit == IF rphase = "sniff" THEN SniffTicks ELSE EndTicks

Receiving == rphase \in {"sniff", "run"}

\* MUTANT: only the first item's wait is bounded.
EndTimeout_SniffOnly ==
    /\ rphase = "sniff" /\ timer = Limit
    /\ rphase' = "failed"
    /\ UNCHANGED <<vars, emitter, wire, connected, timer, idle, metrics>>

\* ReceiverError::EndTimeout by the clock.
EndTimeout ==
    /\ Receiving /\ timer = Limit
    /\ rphase' = "failed"
    /\ UNCHANGED <<vars, emitter, wire, connected, timer, idle, metrics>>

\* accept_bi, read or read_datagram fails on a dead connection, once what had
\* already arrived is read.
ReadFails ==
    /\ Receiving /\ ~connected /\ wire = << >>
    /\ rphase' = "failed"
    /\ UNCHANGED <<vars, emitter, wire, connected, timer, idle, metrics>>

Tick ==
    /\ Receiving /\ timer < Limit
    /\ timer' = timer + 1
    /\ idle' = idle + 1
    /\ UNCHANGED <<vars, emitter, wire, connected, rphase, metrics>>

-----------------------------------------------------------------------------
Stopped ==
    /\ phase \in {"ended", "failed"}
    /\ ~Receiving
    /\ UNCHANGED laneVars

LaneNext ==
    \/ EmitFrame \/ EmitEnd \/ EmitFails
    \/ Lose \/ Disconnect
    \/ Sniff \/ Read \/ EndTimeout \/ ReadFails \/ Tick
    \/ Stopped

LaneSpec == LaneInit /\ [][LaneNext]_laneVars

\* Time passes and the runtime fires the receiver's timers; nothing is assumed
\* of the emitter, of the network or of the reads.
LaneFairness ==
    /\ WF_laneVars(Tick)
    /\ WF_laneVars(EndTimeout)

LiveLaneSpec == LaneSpec /\ LaneFairness

-----------------------------------------------------------------------------
(***************************************************************************)
(* Properties                                                              *)
(***************************************************************************)

\* "report exact loss (total_frames is authoritative)": in every outcome, loss
\* and packets_recv add up to the frames the source supplied, however many were
\* dropped, duplicated, held back, lost, overtaken by the marker or refused by
\* the sink, and packets_recv counts each rendered frame once.  And unless the
\* watermark jumped, every frame that reached the receiver at or above the first
\* one is in the outcome: rendered, or counted as malformed (which may also
\* count the one refusal of the format).
LossExplained ==
    rphase = "done" =>
        LET missing == {n \in arrived : n >= anchor} \ rendered
        IN  /\ packetsRecv + loss = seq
            /\ packetsRecv = Cardinality(rendered)
            /\ ~jumped => malformed - Cardinality(missing) \in {0, 1}

\* The marker comes after everything: no frame is still held back when the
\* emitter ends, so each emit_one call put its packet on the lane; and on the
\* reliable lane every one of them, the sniffed one included, went through the
\* jitter buffer before the outcome.
EndAfterEverything ==
    /\ phase = "ended" => packetsSent = offered
    /\ rphase = "done" /\ ~Datagram => pushed = offered

\* END_POLL_MS is a "bounded wait for the end-of-stream marker".  The receiver
\* always stops, whatever the emitter and the network do: a lost marker, a silent
\* emitter and a dead connection all end the wait.  And on the stream lane it
\* gives up a live connection only after a full wait in which nothing arrived
\* (the datagram lane gives up END_POLL_MS after it began).
NoEarlyEnd ==
    [][ rphase = "run" /\ rphase' = "failed" /\ connected /\ ~Datagram
            => idle >= EndTicks ]_laneVars

ReceiverEnds ==
    /\ <>(rphase \in {"done", "failed"})
    /\ NoEarlyEnd

-----------------------------------------------------------------------------
(***************************************************************************)
(* The inductive strengthening behind the properties above, next to the    *)
(* IInv of the jitter buffer.                                              *)
(***************************************************************************)

Item == [kind : {"audio", "end"}, n : Nat]

LaneTypeOK ==
    /\ lane \in {"datagram", "stream"}
    /\ phase \in {"run", "ended", "failed"}
    /\ rphase \in {"sniff", "run", "done", "failed"}
    /\ seq \in Nat /\ packetsSent \in Nat /\ offered \in Nat
    /\ held \in Seq(Nat)
    /\ wire \in Seq(Item)
    /\ connected \in BOOLEAN /\ formatSent \in BOOLEAN
    /\ timer \in Nat /\ idle \in Nat
    /\ packetsRecv \in Nat /\ malformed \in Nat /\ loss \in Nat
    /\ rendered \in SUBSET Nat /\ IsFiniteSet(rendered)

\* Every number in use was taken from the emitter's counter, and a marker on
\* the wire carries the final one.
Numbered ==
    /\ \A i \in DOMAIN held : held[i] < seq
    /\ \A i \in DOMAIN wire :
         IF wire[i].kind = "audio" THEN wire[i].n < seq
                                   ELSE wire[i].n = seq /\ phase = "ended"
    /\ \A n \in Emitted \cup queue : n < seq

\* The buffer returns and holds only what arrived, from the anchor on.
FromAnchor ==
    /\ nextOut # NoSeq => anchor \in 0 .. nextOut
    /\ \A n \in Emitted \cup queue : n \in arrived /\ n >= anchor

\* What the buffer returned was rendered or counted as malformed, and only the
\* refusal of the format is counted besides.
Accounted ==
    /\ rendered \subseteq Emitted
    /\ packetsRecv = Cardinality(rendered)
    /\ malformed - Cardinality(Emitted \ rendered) \in {0, 1}
    /\ ~formatSent => malformed = 0 /\ Emitted = {}

\* An outcome is taken from the marker, after the drain.
AtOutcome ==
    rphase = "done" => /\ phase = "ended" /\ queue = {}
                       /\ packetsRecv + loss = seq

\* Every emit_one call is on the lane, or its datagram is held back.
Sending ==
    /\ packetsSent + Len(held) = offered
    /\ phase = "ended" => held = << >>

\* The reliable lane: what was sent is on the wire or was pushed, until the
\* connection goes; the marker is behind all of it.
StreamOrder ==
    ~Datagram =>
        /\ held = << >>
        /\ idle = timer
        /\ phase = "run" /\ connected => pushed + Len(wire) = offered
        /\ \A i \in DOMAIN wire :
             wire[i].kind = "end" => i = Len(wire) /\ pushed + i - 1 = offered
        /\ rphase = "done" => pushed = offered

LaneInv ==
    /\ IInv
    /\ LaneTypeOK
    /\ Numbered
    /\ FromAnchor
    /\ Accounted
    /\ AtOutcome
    /\ Sending
    /\ StreamOrder
=============================================================================
