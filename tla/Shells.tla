-------------------------------- MODULE Shells --------------------------------
(***************************************************************************)
(* The desktop shells under src/platform: the application each of them puts   *)
(* between a real-time callback and a frame consumer (win-emitter,            *)
(* linux-emitter, macos-emitter, linux-receiver), the sources and sinks that  *)
(* drive it (test doubles, PipeWire, BlueZ), and the WASAPI loopback reader   *)
(* with its caller-owned buffer.  A block is its length; a packet is where in   *)
(* the buffer it lies, its length and the stream it came from.               *)
(***************************************************************************)
EXTENDS Integers, Sequences

CONSTANTS
    BlockLengths,  \* lengths of the blocks a callback hands over, or a packet's frames
    AppCapacity,   \* capacity of an application's buffer, or of WASAPI's
    SeqBits,       \* width of Frame::seq: 64 in the code
    Endpoints,     \* endpoint names
    WaveFormats,   \* mix formats of the endpoints: [valid, container] bits a sample
    MaxPushes      \* bound: blocks or packets in a behaviour

ASSUME ShellAssumption ==
    /\ BlockLengths \subseteq Nat /\ AppCapacity \in Nat /\ SeqBits \in Nat \ {0}
    /\ MaxPushes \in Nat
    /\ WaveFormats \subseteq [valid : Nat, container : Nat]

VARIABLES
    shell,      \* which application runs
    source,     \* its source or sink: [kind, running, target, per_app]
    lossless,   \* lossless_allowed
    fill,       \* the bytes in its buffer
    room,       \* the capacity of the vector that holds them
    seq,        \* the next frame's number
    rendered,   \* the bytes the consumer took
    grown,      \* history: a push made the vector grow
    produced,   \* blocks or packets so far
    bluez,      \* BluezProfileServer: [conn, registered]
    loop,       \* WasapiLoopbackCapture: [open, bits, endpoint_id, fill, lost, session]
    packets     \* what was copied into its buffer since fill was last zero

appVars    == <<shell, source, lossless, fill, room, seq, rendered, grown>>
loopVars   == <<loop, packets>>
shellVars  == <<appVars, produced, bluez, loopVars>>

None == << >>

\* allow_lossless, of every shell: an unknown tier is refused.
allow_lossless(tier) == tier = "Pro"

Kinds == [win |-> {"fake"}, macos |-> {"fake"},
          linux |-> {"fake", "pipewire"}, receiver |-> {"fake", "pipewire"}]

ShellInit ==
    /\ shell \in DOMAIN Kinds
    /\ \E k \in Kinds[shell] :
         source = [kind |-> k, running |-> FALSE, target |-> None, per_app |-> FALSE]
    /\ \E tier \in {"Free", "Pro", "pro"} : lossless = allow_lossless(tier)
    /\ fill = 0 /\ room = AppCapacity /\ seq = 0
    /\ rendered = 0 /\ grown = FALSE /\ produced = 0
    /\ bluez = [conn |-> FALSE, registered |-> FALSE]
    /\ loop = [open |-> None, bits |-> 16, endpoint_id |-> None, fill |-> 0, lost |-> FALSE,
               session |-> 0]
    /\ packets = << >>

-----------------------------------------------------------------------------
(***************************************************************************)
(* The application.                                                        *)
(***************************************************************************)
AppUnchanged == UNCHANGED <<shell, lossless, bluez, loopVars>>

\* push_block, push_render: called whether or not the source was started.
push_block(n) ==
    /\ produced < MaxPushes /\ produced' = produced + 1
    /\ IF fill + n > AppCapacity
       THEN UNCHANGED <<fill, room, grown>>
       ELSE /\ fill' = fill + n
            /\ grown' = (grown \/ fill + n > room)
            /\ room' = IF fill + n > room THEN fill + n ELSE room
    /\ UNCHANGED <<source, seq, rendered>> /\ AppUnchanged

\* MUTANT: the capacity is reserved after the frame was sent.
emit_frame_LateReserve(ok) ==
    /\ fill > 0
    /\ fill' = 0 /\ room' = IF ok THEN AppCapacity ELSE 0
    /\ seq' = (seq + 1) % 2^SeqBits
    /\ rendered' = IF ok THEN rendered + fill ELSE rendered
    /\ UNCHANGED <<source, grown, produced>> /\ AppUnchanged

\* emit_frame, pull_block: the buffer is taken, its number used and the capacity
\* reserved again before the closure is asked; what it rejects is gone.
emit_frame(ok) ==
    /\ fill > 0
    /\ fill' = 0 /\ room' = AppCapacity
    /\ seq' = (seq + 1) % 2^SeqBits
    /\ rendered' = IF ok THEN rendered + fill ELSE rendered
    /\ UNCHANGED <<source, grown, produced>> /\ AppUnchanged

-----------------------------------------------------------------------------
(***************************************************************************)
(* Sources and sinks.                                                      *)
(***************************************************************************)

\* attach_stream of both PipeWire modules returns an error: the stream is not
\* wired in this repository.
attach_stream(target) == FALSE

\* start of a source, running or not.  A double always comes to run.
FakeStart(s) == [s EXCEPT !.running = TRUE]

PipeWireStart(s) ==
    IF s.running \/ s.target = None \/ ~attach_stream(s.target) THEN s
    ELSE [s EXCEPT !.running = TRUE]

\* set_endpoint or route of a source, with a name that is not empty, running or
\* not: what each keeps of it.
WinFakeSource(s, name, per_app)         == s
LinuxFakeSource(s, name, per_app)       == [s EXCEPT !.per_app = per_app]
MacFakeSource(s, name, per_app)         == [s EXCEPT !.per_app = per_app]
FakeRenderSink(s, name, per_app)        == [s EXCEPT !.target = <<name>>]
PipeWireCaptureSource(s, name, per_app) == [s EXCEPT !.target = <<name>>, !.per_app = per_app]
PipeWireMediaSink(s, name, per_app)     == [s EXCEPT !.target = <<name>>]

\* start and stop of the application are its source's.
start ==
    /\ source' = IF source.kind = "fake" THEN FakeStart(source) ELSE PipeWireStart(source)
    /\ UNCHANGED <<fill, room, seq, rendered, grown, produced>> /\ AppUnchanged

stop ==
    /\ source' = [source EXCEPT !.running = FALSE]
    /\ UNCHANGED <<fill, room, seq, rendered, grown, produced>> /\ AppUnchanged

Targeted(s, name, per_app) ==
    CASE shell = "win"                              -> WinFakeSource(s, name, per_app)
      [] shell = "macos"                            -> MacFakeSource(s, name, per_app)
      [] shell = "linux" /\ s.kind = "fake"        -> LinuxFakeSource(s, name, per_app)
      [] shell = "linux" /\ s.kind = "pipewire"    -> PipeWireCaptureSource(s, name, per_app)
      [] shell = "receiver" /\ s.kind = "fake"     -> FakeRenderSink(s, name, per_app)
      [] shell = "receiver" /\ s.kind = "pipewire" -> PipeWireMediaSink(s, name, per_app)

set_endpoint(name, per_app) ==
    /\ source' = Targeted(source, name, per_app)
    /\ UNCHANGED <<fill, room, seq, rendered, grown, produced>> /\ AppUnchanged

\* The capture or render callback hands over a block (next_block of a double).
Callback == \E n \in BlockLengths : push_block(n)
Deliver  == \E ok \in BOOLEAN : emit_frame(ok)

\* The operations of each application: the receiver routes its output where the
\* emitters select what they capture, and Windows captures no single program.
WinEmitterApp ==
    /\ shell = "win"
    /\ \/ start \/ stop \/ Callback \/ Deliver
       \/ \E e \in Endpoints : set_endpoint(e, FALSE)

LinuxEmitterApp ==
    /\ shell = "linux"
    /\ \/ start \/ stop \/ Callback \/ Deliver
       \/ \E e \in Endpoints, per_app \in BOOLEAN : set_endpoint(e, per_app)

MacEmitterApp ==
    /\ shell = "macos"
    /\ \/ start \/ stop \/ Callback \/ Deliver
       \/ \E e \in Endpoints, per_app \in BOOLEAN : set_endpoint(e, per_app)

LinuxReceiverApp ==
    /\ shell = "receiver"
    /\ \/ start \/ stop \/ Callback \/ Deliver
       \/ \E e \in Endpoints : set_endpoint(e, FALSE)

\* BluezProfileServer: the bus may be missing; the calls behind it return errors.
connect ==
    /\ bluez' = [bluez EXCEPT !.conn = TRUE]
    /\ UNCHANGED <<appVars, produced, loopVars>>

register_a2dp_sink == IF bluez.conn /\ ~bluez.registered THEN FALSE ELSE bluez.registered

profile1_release ==
    /\ bluez' = [bluez EXCEPT !.registered = FALSE]
    /\ UNCHANGED <<appVars, produced, loopVars>>

BluezProfileServer ==
    /\ shell = "receiver"
    /\ \/ connect \/ profile1_release
       \/ /\ bluez' = [bluez EXCEPT !.registered = register_a2dp_sink]
          /\ UNCHANGED <<appVars, produced, loopVars>>

AppNext == WinEmitterApp \/ LinuxEmitterApp \/ MacEmitterApp \/ LinuxReceiverApp
             \/ BluezProfileServer

-----------------------------------------------------------------------------
(***************************************************************************)
(* WasapiLoopbackCapture, under one worker thread; the endpoint is the        *)
(* system's.                                                               *)
(***************************************************************************)
LoopUnchanged == UNCHANGED <<appVars, bluez>>

bytes_per_frame(bits) == bits \div 8

\* The valid bits of an EXTENSIBLE format, else the container's; Unsupported when
\* neither is a width the code knows.  The sub-format, integer or float, is not
\* looked at.
Unsupported == 0
format_from_wave(w) ==
    LET bits == IF w.valid # 0 THEN w.valid ELSE w.container
    IN IF bits \in {16, 24, 32} THEN bits ELSE Unsupported

\* The endpoint is resolved when the stream opens, not when it is selected.
loop_set_endpoint(e) ==
    /\ loop' = [loop EXCEPT !.endpoint_id = e]
    /\ UNCHANGED <<packets, produced>> /\ LoopUnchanged

\* start: a call that fails after the mix format was read leaves the new format
\* with no stream.
loop_start(e, w, ok) ==
    /\ loop.open = None /\ loop.session < MaxPushes
    /\ loop.endpoint_id \in {None, <<e>>} /\ format_from_wave(w) # Unsupported
    /\ loop' = [loop EXCEPT !.bits = format_from_wave(w), !.lost = FALSE, !.session = @ + 1,
                            !.open = IF ok THEN <<e, w>> ELSE None]
    /\ UNCHANGED <<packets, produced>> /\ LoopUnchanged

\* MUTANT: what the buffer holds outlives the stream.
loop_stop_KeepsFill ==
    /\ loop' = [loop EXCEPT !.open = None]
    /\ UNCHANGED <<packets, produced>> /\ LoopUnchanged

loop_stop ==
    /\ loop' = [loop EXCEPT !.open = None, !.fill = 0]
    /\ packets' = << >>
    /\ UNCHANGED produced /\ LoopUnchanged

\* The endpoint goes away: every later GetBuffer fails, and the stream stays.
Unplugged ==
    /\ loop.open # None /\ ~loop.lost
    /\ loop' = [loop EXCEPT !.lost = TRUE]
    /\ UNCHANGED <<packets, produced>> /\ LoopUnchanged

\* poll: a packet is copied, or zeros in its place, or dropped whole.  Its length
\* is reckoned from the valid bits.
poll(n, silent) ==
    LET bytes == n * bytes_per_frame(loop.bits)
    IN /\ loop.open # None /\ ~loop.lost /\ produced < MaxPushes
       /\ produced' = produced + 1
       /\ IF bytes > 0 /\ bytes <= AppCapacity - loop.fill
          THEN /\ packets' = Append(packets, [at |-> loop.fill, len |-> bytes, from |-> loop.open,
                                              session |-> loop.session, silent |-> silent])
               /\ loop' = [loop EXCEPT !.fill = @ + bytes]
          ELSE UNCHANGED <<packets, loop>>
       /\ LoopUnchanged

\* The worker takes the filled region.
reset_fill ==
    /\ packets' = << >> /\ loop' = [loop EXCEPT !.fill = 0]
    /\ UNCHANGED produced /\ LoopUnchanged

LoopNext ==
    \/ \E e \in Endpoints : loop_set_endpoint(<<e>>)
    \/ loop_set_endpoint(None)
    \/ \E e \in Endpoints, w \in WaveFormats, ok \in BOOLEAN : loop_start(e, w, ok)
    \/ loop_stop
    \/ Unplugged
    \/ \E n \in BlockLengths, silent \in BOOLEAN : poll(n, silent)
    \/ reset_fill

ShellSpec == ShellInit /\ [][AppNext \/ LoopNext]_shellVars

-----------------------------------------------------------------------------
(***************************************************************************)
(* Properties.                                                             *)
(***************************************************************************)

\* The callback never makes the buffer grow: the vector that frame production
\* takes away is replaced before the consumer can refuse the frame, so that the
\* next push finds its capacity also after a rejected frame (push_block: "this
\* path performs no allocation").
PushNeverAllocates == ~grown /\ room >= AppCapacity

\* What buffered() lends the worker, the first fill bytes, is of one stream: packets
\* of one endpoint and one format, the one format() reports, one behind the other
\* without a gap or an overlap from the first byte to the last, and never more than
\* the caller's memory.
EndOf(p) == p.at + p.len
OneStreamPerBuffer ==
    /\ loop.fill <= AppCapacity
    /\ loop.fill = IF packets = << >> THEN 0 ELSE EndOf(packets[Len(packets)])
    /\ \A i \in DOMAIN packets :
         /\ packets[i].from = loop.open /\ packets[i].session = loop.session
         /\ packets[i].at = IF i = 1 THEN 0 ELSE EndOf(packets[i - 1])

-----------------------------------------------------------------------------
(***************************************************************************)
(* The strengthenings the proofs of the two rest on.                         *)
(***************************************************************************)
AppInv ==
    /\ fill \in 0..AppCapacity /\ room = AppCapacity /\ ~grown

Streams == {None} \union {<<e, w>> : e \in Endpoints, w \in WaveFormats}
Packet  == [at : Nat, len : Nat, from : Streams, session : Nat, silent : BOOLEAN]

LoopTypeOK ==
    /\ loop \in [open : Streams, bits : {16, 24, 32},
                 endpoint_id : {None} \union {<<e>> : e \in Endpoints},
                 fill : Nat, lost : BOOLEAN, session : Nat]
    /\ packets \in Seq(Packet)

\* Without a stream nothing is buffered.
LoopInv == LoopTypeOK /\ OneStreamPerBuffer /\ (loop.open = None => packets = << >>)
=============================================================================
