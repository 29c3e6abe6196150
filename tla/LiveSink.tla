-------------------------------- MODULE LiveSink --------------------------------
(***************************************************************************)
(* QuicAudioSink (sink.rs), the emitter a platform shell drives from its      *)
(* capture worker: it is told the capture format, cuts blocks of any size    *)
(* into whole codec frames, resamples odd rates for Opus, seals the frames   *)
(* of a paired (secure) lane (secure.rs, data_cipher.rs) and sends them.  The *)
(* other end of a paired lane, run_lane_secure (receiver_server.rs), is       *)
(* modelled too.  A captured byte is its number and the format it was        *)
(* captured in; a frame carries the bytes it was encoded from.                *)
(***************************************************************************)
EXTENDS Integers, FiniteSets, SequencesExt

CONSTANTS
    Codecs,           \* a subset of {"flac", "pcm", "opus"}
    Rates,            \* sample rates, in kHz: the odd ones divide 48
    Reprs,            \* a subset of {"i16", "i24"}
    BlockSizes,       \* sizes of captured blocks, in bytes
    LosslessSamples,  \* 512 in the code
    OpusSamples48,    \* 960 in the code
    OpusSamples44,    \* 882 in the code
    MaxBytes,         \* bound: captured bytes
    MaxFormats        \* bound: calls of on_format

ASSUME SinkAssumption ==
    /\ Codecs \subseteq {"flac", "pcm", "opus"} /\ Reprs \subseteq {"i16", "i24"}
    /\ Rates \subseteq Nat \ {0} /\ BlockSizes \subseteq Nat \ {0}
    /\ LosslessSamples \in Nat \ {0}
    /\ OpusSamples48 \in Nat \ {0} /\ OpusSamples44 \in Nat \ {0}
    /\ MaxBytes \in Nat /\ MaxFormats \in Nat

VARIABLES
    phase,     \* the caller: "live" or "finished"
    codec,     \* of the sink, fixed when it connects
    secure,    \* connect_secure made the sink, and not connect_with_format
    sink,      \* its plan (wire_rate, frame_samples, resampler, repr) and acc
    emitter,   \* seq, and session: the next AEAD index, or NoSession
    connection, \* the QUIC connection is "up" or "closed"
    wire,      \* every item sent, in order
    rx,        \* the receiver of a paired lane
    source,    \* history: the format the caller announced last
    captured,  \* history: bytes captured since the emitter was built
    framed,    \* history: bytes handed to the encoder since then
    ragged,    \* history: since then, half a stereo frame was resampled
    sealings,  \* history: the (index, bytes) pairs the session sealed
    failed,    \* history: an emission failed
    taken,     \* bytes captured in all
    formats    \* calls of on_format

history == <<source, captured, framed, ragged, sealings, failed, taken, formats>>
sinkVars == <<phase, codec, secure, sink, emitter, connection, wire, rx, history>>

NoSession == -1
Canonical == [rate |-> 48, repr |-> "i16"]
Formats   == [rate : Rates, repr : Reprs]
Lossless  == codec # "opus"

-----------------------------------------------------------------------------
(***************************************************************************)
(* The wire plan.                                                          *)
(***************************************************************************)

\* wire_plan and build_adapter: the formats refused before anything changes.
Refused(c, f) ==
    \/ c = "opus" /\ (f.rate > 48 \/ f.repr = "i24")
    \/ c # "opus" /\ f.rate \notin 8..192

\* Rate on the wire, frame size, and the rate the resampler is built for (0
\* when there is none).
wire_plan(c, f) ==
    LET Plan(r, n, s) ==
            [wire_rate |-> r, frame_samples |-> n, resampler |-> s, repr |-> f.repr]
    IN CASE c # "opus"               -> Plan(f.rate, LosslessSamples, 0)
         [] c = "opus" /\ f.rate = 48 -> Plan(48, OpusSamples48, 0)
         [] c = "opus" /\ f.rate = 44 -> Plan(44, OpusSamples44, 0)
         [] OTHER                     -> Plan(48, OpusSamples48, f.rate)

Bytes(r) == IF r = "i16" THEN 2 ELSE 3   \* wire_bytes_per_sample
Whole    == sink.frame_samples * 2 * Bytes(sink.repr)

\* The test by which on_format decides that it has nothing to do: it asks
\* whether there is a resampler, not which rate the resampler is for.
SamePlan(p) ==
    /\ p.wire_rate = sink.wire_rate /\ p.frame_samples = sink.frame_samples
    /\ (p.resampler # 0) = (sink.resampler # 0)
    /\ p.repr = sink.repr

-----------------------------------------------------------------------------
(***************************************************************************)
(* Connecting.  A sink that fails to connect does not exist, so a behaviour  *)
(* begins with a connected one.                                            *)
(***************************************************************************)

WithAcc(p, a) ==
    [wire_rate |-> p.wire_rate, frame_samples |-> p.frame_samples,
     resampler |-> p.resampler, repr |-> p.repr, acc |-> a]

\* connect_with_format in the format the shell knows, or connect_secure, which
\* connects in the canonical one and then pairs over the same connection.
SinkInit ==
    /\ phase = "live" /\ codec \in Codecs /\ secure \in BOOLEAN
    /\ secure => Lossless
    /\ source \in IF secure THEN {Canonical} ELSE {f \in Formats : ~Refused(codec, f)}
    /\ sink = WithAcc(wire_plan(codec, source), << >>)
    /\ emitter = [seq |-> 0, session |-> IF secure THEN 0 ELSE NoSession]
    /\ connection = "up" /\ wire = << >>
    /\ rx = [state |-> IF secure THEN "first" ELSE "none", next |-> 1,
             seen |-> {}, rendered |-> << >>, rejected |-> 0, loss |-> 0]
    /\ captured = << >> /\ framed = << >> /\ ragged = FALSE /\ sealings = {} /\ failed = FALSE
    /\ taken = 0 /\ formats = 0

-----------------------------------------------------------------------------
(***************************************************************************)
(* on_format.                                                              *)
(***************************************************************************)

\* The emitter is built anew over the same connection: its sequence starts at
\* zero, and it has no session.  What was accumulated is discarded.
Rebuild(f) ==
    /\ sink' = WithAcc(wire_plan(codec, f), << >>)
    /\ emitter' = [seq |-> 0, session |-> NoSession]
    /\ captured' = << >> /\ framed' = << >> /\ ragged' = FALSE

OnFormat(f) ==
    /\ phase = "live" /\ formats < MaxFormats
    /\ formats' = formats + 1
    /\ \/ Refused(codec, f)
          /\ UNCHANGED <<sink, emitter, source, captured, framed, ragged>>
       \/ ~Refused(codec, f) /\ SamePlan(wire_plan(codec, f))
          /\ source' = f
          /\ UNCHANGED <<sink, emitter, captured, framed, ragged>>
       \/ ~Refused(codec, f) /\ ~SamePlan(wire_plan(codec, f))
          /\ source' = f
          /\ Rebuild(f)
    /\ UNCHANGED <<phase, codec, secure, connection, wire, rx, sealings, failed, taken>>

-----------------------------------------------------------------------------
(***************************************************************************)
(* on_block.                                                               *)
(***************************************************************************)

\* MUTANT: an input sample is held, not interpolated, so its rate is kept.
Resample_Copies(b) == SubSeq(b, 1, (Len(b) \div 4) * 4)

\* ResamplerI16::process: whole i16 samples, then whole stereo frames, of the
\* block; what is left of it is dropped, not carried over (a debug build panics
\* on half a stereo frame).  The filter's lookahead is left out: one input frame
\* gives 48 / rate output frames, for the rate the resampler was built for.
Resample(b) ==
    LET n == 48 \div sink.resampler
    IN [j \in 1..(4 * n * (Len(b) \div 4)) |->
            b[4 * ((j - 1) \div (4 * n)) + ((j - 1) % 4) + 1]]

\* The ith frame cut from the accumulator a.
Cut(a, i) == SubSeq(a, (i - 1) * Whole + 1, i * Whole)

\* MUTANT: what follows the last whole frame of a block is forgotten.
Rest_Forgets(a, i) == IF i = 0 THEN a ELSE << >>

\* What the accumulator holds once i frames were cut from it.
Rest(a, i) == SubSeq(a, i * Whole + 1, Len(a))

\* The frames the loop of on_block cuts.
CutAll(a) == Len(a) \div Whole

\* seal_frame refuses when the cipher's index is not the frame's number.
Diverged == emitter.session # NoSession /\ emitter.session # emitter.seq

\* frame_payload: encode, seal under the session's index, describe in a header.
Frame(a, i) ==
    [kind |-> "audio", seq |-> emitter.seq + i - 1,
     index |-> IF emitter.session = NoSession THEN NoSession
               ELSE emitter.session + i - 1,
     rate |-> sink.wire_rate, repr |-> sink.repr, bytes |-> Cut(a, i)]

\* Indices a call uses that sends m of its k frames: a frame that could not be
\* sent was sealed before, and does not advance seq.
Used(m, k) == IF m = k THEN m ELSE m + 1

\* One captured block.  m of the k whole frames it completes are sent; the next
\* one, taken from the accumulator, is lost if the connection is closed or
\* closes, or if it cannot be sealed.
OnBlock(n) ==
    /\ phase = "live" /\ taken + n <= MaxBytes
    /\ taken' = taken + n
    /\ LET block == [i \in 1..n |-> [n |-> Len(captured) + i, fmt |-> source]]
           all == sink.acc \o (IF sink.resampler = 0 THEN block ELSE Resample(block))
           k == CutAll(all)
       IN \E m \in 0..k :
            /\ (connection = "closed" \/ Diverged) => m = 0
            /\ connection' = IF m < k /\ ~Diverged THEN "closed" ELSE connection
            /\ wire' = wire \o [i \in 1..m |-> Frame(all, i)]
            /\ sink' = [sink EXCEPT !.acc = Rest(all, IF m = k THEN k ELSE m + 1)]
            /\ emitter' = [seq |-> emitter.seq + m,
                           session |-> IF emitter.session = NoSession \/ Diverged
                                       THEN emitter.session
                                       ELSE emitter.session + Used(m, k)]
            /\ sealings' = IF emitter.session = NoSession \/ Diverged THEN sealings
                         ELSE sealings \cup {<<emitter.session + i - 1, Cut(all, i)>> :
                                             i \in 1..(IF m = k THEN k ELSE m + 1)}
            /\ captured' = captured \o block
            /\ framed' = framed \o SubSeq(all, 1, m * Whole)
            /\ failed' = (failed \/ m < k)
    /\ ragged' = (ragged \/ (sink.resampler # 0 /\ n % 4 # 0))
    /\ UNCHANGED <<phase, codec, secure, rx, source, formats>>

\* finish: the tail is dropped; the marker carries the frames since the last
\* rebuild.  On a closed connection it cannot be sent.
Finish ==
    /\ phase = "live" /\ phase' = "finished"
    /\ wire' = IF connection = "up" THEN Append(wire, [kind |-> "end", total |-> emitter.seq])
               ELSE wire
    /\ UNCHANGED <<codec, secure, sink, emitter, connection, rx, history>>

-----------------------------------------------------------------------------
(***************************************************************************)
(* The receiver of a paired lane: responder_handshake has succeeded, and      *)
(* run_lane_secure reads the streams in the order they were opened.          *)
(***************************************************************************)

\* open_frame: the replay window records the index before the tag is checked;
\* the tag is right when the frame was sealed under the index it claims.
Fresh(item)   == item.seq \notin rx.seen
Opens(item)   == Fresh(item) /\ item.index = item.seq
Recorded(item) == rx.seen \cup {item.seq}

Item == wire[rx.next]

\* The first item decides: a marker, or a frame that does not open, is an error.
ReadFirst ==
    /\ rx.state = "first" /\ rx.next <= Len(wire)
    /\ IF Item.kind = "audio" /\ Opens(Item)
         THEN /\ rx' = [rx EXCEPT !.state = "run", !.next = @ + 1,
                                  !.seen = Recorded(Item), !.rendered = <<Item>>]
              /\ UNCHANGED connection
         ELSE rx' = [rx EXCEPT !.state = "failed"] /\ connection' = "closed"
    /\ UNCHANGED <<phase, codec, secure, sink, emitter, wire, history>>

\* MUTANT: a frame that does not open is rendered as it is.
ingest_secure_Accepts ==
    rx' = [rx EXCEPT !.next = @ + 1, !.seen = Recorded(Item),
                     !.rendered = IF Fresh(Item) THEN Append(@, Item) ELSE @]

\* ingest_secure: a frame that does not open is counted, and not rendered.
ingest_secure ==
    IF Opens(Item)
      THEN rx' = [rx EXCEPT !.next = @ + 1, !.seen = Recorded(Item),
                            !.rendered = Append(@, Item)]
      ELSE rx' = [rx EXCEPT !.next = @ + 1, !.seen = Recorded(Item),
                            !.rejected = @ + 1]

ReadFrame ==
    /\ rx.state = "run" /\ rx.next <= Len(wire) /\ Item.kind = "audio"
    /\ ingest_secure
    /\ UNCHANGED <<phase, codec, secure, sink, emitter, connection, wire, history>>

\* The marker ends the stream; the receiver returns and drops the connection.
ReadEnd ==
    /\ rx.state = "run" /\ rx.next <= Len(wire) /\ Item.kind = "end"
    /\ rx' = [rx EXCEPT !.state = "done", !.next = @ + 1,
                        !.loss = IF Item.total > Len(rx.rendered)
                                 THEN Item.total - Len(rx.rendered) ELSE 0]
    /\ connection' = "closed"
    /\ UNCHANGED <<phase, codec, secure, sink, emitter, wire, history>>

\* Nothing more comes over a closed connection, sent before or not.
ReadFails ==
    /\ rx.state \in {"first", "run"} /\ connection = "closed"
    /\ rx' = [rx EXCEPT !.state = "failed"]
    /\ UNCHANGED <<phase, codec, secure, sink, emitter, connection, wire, history>>

Disconnect ==
    /\ connection = "up" /\ connection' = "closed"
    /\ UNCHANGED <<phase, codec, secure, sink, emitter, wire, rx, history>>

SinkNext ==
    \/ \E f \in Formats : OnFormat(f)
    \/ \E n \in BlockSizes : OnBlock(n)
    \/ Finish
    \/ ReadFirst
    \/ ReadFrame
    \/ ReadEnd
    \/ ReadFails
    \/ Disconnect

SinkSpec == SinkInit /\ [][SinkNext]_sinkVars

-----------------------------------------------------------------------------
(***************************************************************************)
(* Properties.                                                             *)
(***************************************************************************)

\* What the emitter puts on the wire is the capture.  A receiver learns the
\* format from the frames alone ("sniffs" it), and every frame declares the rate
\* and width its own bytes were captured in, whatever formats were announced
\* before and after (a resampled one declares 48 kHz).  And without a resampler
\* and as long as nothing failed, the frames and the accumulator hold exactly
\* the captured bytes in order, however the capture was cut into blocks: nothing
\* is lost, repeated or padded at a block's edge.
CaptureExact ==
    /\ sink.resampler = 0 /\ ~failed => captured = framed \o sink.acc
    /\ \A i \in DOMAIN wire :
         wire[i].kind = "audio" =>
           \A j \in DOMAIN wire[i].bytes :
             LET f == wire[i].bytes[j].fmt
             IN /\ wire[i].repr = f.repr
                /\ wire[i].rate = IF codec = "opus" /\ f.rate \notin {44, 48} THEN 48
                                  ELSE f.rate

\* As long as the capture keeps the rate the resampler was built for, a captured
\* second is a second on the wire: as many bytes were framed or accumulated as
\* were captured, times wire_rate over the rate of any of them, however the
\* capture was cut.  And every stereo frame handed to the encoder is one stereo
\* frame of the capture, and not the end of one and the beginning of another:
\* without a resampler for blocks of any size, with one for blocks of whole
\* stereo frames.
TimePreserved ==
    LET kept == sink.resampler = 0 \/
                \A i \in DOMAIN captured : captured[i].fmt.rate = sink.resampler
    IN ~ragged =>
         /\ ~failed /\ kept =>
              \A i \in DOMAIN captured :
                Len(framed) + Len(sink.acc) =
                  Len(captured) * (sink.wire_rate \div captured[i].fmt.rate)
         /\ sink.repr = "i16" =>
              \A i \in 1..(Len(framed) \div 4) :
                \E b \in 0..MaxBytes :
                  \A j \in 1..4 : framed[4 * (i - 1) + j].n = 4 * b + j

\* connect_secure: "then every media frame payload is AEAD-sealed before
\* emission": no frame of a paired sink goes out in the clear.
SealedAfterPairing ==
    secure => \A i \in DOMAIN wire : wire[i].kind = "audio" => wire[i].index # NoSession

\* The receiver of a paired lane renders only what the session opened, in order
\* and without a gap, also when the emitter starts to send frames in the clear;
\* the session never seals two payloads under one index, also when a frame that
\* was sealed could not be sent; and a paired stream that ends with an outcome
\* and kept its session is complete: nothing was rejected or lost, the ith frame
\* rendered is the ith frame of the capture, and what was captured beyond the
\* frames rendered is a tail shorter than a frame.
RendersOnlySealed ==
    /\ \A i \in DOMAIN rx.rendered :
         rx.rendered[i].index = i - 1 /\ rx.rendered[i].seq = i - 1
    /\ \A a, b \in sealings : a[1] = b[1] => a = b
    /\ rx.state = "done" /\ emitter.session # NoSession =>
         /\ rx.rejected = 0 /\ rx.loss = 0
         /\ \A i \in DOMAIN rx.rendered :
              rx.rendered[i].bytes = SubSeq(captured, (i - 1) * Whole + 1, i * Whole)
         /\ Len(captured) - Len(rx.rendered) * Whole \in 0..(Whole - 1)

-----------------------------------------------------------------------------
(***************************************************************************)
(* Why they hold: the inductive invariant of the sink and its receiver.      *)
(***************************************************************************)

SinkFormats == Formats \cup {Canonical}
Byte        == [n : Nat \ {0}, fmt : SinkFormats]
AudioItem   == [kind : {"audio"}, seq : Nat, index : Nat \cup {NoSession}, rate : Nat,
                repr : {"i16", "i24"}, bytes : Seq(Byte)]
EndItem     == [kind : {"end"}, total : Nat]

\* The types of the emitting end.
EmitterTypeOK ==
    /\ phase \in {"live", "finished"} /\ codec \in {"flac", "pcm", "opus"}
    /\ sink \in [wire_rate : Nat \ {0}, frame_samples : Nat \ {0}, resampler : 0..48,
                 repr : {"i16", "i24"}, acc : Seq(Byte)]
    /\ emitter \in [seq : Nat, session : Nat \cup {NoSession}]
    /\ wire \in Seq(AudioItem \cup EndItem)
    /\ source \in SinkFormats
    /\ captured \in Seq(Byte) /\ framed \in Seq(Byte)
    /\ taken \in 0..MaxBytes /\ Len(captured) <= taken

\* The format f as a frame declares it.
Declares(rate, repr, f) ==
    /\ repr = f.repr
    /\ rate = IF codec = "opus" /\ f.rate \notin {44, 48} THEN 48 ELSE f.rate

\* The sink's plan is for the format announced last, and so is every byte it
\* holds or has sent.
PlanFollows ==
    /\ Declares(sink.wire_rate, sink.repr, source)
    /\ sink.resampler # 0 =>
         codec = "opus" /\ sink.wire_rate = 48 /\ sink.repr = "i16"
    /\ codec = "opus" => sink.repr = "i16"
    /\ sink.resampler = 0 => source.rate = sink.wire_rate
    /\ \A i \in DOMAIN captured :
         /\ Declares(sink.wire_rate, sink.repr, captured[i].fmt)
         /\ sink.resampler = 0 => captured[i].fmt.rate = sink.wire_rate
    /\ \A i \in DOMAIN sink.acc : Declares(sink.wire_rate, sink.repr, sink.acc[i].fmt)
    /\ \A i \in DOMAIN wire : wire[i].kind = "audio" =>
         \A j \in DOMAIN wire[i].bytes :
           Declares(wire[i].rate, wire[i].repr, wire[i].bytes[j].fmt)

\* Captured bytes are numbered.  Without a resampler and a failure they are what
\* was framed and what is held; with one, each stands for its share.
Copied ==
    /\ \A i \in DOMAIN captured : captured[i].n = i
    /\ sink.resampler = 0 /\ ~failed => captured = framed \o sink.acc
    /\ sink.resampler # 0 /\ ~ragged /\ ~failed =>
         Len(framed) + Len(sink.acc) = (48 \div sink.resampler) * Len(captured)

\* Quads of a sequence of bytes are stereo frames of the first b captured bytes.
Aligned(s, b) ==
    \A i \in 1..Len(s) :
      /\ (s[i].n - i) % 4 = 0 /\ s[i].n <= b
      /\ i % 4 # 0 /\ i < Len(s) => s[i + 1].n = s[i].n + 1

FramesAligned ==
    /\ sink.repr = "i16" /\ ~ragged => Aligned(framed \o sink.acc, Len(captured))
    /\ sink.repr = "i16" => Len(framed) % 4 = 0
    /\ sink.resampler # 0 /\ ~ragged => Len(sink.acc) % 4 = 0 /\ Len(captured) % 4 = 0
    /\ sink.resampler = 0 /\ sink.repr = "i16" =>
         /\ (Len(captured) - Len(framed) - Len(sink.acc)) % 4 = 0
         /\ Len(sink.acc) % 4 # 0 => sink.acc[Len(sink.acc)].n = Len(captured)

\* The sink's side of the lane.
SinkInv == EmitterTypeOK /\ PlanFollows /\ Copied /\ FramesAligned

-----------------------------------------------------------------------------
Sealed(j) == wire[j].kind = "audio" /\ wire[j].index # NoSession

ReceiverTypeOK ==
    /\ rx \in [state : {"none", "first", "run", "failed", "done"}, next : Nat \ {0},
               seen : SUBSET Nat, rendered : Seq(AudioItem), rejected : Nat, loss : Nat]
    /\ sealings \subseteq Nat \X Seq(Byte)
    /\ ~secure => emitter.session = NoSession /\ rx.state = "none" /\ sealings = {}
    /\ ~secure => \A j \in DOMAIN wire : ~Sealed(j)
    /\ secure => rx.state # "none" /\ Lossless

\* A sealed frame carries its place in the stream, and everything before it is
\* sealed; the session seals under an index once.
SealedInPlace ==
    /\ \A j \in DOMAIN wire : Sealed(j) =>
         wire[j].index = j - 1 /\ wire[j].seq = j - 1 /\ \A i \in 1..j : Sealed(i)
    /\ \A a, b \in sealings : a[1] = b[1] => a = b
    /\ emitter.session # NoSession => \A a \in sealings : a[1] < emitter.session

\* As long as the session is kept, all frames are sealed, and what was sent is
\* what was framed, up to a failure that closes the connection for good.
SessionKept ==
    /\ emitter.session # NoSession =>
         /\ secure /\ emitter.seq <= emitter.session
         /\ ~failed => emitter.session = emitter.seq
         /\ failed => connection = "closed" /\ Len(wire) = emitter.seq
         /\ \A j \in 1..emitter.seq : Sealed(j)
         /\ \/ Len(wire) = emitter.seq
            \/ /\ phase = "finished" /\ Len(wire) = emitter.seq + 1
               /\ wire[Len(wire)] = [kind |-> "end", total |-> emitter.seq]
         /\ sink.resampler = 0
         /\ Len(framed) = emitter.seq * Whole
         /\ ~failed => Len(sink.acc) < Whole
         /\ \A j \in 1..emitter.seq :
              wire[j].bytes = SubSeq(framed, (j - 1) * Whole + 1, j * Whole)
    /\ phase = "live" => \A j \in DOMAIN wire : wire[j].kind = "audio"

\* The receiver has rendered the sealed frames it has read, and no others.
Received ==
    /\ rx.next <= Len(wire) + 1 /\ Len(rx.rendered) < rx.next
    /\ \A i \in 1..Len(rx.rendered) : rx.rendered[i] = wire[i] /\ Sealed(i)
    /\ \A i \in (Len(rx.rendered) + 1)..(rx.next - 1) : ~Sealed(i)
    /\ \A s \in rx.seen : \E i \in 1..(rx.next - 1) : wire[i].kind = "audio" /\ wire[i].seq = s
    /\ rx.state \in {"none", "first"} => rx.next = 1
    /\ rx.state # "done" => Len(rx.rendered) + rx.rejected = rx.next - 1
    /\ rx.state = "done" =>
         /\ Len(rx.rendered) + rx.rejected = rx.next - 2
         /\ wire[rx.next - 1].kind = "end"
         /\ rx.loss = IF wire[rx.next - 1].total > Len(rx.rendered)
                      THEN wire[rx.next - 1].total - Len(rx.rendered) ELSE 0

\* The lane of a paired sink, both ends.
PairedLaneInv == ReceiverTypeOK /\ SealedInPlace /\ SessionKept /\ Received
=============================================================================
