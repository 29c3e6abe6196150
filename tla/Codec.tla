--------------------------------- MODULE Codec ---------------------------------
(***************************************************************************)
(* The codec adapters (wdr_codec) and the two ends that choose one: the     *)
(* emitter from the wire format it was built with, the receiver from the    *)
(* header of the first frame it sees.  Sizes, rates and limits are the real *)
(* ones; what a frame sounds like is a token, its body.                     *)
(***************************************************************************)
EXTENDS Integers, Sequences

CONSTANTS
    Rates,        \* sample rates of the lane, in Hz
    Bodies,       \* what a frame may hold, "floor" among them: a least sample
    MaxEmitted    \* bound: frames emitted

ASSUME CodecAssumption ==
    Rates \subseteq Nat /\ "floor" \in Bodies /\ MaxEmitted \in Nat

VARIABLES
    meta,        \* BufferMeta of the emitter
    tx,          \* its adapter, or why there is none
    stream,      \* frames sent, in order
    taken,       \* how many of them the receiver has rendered
    dec,          \* the receiver's decoder, why there is none, or Unborn
    played,      \* what was rendered
    undecoded,   \* counter of frames that would not decode
    source,      \* history: what each frame sent was encoded from
    refusals     \* history: (seam, values, reason) of emissions refused

codecVars == <<meta, tx, stream, taken, dec, played, undecoded, source, refusals>>

CodecKind  == {"opus", "flac", "pcm"}
CodecRepr == {"i16", "f32", "i24", "i32"}
bytes_per_sample(r) == CASE r = "i16" -> 2 [] r = "i24" -> 3 [] OTHER -> 4

MAX_FRAME_PAYLOAD == 4096
MAX_FRAME_SAMPLES_FALLBACK == 8192

\* Frames per channel whose raw samples fit a budget; 0 for a void format.
max_frame_samples(ch, width, budget) ==
    IF ch = 0 \/ width = 0 THEN 0
    ELSE LET n == budget \div (ch * width)
         IN IF n < MAX_FRAME_SAMPLES_FALLBACK THEN n ELSE MAX_FRAME_SAMPLES_FALLBACK

-----------------------------------------------------------------------------
(***************************************************************************)
(* Adapters.  Each is built for one surface (the width of its samples) and   *)
(* refuses the calls of every other.                                       *)
(***************************************************************************)

Fails(e) == [ok |-> FALSE, err |-> e]
Unborn   == Fails("unborn")
Adapter(kind, ch, repr, rate, frame) ==
    [ok |-> TRUE, kind |-> kind, ch |-> ch, repr |-> repr, rate |-> rate, frame |-> frame]

PcmAdapter(ch, repr) ==
    IF ch \in 1..2 THEN Adapter("pcm", ch, repr, 0, 0) ELSE Fails("Unsupported")

FlacAdapter(rate, ch, bits) ==
    IF bits \notin {16, 24} \/ ch \notin 1..2 THEN Fails("Unsupported")
    ELSE IF rate = 0 THEN Fails("Format")
    ELSE Adapter("flac", ch, IF bits = 16 THEN "i16" ELSE "i24", rate, 0)

\* Samples per channel of a frame at 48 kHz, where libopus works, and at 44.1.
FrameProfile == [Ms20 |-> <<960, 882>>, Ms10 |-> <<480, 441>>]

OpusAdapter(rate, ch, profile) ==
    IF rate > 48000 THEN Fails("RateUnsupported")
    ELSE IF rate \notin {44100, 48000} \/ ch \notin 1..2 THEN Fails("Unsupported")
    ELSE Adapter("opus", ch, "i16", rate, FrameProfile[profile][1])

\* Samples per channel a caller supplies: a 44.1 kHz frame is stretched to the
\* 48 kHz frame on the way in, and shrunk back on the way out.
input_frame_len(a) == IF a.rate = 44100 THEN (a.frame * 441) \div 480 ELSE a.frame
upsampled(a, n)    == IF a.rate = 44100 THEN (n * 480) \div 441 ELSE n
downsampled(a, n)  == IF a.rate = 44100 THEN (n * 441) \div 480 ELSE n

Payload(a, n, len, body) ==
    [ok |-> TRUE, kind |-> a.kind, ch |-> a.ch, repr |-> a.repr, n |-> n, len |-> len,
     body |-> body]

check_align(a, n) == n % a.ch = 0
check_bytes(a, len, width) == len % width = 0 /\ (len \div width) % a.ch = 0

\* pcm is [n, body]: so many interleaved values.  Raw samples are copied, but
\* the least 24-bit value is raised by one.
PcmEncode(a, surface, pcm) ==
    IF a.repr # surface THEN Fails("Unsupported")
    ELSE IF ~check_align(a, pcm.n) THEN Fails("InvalidPcmLen")
    ELSE Payload(a, pcm.n, pcm.n * bytes_per_sample(surface),
                 IF surface = "i24" /\ pcm.body = "floor" THEN "raised" ELSE pcm.body)

\* libFLAC writes a whole stream per frame: small when the samples compress,
\* a little more than the raw samples when they do not.
FlacSizes(n, width) == {(n * width) \div 2 + 100, n * width + 200}

encode_flac(a, pcm) ==
    IF pcm.n = 0 \/ pcm.n % a.ch # 0 THEN {Fails("InvalidPcmLen")}
    ELSE {Payload(a, pcm.n, s, pcm.body) : s \in FlacSizes(pcm.n, bytes_per_sample(a.repr))}

FlacEncode(a, surface, pcm) ==
    IF a.repr # surface THEN {Fails("Unsupported")} ELSE encode_flac(a, pcm)

\* libopus packs a frame into at most 1275 bytes.
OpusSizes == {3, 1275}

OpusEncode(a, surface, pcm) ==
    IF pcm.n % a.ch # 0 THEN {Fails("InvalidPcmLen")}
    ELSE IF pcm.n \div a.ch # input_frame_len(a) THEN {Fails("InvalidFrameSize")}
    ELSE {Payload(a, upsampled(a, pcm.n), s, pcm.body) : s \in OpusSizes}

\* What encode or encode_24 may return.
Encode(a, surface, pcm) ==
    CASE a.kind = "pcm"  -> {PcmEncode(a, surface, pcm)}
      [] a.kind = "flac" -> FlacEncode(a, surface, pcm)
      [] a.kind = "opus" -> OpusEncode(a, surface, pcm)

Decoded(n, body) == [ok |-> TRUE, n |-> n, body |-> body]

\* Raw bytes do not say what they are: any whole number of samples is taken,
\* and bytes of another kind are noise.
PcmDecode(a, surface, p) ==
    LET width == bytes_per_sample(surface)
    IN IF a.repr # surface THEN Fails("Unsupported")
       ELSE IF ~check_bytes(a, p.len, width) THEN Fails("MalformedFrame")
       ELSE Decoded(p.len \div width,
                    IF p.kind = "pcm" /\ p.repr = surface THEN p.body ELSE "noise")

\* A FLAC stream describes itself, and must describe what was expected.
decode_flac(a, p) ==
    IF p.kind # "flac" \/ p.ch # a.ch \/ p.repr # a.repr THEN Fails("MalformedFrame")
    ELSE Decoded(p.n, p.body)

FlacDecode(a, surface, p) ==
    IF a.repr # surface THEN Fails("Unsupported")
    ELSE IF p.len = 0 THEN Fails("MalformedFrame")
    ELSE IF p.len > MAX_FRAME_PAYLOAD THEN Fails("PayloadTooLarge")
    ELSE decode_flac(a, p)

OpusDecode(a, p) ==
    IF p.len > MAX_FRAME_PAYLOAD THEN Fails("PayloadTooLarge")
    ELSE IF p.kind # "opus" THEN Fails("MalformedFrame")
    ELSE Decoded(downsampled(a, p.n), p.body)

Decode(a, surface, p) ==
    CASE a.kind = "pcm"  -> PcmDecode(a, surface, p)
      [] a.kind = "flac" -> FlacDecode(a, surface, p)
      [] a.kind = "opus" -> OpusDecode(a, p)

\* The two 32-bit surfaces, which only the raw adapter has, copy their samples.
Raw32Copies(ch) ==
    \A r \in {"f32", "i32"}, n \in {0, ch, 512 * ch} :
       LET a == PcmAdapter(ch, r)
       IN PcmDecode(a, r, PcmEncode(a, r, [n |-> n, body |-> "floor"])) = Decoded(n, "floor")

-----------------------------------------------------------------------------
(***************************************************************************)
(* The emitter.                                                            *)
(***************************************************************************)

SIM_RATE_HZ == 48000

Meta(codec, rate, ch, repr, layout, frame) ==
    [codec |-> codec, sample_rate |-> rate, channels |-> ch, sample_repr |-> repr,
     channel_layout |-> layout, frame_samples |-> frame]

\* The formats the callers build: stereo, and the frame size of the codec.
wire_meta_repr(codec, rate, frame, repr) == Meta(codec, rate, 2, repr, "stereo", frame)
canonical(codec) ==
    wire_meta_repr(codec, SIM_RATE_HZ, IF codec = "opus" THEN 960 ELSE 512, "i16")

\* The adapter for a format.  Opus has no 24-bit form, and the emitter builds
\* neither of the 32-bit forms.
build_adapter(m) ==
    CASE m.codec = "flac" /\ m.sample_repr = "i16" -> FlacAdapter(m.sample_rate, m.channels, 16)
      [] m.codec = "flac" /\ m.sample_repr = "i24" -> FlacAdapter(m.sample_rate, m.channels, 24)
      [] m.codec = "pcm" /\ m.sample_repr \in {"i16", "i24"} ->
            PcmAdapter(m.channels, m.sample_repr)
      [] m.codec = "opus" /\ m.sample_repr = "i16" ->
            OpusAdapter(m.sample_rate, m.channels, "Ms20")
      [] OTHER -> Fails("Format")

\* The i16 frame seam, or the 24-bit one.  An adapter of the other width is
\* refused before it is called.
encode_frame(a, seam, pcm) ==
    IF a.repr # seam THEN {Fails("Format")} ELSE Encode(a, seam, pcm)

\* The formats of a lane: each rate a codec is planned at, each width.
Metas ==
    {canonical(c) : c \in CodecKind}
      \cup {wire_meta_repr(c, r, IF c # "opus" THEN 512 ELSE IF r = 44100 THEN 882 ELSE 960, s) :
              c \in CodecKind, r \in Rates, s \in CodecRepr}
      \cup {Meta(c, SIM_RATE_HZ, n, "i16", IF n = 1 THEN "mono" ELSE "surround", 512) :
              c \in {"flac", "pcm"}, n \in {1, 6}}

CodecInit ==
    /\ meta \in Metas /\ tx = build_adapter(meta)
    /\ stream = << >> /\ taken = 0 /\ dec = Unborn /\ played = << >> /\ undecoded = 0
    /\ source = << >> /\ refusals = {}

WholeFrame == meta.frame_samples * meta.channels

\* emit_pcm_frame or emit_pcm_frame_24: encode, describe in a header, pack.
\* Nothing is sent of a frame that cannot be encoded or is too large to pack.
EmitFrame ==
    /\ tx.ok /\ Len(stream) < MaxEmitted
    /\ \E seam \in {"i16", "i24"}, n \in {WholeFrame, WholeFrame - 1}, b \in Bodies :
         \E p \in encode_frame(tx, seam, [n |-> n, body |-> b]) :
           IF p.ok /\ p.len <= MAX_FRAME_PAYLOAD
           THEN /\ stream' = Append(stream,
                     [codec |-> meta.codec, sample_rate |-> meta.sample_rate,
                      sample_repr |-> meta.sample_repr, channel_layout |-> meta.channel_layout,
                      frame_sample_count |-> meta.frame_samples, payload |-> p])
                /\ source' = Append(source, [n |-> n, body |-> b])
                /\ UNCHANGED refusals
           ELSE /\ refusals' = refusals \cup
                     {<<seam, n, IF p.ok THEN "PayloadOverflow" ELSE p.err>>}
                /\ UNCHANGED <<stream, source>>
    /\ UNCHANGED <<meta, tx, taken, dec, played, undecoded>>

-----------------------------------------------------------------------------
(***************************************************************************)
(* The receiver.                                                           *)
(***************************************************************************)

\* MUTANT: the width of the samples is taken to be 16 bits.
sniff_meta_16(f) ==
    Meta(f.codec, f.sample_rate, IF f.channel_layout = "mono" THEN 1 ELSE 2, "i16",
         f.channel_layout, f.frame_sample_count)

\* The format of a stream, from its first frame.
sniff_meta(f) ==
    Meta(f.codec, f.sample_rate, IF f.channel_layout = "mono" THEN 1 ELSE 2, f.sample_repr,
         f.channel_layout, f.frame_sample_count)

\* The 16-bit adapter of a codec.
codec_adapter_for(m) ==
    CASE m.codec = "flac" -> FlacAdapter(m.sample_rate, m.channels, 16)
      [] m.codec = "pcm"  -> PcmAdapter(m.channels, "i16")
      [] m.codec = "opus" -> OpusAdapter(m.sample_rate, m.channels, "Ms20")

decoder_for(m) ==
    CASE m.sample_repr = "i16" -> codec_adapter_for(m)
      [] m.sample_repr = "i24" /\ m.codec = "flac" -> FlacAdapter(m.sample_rate, m.channels, 24)
      [] m.sample_repr = "i24" /\ m.codec = "pcm"  -> PcmAdapter(m.channels, "i24")
      [] OTHER -> Fails("UnsupportedCodec")

\* Bytes of a decoded frame on the render seam.
canonical_len(repr, d) == d.n * bytes_per_sample(repr)

SniffFirst ==
    /\ dec = Unborn /\ stream # << >>
    /\ dec' = decoder_for(sniff_meta(Head(stream)))
    /\ UNCHANGED <<meta, tx, stream, taken, played, undecoded, source, refusals>>

\* render_frames, for one frame: one that does not decode is counted and skipped.
RenderNext ==
    /\ dec.ok /\ taken < Len(stream)
    /\ taken' = taken + 1
    /\ LET d == Decode(dec, dec.repr, stream[taken + 1].payload)
       IN /\ played' = IF d.ok THEN Append(played, [n |-> d.n, body |-> d.body,
                                                    bytes |-> canonical_len(dec.repr, d)])
                       ELSE played
          /\ undecoded' = IF d.ok THEN undecoded ELSE undecoded + 1
    /\ UNCHANGED <<meta, tx, stream, dec, source, refusals>>

CodecNext == EmitFrame \/ SniffFirst \/ RenderNext

CodecSpec == CodecInit /\ [][CodecNext]_codecVars

-----------------------------------------------------------------------------
(***************************************************************************)
(* Properties.                                                             *)
(***************************************************************************)

\* What an encoder may change: the least sample of a 24-bit raw frame.
Heard(b) == IF meta.codec = "pcm" /\ meta.sample_repr = "i24" /\ b = "floor"
            THEN "raised" ELSE b

Raw32Lossless == \A ch \in 1..2 : Raw32Copies(ch)

\* Both ends choose their adapter separately, from the format and from the
\* first header.  A lane the emitter agrees to build is one the receiver
\* decodes: every frame comes back with its samples, as many as were captured
\* and in the captured width (build_adapter, sniff_meta, decoder_for).  And the
\* frame sizes the formats prescribe, the sizes the adapters insist on and the
\* limit of a packed payload, written down in different crates, agree: a whole
\* frame on its own seam is never refused, whatever it compresses to, raw frames
\* fit exactly up to max_frame_samples, and the raw surfaces no lane uses yet
\* lose nothing (emit_pcm_frame, PcmAdapter).
LaneAgrees ==
    /\ dec = Unborn \/ dec.ok
    /\ undecoded = 0 /\ Len(played) = taken
    /\ \A i \in DOMAIN played :
         /\ played[i].n = source[i].n /\ played[i].body = Heard(source[i].body)
         /\ played[i].bytes = source[i].n * bytes_per_sample(meta.sample_repr)
    /\ Raw32Lossless
    /\ \A r \in refusals : r[1] # tx.repr \/ r[2] # WholeFrame
    /\ tx.ok /\ tx.kind = "pcm" =>
         \A n \in {1, meta.frame_samples, 1024, 1025} :
            (n * meta.channels * bytes_per_sample(tx.repr) <= MAX_FRAME_PAYLOAD)
              <=> (n <= max_frame_samples(meta.channels, bytes_per_sample(tx.repr),
                                          MAX_FRAME_PAYLOAD))

-----------------------------------------------------------------------------
(***************************************************************************)
(* The strengthening the proof rests on: every frame sent decodes, with the   *)
(* emitter's own adapter, to what it was encoded from, and its header says    *)
(* how that adapter was built.                                            *)
(***************************************************************************)
Sniffable(f) ==
    /\ f.codec = meta.codec /\ f.sample_rate = meta.sample_rate
    /\ f.sample_repr = meta.sample_repr /\ f.channel_layout = meta.channel_layout
    /\ f.frame_sample_count = meta.frame_samples

Faithful(f, pcm) == Decode(tx, tx.repr, f.payload) = Decoded(pcm.n, Heard(pcm.body))

Encoded == [ok : {TRUE}, kind : CodecKind, ch : 1..2, repr : CodecRepr, n : Nat, len : Nat,
             body : Bodies \cup {"raised"}]
Frames   == [codec : CodecKind, sample_rate : Nat, sample_repr : CodecRepr,
             channel_layout : {"mono", "stereo", "surround"}, frame_sample_count : Nat,
             payload : Encoded]

CodecTypeOK ==
    /\ meta \in Metas /\ tx = build_adapter(meta)
    /\ stream \in Seq(Frames) /\ source \in Seq([n : Nat, body : Bodies])
    /\ Len(source) = Len(stream) /\ taken \in 0..Len(stream)
    /\ played \in Seq([n : Nat, body : Bodies \cup {"raised"}, bytes : Nat])

CodecInv ==
    /\ CodecTypeOK
    /\ stream # << >> => tx.ok
    /\ \A i \in 1..Len(stream) : Sniffable(stream[i]) /\ Faithful(stream[i], source[i])
    /\ dec = Unborn \/ (dec = tx /\ tx.ok)
    /\ undecoded = 0 /\ Len(played) = taken
    /\ \A i \in 1..taken : played[i] =
          [n |-> source[i].n, body |-> Heard(source[i].body),
           bytes |-> source[i].n * bytes_per_sample(meta.sample_repr)]
    /\ \A r \in refusals : r[1] # tx.repr \/ r[2] # WholeFrame
=============================================================================
