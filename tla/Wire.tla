---------------------------------- MODULE Wire ----------------------------------
(***************************************************************************)
(* The wire between an emitter and a receiver, below the media lane: what   *)
(* wdr_proto encodes and refuses (frames, control messages, error codes),   *)
(* the length-prefixed item framing of wdr_refsim::framing, a reliable       *)
(* stream that hands over its bytes in arbitrary pieces, and the receiver's  *)
(* front end: incremental decoder, frame guards, counters, jitter buffer.   *)
(*                                                                         *)
(* A payload is its length; a frame is the fields some guard looks at.  The *)
(* bytes of the stream are positions 0 .. written-1, and what the bytes at a *)
(* position say is known from the item that was written there.              *)
(***************************************************************************)
EXTENDS Naturals, Sequences, FiniteSets, SequencesExt

CONSTANTS
    MaxFramePayload,   \* MAX_FRAME_PAYLOAD: 4096
    HeaderMaxLen,      \* Frame::header_max_len(): 64
    MaxControlMsg,     \* MAX_CONTROL_MSG: 16384
    MaxDatagram,       \* what the path carries in one datagram
    Payloads,          \* payload lengths of the frames a behaviour may use
    MaxItems           \* items on the stream

ASSUME WireAssumption ==
    /\ {MaxFramePayload, HeaderMaxLen, MaxControlMsg, MaxDatagram, MaxItems} \subseteq Nat
    /\ Payloads \subseteq Nat
    /\ MaxFramePayload < 2097152     \* 2^21, where a varint takes a fourth byte

-----------------------------------------------------------------------------
(***************************************************************************)
(* Descriptors and postcard sizes.  A varint takes a byte for every seven   *)
(* significant bits.                                                       *)
(***************************************************************************)

Codec         == {"Opus", "Flac", "Pcm"}
SampleRepr    == {"I16", "F32", "I24Packed", "I32"}
ChannelLayout == {"Mono", "Stereo", "Quad", "Surround51", "Surround71"}
Integrity     == {"None", "Crc32", "Aead"}

VarInt(bits) == IF bits = 0 THEN 1 ELSE (bits + 6) \div 7

\* The varint of a length that a frame may declare.
LengthLen(n) == IF n < 128 THEN 1 ELSE IF n < 16384 THEN 2 ELSE 3

TransportFeaturesLen == 4   \* four bools
BufferProfileLen(b)  == 4 * VarInt(b)
FeatureFlagsLen      == 4
PolicyBitsLen        == 4

\* Header flags in one byte: burst_end, frame_boundary and six reserved bits.
u8ify_flags(f) ==
    (IF f.burst_end THEN 1 ELSE 0) + (IF f.frame_boundary THEN 2 ELSE 0)
        + 4 * (f.reserved % 64)

flags_from_u8(v) ==
    [burst_end |-> v % 2 = 1, frame_boundary |-> (v \div 2) % 2 = 1,
     reserved |-> (v \div 4) % 64]

-----------------------------------------------------------------------------
(***************************************************************************)
(* Frames.  "wide" stands for counters and rates at the top of their width.  *)
(* "crc" says what the receiver will find when it computes the CRC itself.   *)
(***************************************************************************)

FRAME_VERSION == 1

Frame ==
    [version : {FRAME_VERSION, 2}, stream_id : {1, 2}, wide : BOOLEAN,
     codec : Codec, sample_repr : SampleRepr, integrity : Integrity,
     crc : {"match", "differ", "none"}, payload : Payloads]

new_lossy(repr, wide, len) ==
    [version |-> FRAME_VERSION, stream_id |-> 1, wide |-> wide, codec |-> "Opus",
     sample_repr |-> repr, integrity |-> "None", crc |-> "none", payload |-> len]

\* crc32 is computed over the payload as it is packed: the two agree.
crc32(len) == "match"

new_lossless(codec, repr, wide, len) ==
    [version |-> FRAME_VERSION, stream_id |-> 1, wide |-> wide, codec |-> codec,
     sample_repr |-> repr, integrity |-> "Crc32", crc |-> crc32(len), payload |-> len]

make_frame(codec, repr, wide, len) ==
    IF codec = "Opus" THEN new_lossy(repr, wide, len)
                      ELSE new_lossless(codec, repr, wide, len)

\* The bytes of one frame as the serializer lays its thirteen fields out.
FrameLen(f) ==
    LET w(bits) == IF f.wide THEN VarInt(bits) ELSE 1
    IN  w(16) + w(32) + w(64) + w(64)           \* version, stream_id, seq, media_ts
        + 1 + w(32) + 1 + 1 + w(32)             \* codec, rate, repr, layout, samples
        + 1                                     \* the flags byte, as it is
        + 1 + (IF f.crc = "none" THEN 1 ELSE 1 + VarInt(32))
        + LengthLen(f.payload) + f.payload

Ok(n)  == [ok |-> TRUE, len |-> n, why |-> "None"]
Err(e) == [ok |-> FALSE, len |-> 0, why |-> e]

\* MUTANT: a header bound that forgets the CRC and the payload length.
HeaderMax_Short == HeaderMaxLen - 16

HeaderMax == HeaderMaxLen

MAX_FRAME_TOTAL == HeaderMax + MaxFramePayload

FramePack(f) ==
    IF f.payload > MaxFramePayload THEN Err("PayloadOverflow") ELSE Ok(FrameLen(f))

\* PayloadVisitor: the declared length is compared before the payload is built.
PayloadVisit(f) == f.payload <= MaxFramePayload

\* An item is what was wrapped: a frame, an end marker, or bytes of that
\* length that are no valid member of the schema.
FrameVisit(item) == item.kind = "audio" /\ PayloadVisit(item.frame)

decode_postcard(item) ==
    IF item.len > HeaderMax + MaxFramePayload THEN Err("PayloadOverflow")
    ELSE IF FrameVisit(item) THEN Ok(item.len) ELSE Err("DataInvalid")

FrameUnpack(item) ==
    IF item.len > HeaderMax + MaxFramePayload THEN Err("PayloadOverflow")
    ELSE decode_postcard(item)

map_unpack_err(e) == IF e = "PayloadOverflow" THEN "PayloadOverflow" ELSE "Malformed"

-----------------------------------------------------------------------------
(***************************************************************************)
(* Framing: items, and the incremental decoder of a stream of them.         *)
(***************************************************************************)

EndLen == 5 + 8    \* END_MAGIC and a u64

NoFrame == [version |-> 0]

\* wrap_item's assertion on the prefix is checked by the property CodecLaws.
wrap_frame(f)       == [kind |-> "audio", len |-> FramePack(f).len, frame |-> f]
pack_known_end      == [kind |-> "end", len |-> EndLen, frame |-> NoFrame]
Garbage(n)          == [kind |-> "garbage", len |-> n, frame |-> NoFrame]

is_end(item) == item.kind = "end" /\ item.len = EndLen

parse(item) ==
    IF is_end(item) THEN Ok(item.len)
    ELSE IF FrameUnpack(item).ok THEN Ok(item.len)
    ELSE Err(map_unpack_err(FrameUnpack(item).why))

\* Frames this build's emitters send, one field away from them what another
\* build may send, and two malformed items: one small, one past the bound.
OwnFrames ==
    {make_frame(c, "I16", w, n) : c \in {"Opus", "Flac"}, w \in BOOLEAN, n \in Payloads}
    \cup {make_frame("Pcm", "I24Packed", FALSE, n) : n \in Payloads}

OtherFrames ==
    LET f == make_frame("Flac", "I16", FALSE, 0)
    IN  {[f EXCEPT !.version = 2], [f EXCEPT !.stream_id = 2], [f EXCEPT !.sample_repr = "F32"],
         [f EXCEPT !.integrity = "None"], [f EXCEPT !.crc = "none"], [f EXCEPT !.crc = "differ"]}

Items ==
    {wrap_frame(f) : f \in {g \in OwnFrames \cup OtherFrames : FramePack(g).ok}}
    \cup {pack_known_end, Garbage(9), Garbage(MAX_FRAME_TOTAL + 14)}

-----------------------------------------------------------------------------
VARIABLES
    lane,       \* "stream" or "datagram"
    api,        \* the writer: write_stream_all, or stream_send_with_deadline
    items,      \* what the emitter puts on the lane, in order
    written,    \* stream: bytes the transport accepted; datagram: items sent
    sender,     \* "writing", "ok" or an error's name
    fin,        \* what the reader will find after the last byte: "open", "finished", "lost"
    read,       \* stream: bytes the receiver has read; datagram: the set of items it took
    drained,    \* stream: bytes taken off the front of the receiver's buffer
    batch,      \* items decoded and not yet pushed, as indices into items
    rx,         \* "run", "ended", "next" (the stream is over) or "timeout"
    malformed,  \* metrics.malformed
    lateMetric, \* metrics.late_discard
    bufLate,    \* the jitter buffer's own late counter
    streamId,   \* the stream the receiver bound itself to; 0: none yet
    queued,     \* history: indices handed to JitterBuffer::push, in order
    decoded     \* history: indices taken off the lane as items, in order

vars == <<lane, api, items, written, sender, fin, read, drained, batch, rx, malformed,
          lateMetric, bufLate, streamId, queued, decoded>>
emitter  == <<lane, api, items, written, sender, fin>>
counters == <<malformed, lateMetric, bufLate, streamId, queued>>

\* Where item i starts: every item before it takes a prefix and its bytes.
Start(i) ==
    LET at[n \in 1..(Len(items) + 1)] ==
            IF n = 1 THEN 0 ELSE at[n - 1] + 2 + items[n - 1].len
    IN  at[i]
Size     == Start(Len(items) + 1)

\* Positions where a piece may end: inside a prefix, after it, in the middle
\* of a body, a byte short of its end, at the end.
Cuts ==
    UNION {{Start(i) + 1, Start(i) + 2, Start(i) + 2 + items[i].len \div 2,
            Start(i) + 1 + items[i].len, Start(i) + 2 + items[i].len} : i \in DOMAIN items}

Init ==
    /\ lane \in {"stream", "datagram"}
    /\ api \in IF lane = "stream" THEN {"write_stream_all", "stream_send_with_deadline"}
                                  ELSE {"send_datagram"}
    /\ items \in UNION {[1..n -> Items] : n \in 1..MaxItems}
    /\ written = 0 /\ sender = "writing" /\ fin = "open"
    /\ read = IF lane = "stream" THEN 0 ELSE {}
    /\ drained = 0 /\ batch = << >> /\ rx = "run"
    /\ malformed = 0 /\ lateMetric = 0 /\ bufLate = 0 /\ streamId = 0
    /\ queued = << >> /\ decoded = << >>

receiver == <<read, drained, batch, rx, counters, decoded>>

\* The transport accepts the bytes up to a cut.
Write ==
    /\ lane = "stream" /\ sender = "writing"
    /\ \E c \in {x \in Cuts : x > written} : written' = c
    /\ UNCHANGED <<lane, api, items, sender, fin, receiver>>

\* Every byte is accepted: finish() and return Ok.
Finish ==
    /\ lane = "stream" /\ sender = "writing" /\ written = Size
    /\ sender' = "ok" /\ fin' = "finished"
    /\ UNCHANGED <<lane, api, items, written, receiver>>

\* The budget is spent.  The stream is given up by dropping it, which quinn
\* turns into a finish of whatever was accepted.
Deadline ==
    /\ api = "stream_send_with_deadline" /\ sender = "writing" /\ written < Size
    /\ sender' = "retransmit_deadline exceeded" /\ fin' = "finished"
    /\ UNCHANGED <<lane, api, items, written, receiver>>

\* The connection is lost: the write fails, the reader's read fails.
ConnectionLost ==
    /\ fin = "open"
    /\ fin' = "lost" /\ sender' = IF sender = "writing" THEN "send" ELSE sender
    /\ UNCHANGED <<lane, api, items, written, receiver>>

\* What one datagram of n bytes meets, under an optional cap (0: none).
try_send_datagram(n, cap) ==
    IF cap > 0 /\ n > cap THEN [outcome |-> "TooLarge", max |-> cap]
    ELSE IF n > MaxDatagram THEN [outcome |-> "TooLarge", max |-> MaxDatagram]
    ELSE [outcome |-> "Sent", max |-> 0]

\* The emitter sends the next datagram, and gives the stream up on a refusal.
send_datagram ==
    /\ lane = "datagram" /\ sender = "writing" /\ written < Len(items)
    /\ LET sent == try_send_datagram(items[written + 1].len, 0).outcome = "Sent"
       IN  /\ written' = IF sent THEN written + 1 ELSE written
           /\ sender' = IF ~ sent THEN "send"
                        ELSE IF written + 1 = Len(items) THEN "ok" ELSE sender
    /\ UNCHANGED <<lane, api, items, fin, receiver>>

-----------------------------------------------------------------------------
\* MUTANT: an item is taken once its prefix and its body but for a byte are in.
Complete_Early(i, to) ==
    i <= Len(items) /\ items[i].len <= MAX_FRAME_TOTAL + 13 /\ Start(i + 1) <= to + 1

\* Item i is within the bound and all in a buffer that ends before byte `to`.
Complete(i, to) ==
    i <= Len(items) /\ items[i].len <= MAX_FRAME_TOTAL + 13 /\ Start(i + 1) <= to

Takes(i, to) == Complete(i, to) /\ parse(items[i]).ok

\* Where the loop leaves off: at the first item that is malformed, past the
\* bound or not yet complete.
LeavesOff(first, to) ==
    CHOOSE j \in first..(Len(items) + 1) :
        ~ Takes(j, to) /\ \A k \in first..(j - 1) : Takes(k, to)

ItemAt(position) == CHOOSE j \in 1..(Len(items) + 1) : Start(j) = position

\* The loop over a buffer that holds the bytes from..to-1.  Of the item it leaves
\* off at, only one that is complete and malformed is consumed.
take_stream_items(from, to) ==
    LET first == ItemAt(from)
        stop == LeavesOff(first, to)
    IN  [taken |-> [k \in 1..(stop - first) |-> first + k - 1],
         from  |-> IF Complete(stop, to) THEN Start(stop + 1) ELSE Start(stop),
         why   |-> IF Complete(stop, to) THEN parse(items[stop]).why
                   ELSE IF /\ stop <= Len(items) /\ Start(stop) + 2 <= to
                           /\ items[stop].len > MAX_FRAME_TOTAL + 13
                   THEN "Bounds" ELSE "None"]

\* One read of the stream loop: a piece of at most 4096 bytes, decoded at once.
ReadChunk ==
    /\ lane = "stream" /\ rx = "run" /\ batch = << >>
    /\ \E c \in {x \in Cuts : x > read /\ x <= written /\ x - read <= 4096} :
        LET t == take_stream_items(drained, c)
        IN  /\ read' = c /\ drained' = t.from
            /\ batch' = t.taken /\ decoded' = decoded \o t.taken
            /\ malformed' = IF t.why = "None" THEN malformed ELSE malformed + 1
    /\ UNCHANGED <<emitter, rx, lateMetric, bufLate, streamId, queued>>

\* One datagram: ingest_bytes.
ReadDatagram ==
    /\ lane = "datagram" /\ rx = "run" /\ batch = << >>
    /\ \E i \in (1..written) \ read :
        /\ read' = read \cup {i}
        /\ IF parse(items[i]).ok
           THEN batch' = <<i>> /\ decoded' = Append(decoded, i) /\ UNCHANGED malformed
           ELSE malformed' = malformed + 1 /\ UNCHANGED <<batch, decoded>>
    /\ UNCHANGED <<emitter, drained, rx, lateMetric, bufLate, streamId, queued>>

guard_frame(f) ==
    /\ f.version = FRAME_VERSION
    /\ f.sample_repr \in {"I16", "I24Packed"}
    /\ f.codec \in {"Flac", "Pcm"} => f.integrity = "Crc32" /\ f.crc = "match"

\* The next decoded item reaches the receiver.  A frame of another stream is
\* counted late; the jitter buffer then overwrites the counter with its own.
PushItem ==
    /\ batch /= << >>
    /\ batch' = Tail(batch)
    /\ LET i == Head(batch) f == items[i].frame
       IN  IF is_end(items[i])
           THEN rx' = "ended" /\ UNCHANGED <<lateMetric, bufLate, streamId, queued>>
           ELSE /\ UNCHANGED rx
                /\ IF ~ guard_frame(f)
                   THEN UNCHANGED <<lateMetric, bufLate, streamId, queued>>
                   ELSE IF streamId /= 0 /\ streamId /= f.stream_id
                   THEN lateMetric' = lateMetric + 1 /\ UNCHANGED <<bufLate, streamId, queued>>
                   ELSE /\ streamId' = f.stream_id /\ queued' = Append(queued, i)
                        /\ bufLate' \in {bufLate, bufLate + 1}
                        /\ lateMetric' = bufLate'
    /\ UNCHANGED <<emitter, read, drained, malformed, decoded>>

\* End of the stream: its buffer goes with it, and the loop waits for another.
StreamOver ==
    /\ lane = "stream" /\ rx = "run" /\ batch = << >>
    /\ fin = "finished" /\ read = written
    /\ rx' = "next"
    /\ UNCHANGED <<emitter, read, drained, batch, counters, decoded>>

\* Nothing arrives for END_POLL_MS, or the read fails.
ReadTimeout ==
    /\ rx = "run" /\ batch = << >>
    /\ \/ fin = "lost"
       \/ lane = "stream" /\ read = written /\ fin = "open"
       \/ lane = "datagram" /\ read = 1..written
    /\ rx' = "timeout"
    /\ UNCHANGED <<emitter, read, drained, batch, counters, decoded>>

Next ==
    \/ Write \/ Finish \/ Deadline \/ ConnectionLost \/ send_datagram
    \/ ReadChunk \/ ReadDatagram \/ PushItem \/ StreamOver \/ ReadTimeout

Spec == Init /\ [][Next]_vars

-----------------------------------------------------------------------------
(***************************************************************************)
(* Connection options.  Builders change one field; only enable_0rtt sets the *)
(* one that reaches the TLS layer's early data.                             *)
(***************************************************************************)

TransportConnConfigDefault ==
    [zrt_enabled_media |-> FALSE, congestion |-> "Cubic", datagram_max_payload |-> 0,
     peer_max_udp_payload_size |-> 1452, stream_receive_window |-> 0,
     datagram_send_buffer_size |-> 0]

disable_0rtt(c)               == [c EXCEPT !.zrt_enabled_media = FALSE]
enable_0rtt(c)                == [c EXCEPT !.zrt_enabled_media = TRUE]
congestion_control(c, cc)     == [c EXCEPT !.congestion = cc]
datagram_max_payload(c, n)    == [c EXCEPT !.datagram_max_payload = n]
stream_receive_window(c, n)   == [c EXCEPT !.stream_receive_window = n]
set_datagram_send_buffer(c, n) == [c EXCEPT !.datagram_send_buffer_size = n]

\* What the transport is built with: an unset option keeps quinn's default (0).
build_transport(c) ==
    [window |-> c.stream_receive_window, send_buffer |-> c.datagram_send_buffer_size,
     controller |-> c.congestion, mtu_upper_bound |-> c.peer_max_udp_payload_size]

make_client_config(c) ==
    [enable_early_data |-> c.zrt_enabled_media, transport |-> build_transport(c)]

\* Every configuration a chain of builders without enable_0rtt reaches.
Configs ==
    LET d == TransportConnConfigDefault
    IN  {stream_receive_window(congestion_control(datagram_max_payload(
            set_datagram_send_buffer(c, b), p), cc), w) :
            c \in {d, disable_0rtt(enable_0rtt(d))}, cc \in {"Cubic", "Bbr"},
            p \in {0, 1200}, b \in {0, 4096}, w \in {0, 16}}

-----------------------------------------------------------------------------
(***************************************************************************)
(* The control plane's messages and the error taxonomy.                     *)
(***************************************************************************)

MsgHeaderLen(w) == VarInt(16) + 2 * VarInt(w) + VarInt(32)

CapabilityLen == 1 + VarInt(32) + 1 + 2 * VarInt(16) + TransportFeaturesLen
                 + BufferProfileLen(32) + FeatureFlagsLen

FeedbackLen == 5 * VarInt(32) + 3 * VarInt(16) + 1

\* What follows the header; n is the length of the one field that has no bound.
RevokeRecordLen(n) == VarInt(32) + 16 + 32 + 32 + 1 + 2 * VarInt(64) + 33 + VarInt(20) + n

ErrorLen == 1 + 1 + 1 + VarInt(32)

ControlBody ==
    [kind : {"CapabilityRequest"}, len : {0}] \cup
    [kind : {"CapabilityResponse"}, len : {CapabilityLen}] \cup
    [kind : {"SessionDescriptor"}, len : {VarInt(32) + 3 * CapabilityLen}] \cup
    [kind : {"PairingStart"}, len : {32}] \cup
    [kind : {"SasOffer"}, len : {VarInt(20) + 1}] \cup
    [kind : {"SasConfirmReject", "PairAttemptRejected"}, len : {1}] \cup
    [kind : {"PolicyAdvertisement"}, len : {1 + PolicyBitsLen}] \cup
    [kind : {"StartStream", "StopStream", "Pause", "Resume"}, len : {VarInt(32)}] \cup
    [kind : {"Feedback"}, len : {FeedbackLen}] \cup
    [kind : {"Error"}, len : {ErrorLen}] \cup
    [kind : {"Keepalive"}, len : {VarInt(64)}] \cup
    [kind : {"Hello"}, len : {VarInt(20) + n : n \in {0, 64, MaxControlMsg}}] \cup
    [kind : {"RevokeRecord"}, len : {RevokeRecordLen(n) : n \in {64, MaxControlMsg}}]

ControlMessage == {[kind |-> b.kind, len |-> 1 + MsgHeaderLen(64) + b.len] : b \in ControlBody}

pack(m)   == IF m.len > MaxControlMsg THEN Err("SizeExceeded") ELSE Ok(m.len)
unpack(n) == IF n > MaxControlMsg THEN Err("LimitExceeded") ELSE Ok(n)

ErrorCode ==
    {"Malformed", "TooLarge", "VersionTooOld", "PatternMismatch", "RateLimited",
     "PendingHandshakeFull", "PairingTimeout", "PairAttemptRejected", "SasMismatch",
     "AuthenticationFailure", "PolicyViolation", "Revoked", "MissingResource",
     "LocalNetworkPermission", "Internal", "Reserved"}

is_retryable(code) ==
    code \in {"Malformed", "TooLarge", "RateLimited", "PendingHandshakeFull", "PairingTimeout",
              "AuthenticationFailure", "Internal"}

UserAction == {"GrantPermission", "ReconnectDac", "ChangeBuffer", "ReturnToWifi", "None"}

user_action_for(code) ==
    CASE code = "LocalNetworkPermission" -> "GrantPermission"
      [] code \in {"VersionTooOld", "PatternMismatch", "PairAttemptRejected", "SasMismatch",
                   "Revoked"} -> "ReconnectDac"
      [] code = "PolicyViolation" -> "ChangeBuffer"
      [] code = "MissingResource" -> "ReturnToWifi"
      [] OTHER -> "None"

Error(code) == [code |-> code, retryable |-> is_retryable(code), user_action |-> user_action_for(code)]

-----------------------------------------------------------------------------
(***************************************************************************)
(* Properties.                                                             *)
(***************************************************************************)

\* What the incremental decoder has produced is what a decoder of the whole
\* prefix would produce, however the stream was cut: the well-formed items in
\* their order, none twice, none invented, none before its last byte was in.
\* When the stream is over and the writer reported success, a well-formed item
\* was thrown away undecoded only if a malformed one stood before it.  And on
\* either lane only intact frames of one stream and of this protocol version are
\* queued for rendering, whichever build sent the items.
DecoderIgnoresCuts ==
    /\ lane = "stream" =>
         /\ ToSet(decoded) = {i \in DOMAIN items : Start(i) < drained /\ parse(items[i]).ok}
         /\ \A j, k \in DOMAIN decoded : j < k => decoded[j] < decoded[k]
         /\ \E i \in 1..(Len(items) + 1) : drained = Start(i)
         /\ drained <= read
    /\ (rx = "next" /\ sender = "ok") =>
         \A i \in DOMAIN items :
            parse(items[i]).ok =>
                \/ i \in ToSet(decoded)
                \/ \E j \in 1..(i - 1) : ~ parse(items[j]).ok
    /\ \A k \in DOMAIN queued :
         LET f == items[queued[k]].frame
         IN  /\ f.version = FRAME_VERSION /\ f.stream_id = streamId
             /\ f.codec /= "Opus" => f.crc = "match"
             /\ f.payload <= MaxFramePayload

\* Laws of the tables that depend on nothing.
TableLaws ==
    /\ \A m \in ControlMessage : pack(m).ok = unpack(m.len).ok
    /\ \A v \in 0..255 : u8ify_flags(flags_from_u8(v)) = v
    /\ \A c \in Configs :
        /\ ~ make_client_config(c).enable_early_data
        /\ make_client_config(enable_0rtt(c)).transport = make_client_config(c).transport
    /\ \A c \in ErrorCode : Error(c).user_action /= "None" => ~ Error(c).retryable

\* The two sides agree about sizes: a frame or a control message is packed
\* exactly when the peer would unpack the result, its length fits the two-byte
\* prefix and the decoder's bound, the flags byte loses nothing, an error asks
\* the user to act only when retrying cannot help, and no chain of options but
\* enable_0rtt turns early data on or loses another option.
CodecLaws ==
    /\ \A i \in ToSet(items) :
         i.kind = "audio" /\ i.frame \in OwnFrames =>
            FrameUnpack(i).ok /\ i.len <= MAX_FRAME_TOTAL /\ i.len < 65536
    /\ TableLaws
=============================================================================
