------------------------------ MODULE FormatProofs ------------------------------
(***************************************************************************)
(* What two peers must agree on, for every number of tier changes, every set  *)
(* of sample rates and every content: lossless audio only while it is        *)
(* granted (Entitlement), and a lane both ends build alike (Codec); the pace  *)
(* it is played at, for every arrival and every choice of the settings       *)
(* (Drift); and how its frames are framed, for every stream and every way to  *)
(* cut it into reads (Wire).                                                 *)
(***************************************************************************)
EXTENDS Wire, Entitlement, Codec, Drift, SequenceTheorems, FiniteSetTheorems,
        ModularArithmetic, TLAPS

-----------------------------------------------------------------------------
(***************************************************************************)
(* Entitlement.                                                            *)
(***************************************************************************)

\* The two views of a grant, and the policies built from either, agree.
LEMMA ViewsAgree == OneSourceOfTruth
<1>1. ASSUME NEW t \in Tier, NEW f \in Feature
      PROVE  granted(t, f) = is_enabled(feature_level(t, f))
  <2>1. granted(t, f) <=> is_enabled(feature_level(t, f))
    BY <1>1 DEF granted, is_enabled, feature_level, DEFAULT_POLICY_TABLE, Tier, Feature
  <2>2. granted(t, f) \in BOOLEAN /\ is_enabled(feature_level(t, f)) \in BOOLEAN
    BY DEF granted, is_enabled
  <2>3. QED
    BY <2>1, <2>2
<1>2. \A a \in Axis : FeatureOf(a) \in Feature
  BY DEF Axis, FeatureOf, Feature
<1>3. ASSUME NEW t \in Tier PROVE effective_policy(t) = effective_of_tier(t)
  BY <1>1, <1>2, <1>3 DEF effective_policy, effective_of_tier, feature_enabled
<1>4. QED
  BY <1>1, <1>3 DEF OneSourceOfTruth

\* The bits of a tier's policy encode what the tier grants.
LEMMA BitsOfTier ==
    ASSUME NEW t \in Tier
    PROVE  from_tier(t) \in 0..7 /\ effective(from_tier(t)) = effective_of_tier(t)
<1>1. \E b \in 0..7 : effective(b) = effective_of_tier(t)
  <2>1. /\ (5 \div 1) % 2 = 1 /\ (5 \div 2) % 2 = 0 /\ (5 \div 4) % 2 = 1
        /\ (7 \div 1) % 2 = 1 /\ (7 \div 2) % 2 = 1 /\ (7 \div 4) % 2 = 1
    OBVIOUS
  <2>2. /\ Bit("lossy_wifi") = 1 /\ Bit("lossless_wifi") = 2 /\ Bit("bluetooth_cells") = 4
    BY DEF Bit
  <2>3. effective(5) = {"lossy_wifi", "bluetooth_cells"}
    BY <2>1, <2>2 DEF effective, Axis
  <2>4. effective(7) = {"lossy_wifi", "lossless_wifi", "bluetooth_cells"}
    BY <2>1, <2>2 DEF effective, Axis
  <2>5. effective_of_tier("Free") = {"lossy_wifi", "bluetooth_cells"}
    BY DEF effective_of_tier, Axis, FeatureOf, feature_level, is_enabled
  <2>6. effective_of_tier("Pro") = {"lossy_wifi", "lossless_wifi", "bluetooth_cells"}
    BY DEF effective_of_tier, Axis, FeatureOf, feature_level, is_enabled
  <2>7. QED
    BY <2>3, <2>4, <2>5, <2>6 DEF Tier
<1>2. QED
  BY <1>1 DEF from_tier

\* The agreed policy is what both offer.
LEMMA Agreed ==
    ASSUME NEW t \in Tier, NEW b \in 0..7
    PROVE  LET agreed == intersect(from_tier(t), b)
           IN  /\ agreed.policy \in {{}, effective_of_tier(t) \cap effective(b)}
               /\ ~agreed.mismatch => agreed.policy = effective_of_tier(t) \cap effective(b)
               /\ agreed.mismatch \in BOOLEAN
               /\ intersect(b, from_tier(t)) = agreed
<1>1. effective(from_tier(t)) = effective_of_tier(t)
  BY BitsOfTier
<1>2. effective(from_tier(t)) \cap effective(b) = effective(b) \cap effective(from_tier(t))
  OBVIOUS
<1>3. QED
  BY <1>1, <1>2 DEF intersect, NoCommonLossy

LEMMA PolicyInitInv == PolicyInit => PolicyInv
<1> SUFFICES ASSUME PolicyInit PROVE PolicyInv
  OBVIOUS
<1>1. PolicyTypeOK
  BY DEF PolicyInit, PolicyTypeOK
<1>2. ~asked /\ mode = "Idle"
  BY DEF PolicyInit
<1>3. QED
  BY <1>1, <1>2 DEF PolicyInv

LEMMA NegotiateInv == ASSUME PolicyInv, Negotiate PROVE PolicyInv'
<1>1. /\ ~intersect(from_tier(tier), remote).mismatch /\ mode = "Idle"
      /\ mode' = "Streaming" /\ policy' = intersect(from_tier(tier), remote).policy
      /\ tier' = tier /\ remote' = remote /\ asked' = asked /\ changes' = changes
  BY DEF Negotiate
<1>2. tier \in Tier /\ remote \in 0..7 /\ ~asked
  BY <1>1 DEF PolicyInv, PolicyTypeOK
<1>3. policy' = effective_of_tier(tier) \cap effective(remote)
  BY <1>1, <1>2, Agreed
<1>4. QED
  BY <1>1, <1>2, <1>3 DEF PolicyInv, PolicyTypeOK

\* The plan of a live change: nothing that is lost goes on streaming.
LEMMA PlanOf ==
    ASSUME NEW p, NEW old \in Tier, NEW new \in Tier,
           p = renegotiate_live_change(old, new, mode, pref), mode # "Idle"
    PROVE  \/ /\ p.plan = "NoChange"
              /\ "lossless_wifi" \in effective_of_tier(old) =>
                    "lossless_wifi" \in effective_of_tier(new)
           \/ p.plan = "PauseForConfirm"
           \/ /\ p.plan = "ApplySaved" /\ "lossless_wifi" \notin p.policy
BY DEF renegotiate_live_change, NoChange, PauseForConfirm, ApplySaved

LEMMA ChangeTierInv == ASSUME PolicyInv, NEW new \in Tier, ChangeTier(new) PROVE PolicyInv'
<1>1. PICK p : p = renegotiate_live_change(tier, new, mode, pref)
  OBVIOUS
<1>2. /\ changes' = changes + 1 /\ tier' = new /\ remote' = remote
      /\ mode' = (IF p.plan = "PauseForConfirm" THEN "Paused" ELSE mode)
      /\ asked' = (asked \/ p.plan = "PauseForConfirm")
      /\ policy' = (IF p.plan = "ApplySaved" THEN p.policy ELSE policy)
  BY <1>1 DEF ChangeTier
<1>3. tier \in Tier
  BY DEF PolicyInv, PolicyTypeOK
<1>4. PolicyTypeOK'
  BY <1>2 DEF PolicyInv, PolicyTypeOK
<1>5. changes' \in Nat /\ changes' > 0
  BY <1>2 DEF PolicyInv, PolicyTypeOK
<1>6. asked' => mode' = "Paused"
  BY <1>2 DEF PolicyInv
<1>7. mode' # "Idle" /\ ~asked' /\ "lossless_wifi" \in policy' =>
        "lossless_wifi" \in effective_of_tier(tier') \cap effective(remote')
  <2>1. SUFFICES ASSUME mode' # "Idle", ~asked', "lossless_wifi" \in policy'
                 PROVE  "lossless_wifi" \in effective_of_tier(new) \cap effective(remote)
    BY <1>2
  <2>2. ~asked /\ p.plan # "PauseForConfirm" /\ mode # "Idle"
    BY <1>2, <2>1
  <2>3. p.plan = "NoChange" /\ ("lossless_wifi" \in effective_of_tier(tier) =>
                                   "lossless_wifi" \in effective_of_tier(new))
    BY <1>1, <1>2, <1>3, <2>1, <2>2, PlanOf
  <2>4. policy' = policy
    BY <1>2, <2>3
  <2>5. QED
    BY <2>1, <2>2, <2>3, <2>4 DEF PolicyInv
<1>8. QED
  BY <1>4, <1>5, <1>6, <1>7 DEF PolicyInv

LEMMA ConfirmInv == ASSUME PolicyInv, Confirm PROVE PolicyInv'
<1>1. PICK agreed : agreed = intersect(from_tier(tier), remote)
  OBVIOUS
<1>2. /\ asked /\ asked' = FALSE /\ policy' = agreed.policy
      /\ mode' = (IF agreed.mismatch THEN "Idle" ELSE "Streaming")
      /\ tier' = tier /\ remote' = remote /\ changes' = changes
  BY <1>1 DEF Confirm
<1>3. tier \in Tier /\ remote \in 0..7
  BY DEF PolicyInv, PolicyTypeOK
<1>4. /\ ~agreed.mismatch => agreed.policy = effective_of_tier(tier) \cap effective(remote)
      /\ agreed.mismatch \in BOOLEAN
  BY <1>1, <1>3, Agreed
<1>5. mode' # "Idle" => policy' = effective_of_tier(tier) \cap effective(remote)
  BY <1>2, <1>4
<1>6. QED
  BY <1>2, <1>5 DEF PolicyInv, PolicyTypeOK

\* Lossless audio flows only under a tier that grants it and to a peer that offers it, and
\* every view of the grants agrees (renegotiate_live_change, Policy::intersect).
THEOREM LosslessIsGranted == PolicySpec => []LosslessOnlyWhileGranted
<1>1. PolicyInv /\ [PolicyNext]_policyVars => PolicyInv'
  <2> SUFFICES ASSUME PolicyInv, [PolicyNext]_policyVars PROVE PolicyInv'
    OBVIOUS
  <2>1. CASE Negotiate
    BY <2>1, NegotiateInv
  <2>2. ASSUME NEW t \in Tier, ChangeTier(t) PROVE PolicyInv'
    BY <2>2, ChangeTierInv
  <2>3. CASE Confirm
    BY <2>3, ConfirmInv
  <2>4. CASE Pause \/ Resume \/ Stop
    <3>1. /\ tier' = tier /\ remote' = remote /\ changes' = changes
          /\ \/ /\ mode # "Idle" /\ mode' \in {"Paused", "Streaming"}
                /\ policy' = policy /\ asked' = asked /\ (asked => mode' = "Paused")
             \/ mode' = "Idle" /\ ~asked'
      BY <2>4 DEF Pause, Resume, Stop, PolicyInv
    <3>2. PolicyTypeOK'
      BY <2>4, <3>1 DEF Pause, Resume, Stop, PolicyInv, PolicyTypeOK
    <3>3. QED
      BY <3>1, <3>2 DEF PolicyInv
  <2>5. CASE UNCHANGED policyVars
    BY <2>5 DEF policyVars, PolicyInv, PolicyTypeOK
  <2>6. QED
    BY <2>1, <2>2, <2>3, <2>4, <2>5 DEF PolicyNext
<1>2. PolicyInv => LosslessOnlyWhileGranted
  <2> SUFFICES ASSUME PolicyInv PROVE LosslessOnlyWhileGranted
    OBVIOUS
  <2>1. tier \in Tier /\ remote \in 0..7
    BY DEF PolicyInv, PolicyTypeOK
  <2>2. mode = "Streaming" /\ "lossless_wifi" \in policy =>
          "lossless_wifi" \in effective_of_tier(tier) /\ "lossless_wifi" \in effective(remote)
    BY DEF PolicyInv
  <2>3. "lossless_wifi" \in effective_of_tier(tier) => policy_gate(TRUE, tier)
    <3>1. SUFFICES ASSUME "lossless_wifi" \in effective_of_tier(tier)
                   PROVE  feature_enabled(tier, "LosslessWifi")
      BY DEF policy_gate
    <3>2. "lossless_wifi" \in effective_policy(tier)
      BY <2>1, <3>1, ViewsAgree DEF OneSourceOfTruth
    <3>3. QED
      BY <3>2 DEF effective_policy, FeatureOf
  <2>4. mode = "Streaming" /\ changes = 0 =>
          /\ policy = effective_of_tier(tier) \cap effective(remote)
          /\ intersect(remote, from_tier(tier)) = intersect(from_tier(tier), remote)
    BY <2>1, Agreed DEF PolicyInv
  <2>5. QED
    BY <2>2, <2>3, <2>4, ViewsAgree DEF LosslessOnlyWhileGranted
<1>3. QED
  BY <1>1, <1>2, PolicyInitInv, PTL DEF PolicySpec

-----------------------------------------------------------------------------
(***************************************************************************)
(* Codec: the formats a lane may have.                                      *)
(***************************************************************************)

\* A format with an adapter.
Raw(m) ==
    /\ m.codec \in {"flac", "pcm"} /\ m.channels \in 1..2 /\ m.sample_repr \in {"i16", "i24"}
    /\ m.channel_layout = (IF m.channels = 1 THEN "mono" ELSE "stereo")
    /\ m.sample_rate \in Nat /\ m.frame_samples = 512

Opus(m) ==
    /\ m.codec = "opus" /\ m.channels = 2 /\ m.sample_repr = "i16"
    /\ m.channel_layout = "stereo" /\ m.sample_rate \in {44100, 48000}
    /\ m.frame_samples = (IF m.sample_rate = 44100 THEN 882 ELSE 960)

\* What a format of the callers looks like.
LEMMA FormatOf ==
    ASSUME NEW m \in Metas
    PROVE  /\ m.codec \in CodecKind /\ m.sample_repr \in CodecRepr /\ m.sample_rate \in Nat
           /\ \/ m.channels = 2 /\ m.channel_layout = "stereo"
              \/ m.channels = 1 /\ m.channel_layout = "mono"
              \/ m.channels = 6 /\ m.channel_layout = "surround" /\ m.codec # "opus"
           /\ m.codec # "opus" => m.frame_samples = 512
           /\ m.codec = "opus" => /\ m.channels = 2
                                  /\ m.frame_samples = IF m.sample_rate = 44100 THEN 882 ELSE 960
<1>1. Rates \subseteq Nat
  BY CodecAssumption DEF CodecAssumption
<1>2. CASE m \in {canonical(c) : c \in CodecKind}
  <2>1. PICK c \in CodecKind : m = canonical(c)
    BY <1>2
  <2>2. m = [codec |-> c, sample_rate |-> 48000, channels |-> 2, sample_repr |-> "i16",
             channel_layout |-> "stereo", frame_samples |-> IF c = "opus" THEN 960 ELSE 512]
    BY <2>1 DEF canonical, wire_meta_repr, Meta, SIM_RATE_HZ
  <2>3. QED
    BY <2>2 DEF CodecKind, CodecRepr
<1>3. CASE m \in {wire_meta_repr(c, r, IF c # "opus" THEN 512 ELSE IF r = 44100 THEN 882 ELSE 960,
                                 s) : c \in CodecKind, r \in Rates, s \in CodecRepr}
  <2>1. PICK c \in CodecKind, r \in Rates, s \in CodecRepr :
          m = wire_meta_repr(c, r, IF c # "opus" THEN 512 ELSE IF r = 44100 THEN 882 ELSE 960, s)
    BY <1>3
  <2>2. m = [codec |-> c, sample_rate |-> r, channels |-> 2, sample_repr |-> s,
             channel_layout |-> "stereo",
             frame_samples |-> IF c # "opus" THEN 512 ELSE IF r = 44100 THEN 882 ELSE 960]
    BY <2>1 DEF wire_meta_repr, Meta
  <2>3. QED
    BY <1>1, <2>1, <2>2
<1>4. CASE m \in {Meta(c, SIM_RATE_HZ, n, "i16", IF n = 1 THEN "mono" ELSE "surround", 512) :
                    c \in {"flac", "pcm"}, n \in {1, 6}}
  <2>1. PICK c \in {"flac", "pcm"}, n \in {1, 6} :
          m = Meta(c, SIM_RATE_HZ, n, "i16", IF n = 1 THEN "mono" ELSE "surround", 512)
    BY <1>4
  <2>2. m = [codec |-> c, sample_rate |-> 48000, channels |-> n, sample_repr |-> "i16",
             channel_layout |-> IF n = 1 THEN "mono" ELSE "surround", frame_samples |-> 512]
    BY <2>1 DEF Meta, SIM_RATE_HZ
  <2>3. QED
    BY <2>1, <2>2 DEF CodecKind, CodecRepr
<1>5. QED
  BY <1>2, <1>3, <1>4 DEF Metas

\* The adapter of each of them.
LEMMA AdapterOf ==
    ASSUME NEW m \in Metas, NEW a, a = build_adapter(m), a.ok
    PROVE  \/ Opus(m) /\ a = Adapter("opus", 2, "i16", m.sample_rate, 960)
           \/ /\ Raw(m)
              /\ a = Adapter(m.codec, m.channels, m.sample_repr,
                             IF m.codec = "flac" THEN m.sample_rate ELSE 0, 0)
              /\ m.codec = "flac" => m.sample_rate # 0
<1>1. /\ m.codec \in CodecKind /\ m.sample_repr \in CodecRepr /\ m.sample_rate \in Nat
      /\ \/ m.channels = 2 /\ m.channel_layout = "stereo"
         \/ m.channels = 1 /\ m.channel_layout = "mono"
         \/ m.channels = 6 /\ m.channel_layout = "surround" /\ m.codec # "opus"
      /\ m.codec # "opus" => m.frame_samples = 512
      /\ m.codec = "opus" => /\ m.channels = 2
                             /\ m.frame_samples = IF m.sample_rate = 44100 THEN 882 ELSE 960
  BY FormatOf
<1>2. \A e : Fails(e).ok = FALSE
  BY DEF Fails
<1>3. \A e : a # Fails(e)
  BY <1>2
<1>4. m.channels \in 1..2 <=> m.channels # 6
  BY <1>1
<1>5. CASE m.codec = "flac" /\ m.sample_repr = "i16"
  <2>1. a = FlacAdapter(m.sample_rate, m.channels, 16)
    BY <1>5 DEF build_adapter
  <2>2. m.channels \in 1..2 /\ m.sample_rate # 0
    BY <1>3, <2>1 DEF FlacAdapter
  <2>3. a = Adapter("flac", m.channels, "i16", m.sample_rate, 0)
    BY <2>1, <2>2 DEF FlacAdapter
  <2>4. QED
    BY <1>1, <1>4, <1>5, <2>2, <2>3 DEF Raw
<1>6. CASE m.codec = "flac" /\ m.sample_repr = "i24"
  <2>1. a = FlacAdapter(m.sample_rate, m.channels, 24)
    BY <1>6 DEF build_adapter
  <2>2. m.channels \in 1..2 /\ m.sample_rate # 0
    BY <1>3, <2>1 DEF FlacAdapter
  <2>3. a = Adapter("flac", m.channels, "i24", m.sample_rate, 0)
    BY <2>1, <2>2 DEF FlacAdapter
  <2>4. QED
    BY <1>1, <1>4, <1>6, <2>2, <2>3 DEF Raw
<1>7. CASE m.codec = "pcm" /\ m.sample_repr \in {"i16", "i24"}
  <2>1. a = PcmAdapter(m.channels, m.sample_repr)
    BY <1>7 DEF build_adapter
  <2>2. m.channels \in 1..2
    BY <1>3, <2>1 DEF PcmAdapter
  <2>3. a = Adapter("pcm", m.channels, m.sample_repr, 0, 0)
    BY <2>1, <2>2 DEF PcmAdapter
  <2>4. QED
    BY <1>1, <1>4, <1>7, <2>2, <2>3 DEF Raw
<1>8. CASE m.codec = "opus" /\ m.sample_repr = "i16"
  <2>1. a = OpusAdapter(m.sample_rate, m.channels, "Ms20")
    BY <1>8 DEF build_adapter
  <2>2. m.channels = 2
    BY <1>1, <1>8
  <2>3. m.sample_rate \in {44100, 48000}
    <3>1. ~(m.sample_rate > 48000)
      BY <1>3, <2>1 DEF OpusAdapter
    <3>2. QED
      BY <1>3, <2>1, <3>1 DEF OpusAdapter
  <2>4. FrameProfile["Ms20"][1] = 960
    <3>1. FrameProfile.Ms20 = <<960, 882>>
      BY DEF FrameProfile
    <3>2. QED
      BY <3>1
  <2>5. ~(m.sample_rate > 48000) /\ m.channels \in 1..2
    BY <2>2, <2>3
  <2>6. a = Adapter("opus", 2, "i16", m.sample_rate, 960)
    BY <2>1, <2>2, <2>3, <2>4, <2>5 DEF OpusAdapter
  <2>7. QED
    BY <1>1, <1>8, <2>2, <2>3, <2>6 DEF Opus
<1>9. CASE \/ m.codec = "opus" /\ m.sample_repr # "i16"
           \/ m.codec # "opus" /\ m.sample_repr \in {"f32", "i32"}
  <2>1. a = Fails("Format")
    BY <1>1, <1>9 DEF build_adapter, CodecKind
  <2>2. QED
    BY <1>3, <2>1
<1>10. QED
  BY <1>1, <1>5, <1>6, <1>7, <1>8, <1>9 DEF CodecKind, CodecRepr

\* The receiver builds the emitter's adapter from the header of a frame.
LEMMA SameAdapter ==
    ASSUME NEW m \in Metas, NEW a, a = build_adapter(m), a.ok,
           NEW f, f.codec = m.codec, f.sample_rate = m.sample_rate,
           f.sample_repr = m.sample_repr, f.channel_layout = m.channel_layout,
           f.frame_sample_count = m.frame_samples
    PROVE  decoder_for(sniff_meta(f)) = a
<1>1. PICK s : s = sniff_meta(f)
  OBVIOUS
<1>2. /\ s.codec = m.codec /\ s.sample_rate = m.sample_rate /\ s.sample_repr = m.sample_repr
      /\ s.channels = IF m.channel_layout = "mono" THEN 1 ELSE 2
  BY <1>1 DEF sniff_meta, Meta
<1>3. Opus(m) \/ Raw(m)
  BY AdapterOf
<1>4. s.channels = m.channels
  BY <1>2, <1>3 DEF Opus, Raw
<1> SUFFICES decoder_for(s) = a
  BY <1>1
<1>5. CASE m.codec = "opus"
  <2>1. s.codec = "opus" /\ s.sample_repr = "i16" /\ m.sample_repr = "i16"
    BY <1>2, <1>3, <1>5 DEF Opus, Raw
  <2>2. decoder_for(s) = codec_adapter_for(s)
    BY <2>1 DEF decoder_for
  <2>3. codec_adapter_for(s) = OpusAdapter(s.sample_rate, s.channels, "Ms20")
    BY <2>1 DEF codec_adapter_for
  <2>4. build_adapter(m) = OpusAdapter(m.sample_rate, m.channels, "Ms20")
    BY <1>5, <2>1 DEF build_adapter
  <2>5. QED
    BY <1>2, <1>4, <2>2, <2>3, <2>4
<1>6. CASE m.codec = "pcm"
  <2>1. s.codec = "pcm" /\ s.sample_repr = m.sample_repr /\ m.sample_repr \in {"i16", "i24"}
    BY <1>2, <1>3, <1>6 DEF Opus, Raw
  <2>2. build_adapter(m) = PcmAdapter(m.channels, m.sample_repr)
    BY <1>6, <2>1 DEF build_adapter
  <2>3. CASE m.sample_repr = "i16"
    BY <1>4, <2>1, <2>2, <2>3 DEF decoder_for, codec_adapter_for
  <2>4. CASE m.sample_repr = "i24"
    BY <1>4, <2>1, <2>2, <2>4 DEF decoder_for
  <2>5. QED
    BY <2>1, <2>3, <2>4
<1>7. CASE m.codec = "flac"
  <2>1. s.codec = "flac" /\ s.sample_repr = m.sample_repr /\ m.sample_repr \in {"i16", "i24"}
    BY <1>2, <1>3, <1>7 DEF Opus, Raw
  <2>2. CASE m.sample_repr = "i16"
    <3>1. build_adapter(m) = FlacAdapter(m.sample_rate, m.channels, 16)
      BY <1>7, <2>2 DEF build_adapter
    <3>2. QED
      BY <1>2, <1>4, <2>1, <2>2, <3>1 DEF decoder_for, codec_adapter_for
  <2>3. CASE m.sample_repr = "i24"
    <3>1. build_adapter(m) = FlacAdapter(m.sample_rate, m.channels, 24)
      BY <1>7, <2>3 DEF build_adapter
    <3>2. QED
      BY <1>2, <1>4, <2>1, <2>3, <3>1 DEF decoder_for
  <2>4. QED
    BY <2>1, <2>2, <2>3
<1>8. m.codec \in {"opus", "pcm", "flac"}
  BY <1>3 DEF Opus, Raw
<1>9. QED
  BY <1>5, <1>6, <1>7, <1>8

-----------------------------------------------------------------------------
(***************************************************************************)
(* What was encoded is what decodes, and a whole frame is never refused.      *)
(***************************************************************************)
HeardOf(m, b) == IF m.codec = "pcm" /\ m.sample_repr = "i24" /\ b = "floor" THEN "raised" ELSE b

LEMMA Widths == /\ bytes_per_sample("i16") = 2 /\ bytes_per_sample("i24") = 3
                /\ bytes_per_sample("f32") = 4 /\ bytes_per_sample("i32") = 4
BY DEF bytes_per_sample

LEMMA PcmRoundTrip ==
    ASSUME NEW ch \in 1..2, NEW r \in {"i16", "i24"}, NEW a, a = Adapter("pcm", ch, r, 0, 0),
           NEW n \in Nat, NEW b \in Bodies, NEW seam \in {"i16", "i24"},
           NEW p \in encode_frame(a, seam, [n |-> n, body |-> b]), p.ok
    PROVE  /\ p \in Encoded /\ p.len = n * bytes_per_sample(r)
           /\ Decode(a, a.repr, p) =
                Decoded(n, IF r = "i24" /\ b = "floor" THEN "raised" ELSE b)
<1>1. /\ a.ok /\ a.kind = "pcm" /\ a.ch = ch /\ a.repr = r
  BY DEF Adapter
<1>2. PICK pcm : pcm = [n |-> n, body |-> b]
  OBVIOUS
<1>3. pcm.n = n /\ pcm.body = b
  BY <1>2
<1>4. \A e : Fails(e).ok = FALSE
  BY DEF Fails
<1>5. r = seam
  <2>1. ASSUME r # seam PROVE FALSE
    <3>1. encode_frame(a, seam, pcm) = {Fails("Format")}
      BY <1>1, <2>1 DEF encode_frame
    <3>2. p = Fails("Format")
      BY <1>2, <3>1
    <3>3. QED
      BY <1>4, <3>2
  <2>2. QED
    BY <2>1
<1>6. p = PcmEncode(a, seam, pcm)
  <2>1. encode_frame(a, seam, pcm) = {PcmEncode(a, seam, pcm)}
    BY <1>1, <1>5 DEF encode_frame, Encode
  <2>2. QED
    BY <1>2, <2>1
<1>7. PICK w \in {2, 3} : w = bytes_per_sample(r) /\ w = bytes_per_sample(seam)
  BY <1>5, Widths
<1>8. PICK t : t = (IF r = "i24" /\ b = "floor" THEN "raised" ELSE b)
  OBVIOUS
<1>9. /\ n % ch = 0
      /\ p = Payload(a, n, n * w, t)
  <2>1. PcmEncode(a, seam, pcm) =
          IF ~check_align(a, n) THEN Fails("InvalidPcmLen") ELSE Payload(a, n, n * w, t)
    BY <1>1, <1>3, <1>5, <1>7, <1>8 DEF PcmEncode
  <2>2. check_align(a, n)
    BY <1>4, <1>6, <2>1
  <2>3. QED
    BY <1>1, <1>6, <2>1, <2>2 DEF check_align
<1>10. /\ p.ok /\ p.kind = "pcm" /\ p.ch = ch /\ p.repr = r /\ p.n = n /\ p.len = n * w
       /\ p.body = t
  BY <1>1, <1>9 DEF Payload
<1>11. (n * w) % w = 0 /\ (n * w) \div w = n /\ n * w \in Nat
  <2>1. CASE w = 2
    BY <2>1
  <2>2. CASE w = 3
    BY <2>2
  <2>3. QED
    BY <2>1, <2>2
<1>12. p \in Encoded
  <2>1. t \in Bodies \cup {"raised"}
    BY <1>8
  <2>2. p = [ok |-> TRUE, kind |-> "pcm", ch |-> ch, repr |-> r, n |-> n, len |-> n * w,
             body |-> t]
    BY <1>1, <1>9 DEF Payload
  <2>3. QED
    BY <1>11, <2>1, <2>2 DEF Encoded, CodecKind, CodecRepr
<1>13. Decode(a, a.repr, p) = PcmDecode(a, r, p)
  BY <1>1 DEF Decode
<1>14. check_bytes(a, p.len, w)
  BY <1>1, <1>9, <1>10, <1>11 DEF check_bytes
<1>15. PcmDecode(a, r, p) = Decoded(n, t)
  BY <1>1, <1>7, <1>10, <1>11, <1>14 DEF PcmDecode
<1>16. QED
  BY <1>7, <1>8, <1>10, <1>12, <1>13, <1>15

LEMMA FlacRoundTrip ==
    ASSUME NEW ch \in 1..2, NEW r \in {"i16", "i24"}, NEW rate \in Nat,
           NEW a, a = Adapter("flac", ch, r, rate, 0),
           NEW n \in Nat, NEW b \in Bodies, NEW seam \in {"i16", "i24"},
           NEW p \in encode_frame(a, seam, [n |-> n, body |-> b]), p.ok,
           p.len <= MAX_FRAME_PAYLOAD
    PROVE  p \in Encoded /\ Decode(a, a.repr, p) = Decoded(n, b)
<1>1. /\ a.ok /\ a.kind = "flac" /\ a.ch = ch /\ a.repr = r
  BY DEF Adapter
<1>2. PICK pcm : pcm = [n |-> n, body |-> b]
  OBVIOUS
<1>3. pcm.n = n /\ pcm.body = b
  BY <1>2
<1>4. \A e : Fails(e).ok = FALSE
  BY DEF Fails
<1>5. r = seam
  <2>1. ASSUME r # seam PROVE FALSE
    <3>1. encode_frame(a, seam, pcm) = {Fails("Format")}
      BY <1>1, <2>1 DEF encode_frame
    <3>2. p = Fails("Format")
      BY <1>2, <3>1
    <3>3. QED
      BY <1>4, <3>2
  <2>2. QED
    BY <2>1
<1>6. p \in encode_flac(a, pcm)
  <2>1. encode_frame(a, seam, pcm) = encode_flac(a, pcm)
    BY <1>1, <1>5 DEF encode_frame, Encode, FlacEncode
  <2>2. QED
    BY <1>2, <2>1
<1>7. PICK w \in {2, 3} : w = bytes_per_sample(a.repr)
  BY <1>1, Widths
<1>8. ~(n = 0 \/ n % ch # 0)
  <2>1. ASSUME n = 0 \/ n % ch # 0 PROVE FALSE
    <3>1. encode_flac(a, pcm) = {Fails("InvalidPcmLen")}
      BY <1>1, <1>3, <2>1 DEF encode_flac
    <3>2. p = Fails("InvalidPcmLen")
      BY <1>6, <3>1
    <3>3. QED
      BY <1>4, <3>2
  <2>2. QED
    BY <2>1
<1>9. PICK s \in FlacSizes(n, w) : p = Payload(a, n, s, b)
  BY <1>1, <1>3, <1>6, <1>7, <1>8 DEF encode_flac
<1>10. s \in Nat /\ s # 0
  <2>1. CASE w = 2
    BY <1>9, <2>1 DEF FlacSizes
  <2>2. CASE w = 3
    BY <1>9, <2>2 DEF FlacSizes
  <2>3. QED
    BY <2>1, <2>2
<1>11. p = [ok |-> TRUE, kind |-> "flac", ch |-> ch, repr |-> r, n |-> n, len |-> s, body |-> b]
  BY <1>1, <1>9 DEF Payload
<1>12. p \in Encoded
  BY <1>10, <1>11 DEF Encoded, CodecKind, CodecRepr
<1>13. Decode(a, a.repr, p) = FlacDecode(a, r, p)
  BY <1>1 DEF Decode
<1>14. FlacDecode(a, r, p) = decode_flac(a, p)
  <2>1. p.len = s /\ ~(p.len > MAX_FRAME_PAYLOAD)
    BY <1>10, <1>11 DEF MAX_FRAME_PAYLOAD
  <2>2. QED
    BY <1>1, <1>10, <2>1 DEF FlacDecode
<1>15. decode_flac(a, p) = Decoded(n, b)
  BY <1>1, <1>11 DEF decode_flac
<1>16. QED
  BY <1>12, <1>13, <1>14, <1>15

\* libopus works at 48 kHz: what is stretched on the way in is shrunk on the way out.
LEMMA OpusRoundTrip ==
    ASSUME NEW rate \in {44100, 48000}, NEW a, a = Adapter("opus", 2, "i16", rate, 960),
           NEW n \in Nat, NEW b \in Bodies, NEW seam \in {"i16", "i24"},
           NEW p \in encode_frame(a, seam, [n |-> n, body |-> b]), p.ok
    PROVE  /\ p \in Encoded /\ p.len <= MAX_FRAME_PAYLOAD
           /\ Decode(a, a.repr, p) = Decoded(n, b)
<1>1. /\ a.ok /\ a.kind = "opus" /\ a.ch = 2 /\ a.repr = "i16" /\ a.rate = rate
      /\ a.frame = 960
  BY DEF Adapter
<1>2. PICK pcm : pcm = [n |-> n, body |-> b]
  OBVIOUS
<1>3. pcm.n = n /\ pcm.body = b
  BY <1>2
<1>4. \A e : Fails(e).ok = FALSE
  BY DEF Fails
<1>5. seam = "i16"
  <2>1. ASSUME seam # "i16" PROVE FALSE
    <3>1. encode_frame(a, seam, pcm) = {Fails("Format")}
      BY <1>1, <2>1 DEF encode_frame
    <3>2. p = Fails("Format")
      BY <1>2, <3>1
    <3>3. QED
      BY <1>4, <3>2
  <2>2. QED
    BY <2>1
<1>6. p \in OpusEncode(a, seam, pcm)
  <2>1. encode_frame(a, seam, pcm) = OpusEncode(a, seam, pcm)
    BY <1>1, <1>5 DEF encode_frame, Encode
  <2>2. QED
    BY <1>2, <2>1
<1>7. n % 2 = 0
  <2>1. ASSUME n % 2 # 0 PROVE FALSE
    <3>1. OpusEncode(a, seam, pcm) = {Fails("InvalidPcmLen")}
      BY <1>1, <1>3, <2>1 DEF OpusEncode
    <3>2. p = Fails("InvalidPcmLen")
      BY <1>6, <3>1
    <3>3. QED
      BY <1>4, <3>2
  <2>2. QED
    BY <2>1
<1>8. n \div 2 = input_frame_len(a)
  <2>1. ASSUME n \div 2 # input_frame_len(a) PROVE FALSE
    <3>1. OpusEncode(a, seam, pcm) = {Fails("InvalidFrameSize")}
      BY <1>1, <1>3, <1>7, <2>1 DEF OpusEncode
    <3>2. p = Fails("InvalidFrameSize")
      BY <1>6, <3>1
    <3>3. QED
      BY <1>4, <3>2
  <2>2. QED
    BY <2>1
<1>9. PICK s \in OpusSizes : p = Payload(a, upsampled(a, n), s, b)
  BY <1>1, <1>3, <1>6, <1>7, <1>8 DEF OpusEncode
<1>10. upsampled(a, n) \in Nat /\ downsampled(a, upsampled(a, n)) = n
  <2>1. CASE rate = 48000
    BY <1>1, <2>1 DEF upsampled, downsampled
  <2>2. CASE rate = 44100
    <3>1. n \div 2 = 882
      BY <1>1, <1>8, <2>2 DEF input_frame_len
    <3>2. n = 1764
      BY <1>7, <3>1
    <3>3. upsampled(a, n) = 1920
      BY <1>1, <2>2, <3>2 DEF upsampled
    <3>4. QED
      BY <1>1, <2>2, <3>2, <3>3 DEF downsampled
  <2>3. QED
    BY <2>1, <2>2
<1>11. PICK u \in Nat : u = upsampled(a, n)
  BY <1>10
<1>12. p = [ok |-> TRUE, kind |-> "opus", ch |-> 2, repr |-> "i16", n |-> u, len |-> s, body |-> b]
  BY <1>1, <1>9, <1>11 DEF Payload
<1>13. s \in Nat /\ s <= MAX_FRAME_PAYLOAD /\ ~(s > MAX_FRAME_PAYLOAD)
  BY <1>9 DEF OpusSizes, MAX_FRAME_PAYLOAD
<1>14. p \in Encoded
  BY <1>12, <1>13 DEF Encoded, CodecKind, CodecRepr
<1>15. Decode(a, a.repr, p) = OpusDecode(a, p)
  BY <1>1 DEF Decode
<1>16. OpusDecode(a, p) = Decoded(n, b)
  BY <1>10, <1>11, <1>12, <1>13 DEF OpusDecode
<1>17. QED
  BY <1>12, <1>13, <1>14, <1>15, <1>16

LEMMA RoundTrip ==
    ASSUME NEW m \in Metas, NEW a, a = build_adapter(m), a.ok,
           NEW n \in Nat, NEW b \in Bodies, NEW seam \in {"i16", "i24"},
           NEW p \in encode_frame(a, seam, [n |-> n, body |-> b]), p.ok,
           p.len <= MAX_FRAME_PAYLOAD
    PROVE  p \in Encoded /\ Decode(a, a.repr, p) = Decoded(n, HeardOf(m, b))
<1>1. \/ Opus(m) /\ a = Adapter("opus", 2, "i16", m.sample_rate, 960)
      \/ /\ Raw(m)
         /\ a = Adapter(m.codec, m.channels, m.sample_repr,
                        IF m.codec = "flac" THEN m.sample_rate ELSE 0, 0)
  BY AdapterOf
<1>2. CASE Opus(m)
  <2>1. a = Adapter("opus", 2, "i16", m.sample_rate, 960) /\ m.sample_rate \in {44100, 48000}
    BY <1>1, <1>2 DEF Opus, Raw
  <2>2. HeardOf(m, b) = b
    BY <1>2 DEF HeardOf, Opus
  <2>3. QED
    BY <2>1, <2>2, OpusRoundTrip
<1>3. CASE Raw(m) /\ m.codec = "flac"
  <2>1. /\ a = Adapter("flac", m.channels, m.sample_repr, m.sample_rate, 0)
        /\ m.channels \in 1..2 /\ m.sample_repr \in {"i16", "i24"} /\ m.sample_rate \in Nat
    BY <1>1, <1>3 DEF Opus, Raw
  <2>2. HeardOf(m, b) = b
    BY <1>3 DEF HeardOf
  <2>3. QED
    BY <2>1, <2>2, FlacRoundTrip
<1>4. CASE Raw(m) /\ m.codec = "pcm"
  <2>1. /\ a = Adapter("pcm", m.channels, m.sample_repr, 0, 0)
        /\ m.channels \in 1..2 /\ m.sample_repr \in {"i16", "i24"}
    BY <1>1, <1>4 DEF Opus, Raw
  <2>2. HeardOf(m, b) = IF m.sample_repr = "i24" /\ b = "floor" THEN "raised" ELSE b
    BY <1>4 DEF HeardOf
  <2>3. QED
    BY <2>1, <2>2, PcmRoundTrip
<1>5. QED
  BY <1>1, <1>2, <1>3, <1>4 DEF Raw

\* Multiplying by one or two, which is all a lane's channels can do.
LEMMA WholeOf ==
    ASSUME NEW m \in Metas, Opus(m) \/ Raw(m)
    PROVE  /\ m.channels \in 1..2 /\ m.frame_samples * m.channels \in Nat \ {0}
           /\ (m.frame_samples * m.channels) % m.channels = 0
           /\ m.frame_samples * m.channels - 1 \in Nat
           /\ Raw(m) => m.frame_samples * m.channels \in {512, 1024}
           /\ Opus(m) => m.frame_samples * m.channels = 2 * m.frame_samples
<1>1. m.channels = 1 \/ m.channels = 2
  BY DEF Opus, Raw
<1>2. m.frame_samples \in {512, 882, 960}
  BY DEF Opus, Raw
<1>3. CASE m.channels = 1
  BY <1>2, <1>3 DEF Opus, Raw
<1>4. CASE m.channels = 2
  BY <1>2, <1>4 DEF Opus, Raw
<1>5. QED
  BY <1>1, <1>3, <1>4

\* A whole frame on its own seam is encoded, and packs whatever it compresses to.
LEMMA WholeFits ==
    ASSUME NEW m \in Metas, NEW a, a = build_adapter(m), a.ok, NEW b \in Bodies,
           NEW p \in encode_frame(a, a.repr,
                                  [n |-> m.frame_samples * m.channels, body |-> b])
    PROVE  p.ok /\ p.len <= MAX_FRAME_PAYLOAD
<1>1. \/ Opus(m) /\ a = Adapter("opus", 2, "i16", m.sample_rate, 960)
      \/ /\ Raw(m)
         /\ a = Adapter(m.codec, m.channels, m.sample_repr,
                        IF m.codec = "flac" THEN m.sample_rate ELSE 0, 0)
  BY AdapterOf
<1>2. PICK n \in Nat \ {0} : n = m.frame_samples * m.channels
  BY <1>1, WholeOf
<1>3. PICK pcm : pcm = [n |-> n, body |-> b]
  OBVIOUS
<1>4. pcm.n = n /\ pcm.body = b
  BY <1>3
<1>5. p \in Encode(a, a.repr, pcm)
  BY <1>2, <1>3 DEF encode_frame
<1>6. CASE Opus(m)
  <2>1. /\ a = Adapter("opus", 2, "i16", m.sample_rate, 960)
        /\ m.sample_rate \in {44100, 48000}
    BY <1>1, <1>6 DEF Opus, Raw
  <2>2. /\ a.kind = "opus" /\ a.ch = 2 /\ a.rate = m.sample_rate /\ a.frame = 960
    BY <2>1 DEF Adapter
  <2>3. n = 2 * m.frame_samples /\ m.frame_samples \in {882, 960}
    BY <1>1, <1>2, <1>6, WholeOf DEF Opus
  <2>4. n % 2 = 0 /\ n \div 2 = m.frame_samples
    BY <2>3
  <2>5. input_frame_len(a) = m.frame_samples
    BY <1>6, <2>1, <2>2 DEF input_frame_len, Opus
  <2>6. p \in OpusEncode(a, a.repr, pcm)
    BY <1>5, <2>2 DEF Encode
  <2>7. PICK s \in OpusSizes : p = Payload(a, upsampled(a, n), s, b)
    BY <1>4, <2>2, <2>4, <2>5, <2>6 DEF OpusEncode
  <2>8. p.ok /\ p.len = s
    BY <2>7 DEF Payload
  <2>9. QED
    BY <2>7, <2>8 DEF OpusSizes, MAX_FRAME_PAYLOAD
<1>7. ASSUME Raw(m)
      PROVE  /\ a.ch = m.channels /\ a.repr = m.sample_repr /\ a.kind = m.codec
             /\ n \in {512, 1024} /\ n % a.ch = 0
             /\ m.codec \in {"flac", "pcm"} /\ bytes_per_sample(a.repr) \in {2, 3}
  <2>1. a = Adapter(m.codec, m.channels, m.sample_repr,
                    IF m.codec = "flac" THEN m.sample_rate ELSE 0, 0)
    BY <1>1, <1>7 DEF Opus, Raw
  <2>2. a.ch = m.channels /\ a.repr = m.sample_repr /\ a.kind = m.codec
    BY <2>1 DEF Adapter
  <2>3. QED
    BY <1>2, <1>7, <2>2, WholeOf, Widths DEF Raw
<1>8. CASE Raw(m) /\ m.codec = "pcm"
  <2>1. PICK w \in {2, 3} : w = bytes_per_sample(a.repr)
    BY <1>7, <1>8
  <2>2. p = PcmEncode(a, a.repr, pcm)
    BY <1>5, <1>7, <1>8 DEF Encode
  <2>3. check_align(a, n)
    BY <1>7, <1>8 DEF check_align
  <2>4. PICK t : p = Payload(a, n, n * w, t)
    BY <1>4, <2>1, <2>2, <2>3 DEF PcmEncode
  <2>5. p.ok /\ p.len = n * w
    BY <2>4 DEF Payload
  <2>6. n = 512 \/ n = 1024
    BY <1>7, <1>8
  <2>7. n * w <= 4096
    BY <2>1, <2>6
  <2>8. QED
    BY <2>5, <2>7 DEF MAX_FRAME_PAYLOAD
<1>9. CASE Raw(m) /\ m.codec = "flac"
  <2>1. PICK w \in {2, 3} : w = bytes_per_sample(a.repr)
    BY <1>7, <1>9
  <2>2. p \in encode_flac(a, pcm)
    BY <1>5, <1>7, <1>9 DEF Encode, FlacEncode
  <2>3. PICK s \in FlacSizes(n, w) : p = Payload(a, n, s, b)
    BY <1>2, <1>4, <1>7, <1>9, <2>1, <2>2 DEF encode_flac
  <2>4. p.ok /\ p.len = s
    BY <2>3 DEF Payload
  <2>5. n = 512 \/ n = 1024
    BY <1>7, <1>9
  <2>6. s = (n * w) \div 2 + 100 \/ s = n * w + 200
    BY <2>3 DEF FlacSizes
  <2>7. s <= 4096
    <3>1. CASE w = 2
      BY <2>5, <2>6, <3>1
    <3>2. CASE w = 3
      BY <2>5, <2>6, <3>2
    <3>3. QED
      BY <2>1, <3>1, <3>2
  <2>8. QED
    BY <2>4, <2>7 DEF MAX_FRAME_PAYLOAD
<1>10. QED
  BY <1>1, <1>6, <1>7, <1>8, <1>9

\* The 32-bit raw surfaces lose nothing.
LEMMA RawLosesNothing == Raw32Lossless
<1>1. SUFFICES ASSUME NEW ch \in 1..2, NEW r \in {"f32", "i32"}, NEW n \in {0, ch, 512 * ch},
                      NEW a, a = PcmAdapter(ch, r)
               PROVE  PcmDecode(a, r, PcmEncode(a, r, [n |-> n, body |-> "floor"]))
                        = Decoded(n, "floor")
  BY DEF Raw32Lossless, Raw32Copies
<1>2. /\ a.kind = "pcm" /\ a.ch = ch /\ a.repr = r
  BY <1>1 DEF PcmAdapter, Adapter
<1>3. bytes_per_sample(r) = 4 /\ r # "i24"
  BY Widths
<1>4. ch = 1 \/ ch = 2
  OBVIOUS
<1>5. n \in Nat /\ n % ch = 0
  BY <1>4
<1>6. PICK pcm : pcm = [n |-> n, body |-> "floor"]
  OBVIOUS
<1>7. pcm.n = n /\ pcm.body = "floor"
  BY <1>6
<1>8. check_align(a, n)
  BY <1>2, <1>5 DEF check_align
<1>9. PICK p : p = PcmEncode(a, r, pcm)
  OBVIOUS
<1>10. p = Payload(a, n, n * 4, "floor")
  BY <1>2, <1>3, <1>7, <1>8, <1>9 DEF PcmEncode
<1>11. p.kind = "pcm" /\ p.repr = r /\ p.len = n * 4 /\ p.body = "floor"
  BY <1>2, <1>10 DEF Payload
<1>12. (n * 4) % 4 = 0 /\ (n * 4) \div 4 = n
  BY <1>5
<1>13. check_bytes(a, p.len, 4)
  BY <1>2, <1>5, <1>11, <1>12 DEF check_bytes
<1>14. PcmDecode(a, r, p) = Decoded(n, "floor")
  BY <1>2, <1>3, <1>11, <1>12, <1>13 DEF PcmDecode
<1>15. QED
  BY <1>6, <1>9, <1>14

\* Raw frames fit exactly up to max_frame_samples.
LEMMA RawBudget ==
    ASSUME NEW ch \in 1..2, NEW width \in {2, 3}, NEW n \in Nat
    PROVE  n * ch * width <= MAX_FRAME_PAYLOAD
             <=> n <= max_frame_samples(ch, width, MAX_FRAME_PAYLOAD)
<1>1. PICK k \in Nat : k = ch * width
  <2>1. ch = 1 \/ ch = 2
    OBVIOUS
  <2>2. ch * width \in Nat
    BY <2>1
  <2>3. QED
    BY <2>2
<1>2. k \in {2, 3, 4, 6} /\ n * ch * width = n * k
  <2>1. CASE ch = 1 /\ width = 2
    BY <1>1, <2>1
  <2>2. CASE ch = 1 /\ width = 3
    BY <1>1, <2>2
  <2>3. CASE ch = 2 /\ width = 2
    BY <1>1, <2>3
  <2>4. CASE ch = 2 /\ width = 3
    BY <1>1, <2>4
  <2>5. QED
    BY <2>1, <2>2, <2>3, <2>4
<1>3. max_frame_samples(ch, width, 4096) = 4096 \div k
  <2>1. ~(ch = 0 \/ width = 0)
    OBVIOUS
  <2>2. 4096 \div k \in Nat /\ 4096 \div k < 8192
    BY <1>2
  <2>3. QED
    BY <1>1, <2>1, <2>2 DEF max_frame_samples, MAX_FRAME_SAMPLES_FALLBACK
<1>4. n * k <= 4096 <=> n <= 4096 \div k
  <2>1. CASE k = 2
    BY <2>1
  <2>2. CASE k = 3
    BY <2>2
  <2>3. CASE k = 4
    BY <2>3
  <2>4. CASE k = 6
    BY <2>4
  <2>5. QED
    BY <1>2, <2>1, <2>2, <2>3, <2>4
<1>5. QED
  BY <1>2, <1>3, <1>4 DEF MAX_FRAME_PAYLOAD

-----------------------------------------------------------------------------
(***************************************************************************)
(* The invariant.                                                          *)
(***************************************************************************)

LEMMA CodecStarts == ASSUME CodecInit PROVE CodecInv
<1>1. /\ meta \in Metas /\ tx = build_adapter(meta) /\ stream = << >> /\ taken = 0
      /\ dec = Unborn /\ played = << >> /\ undecoded = 0 /\ source = << >> /\ refusals = {}
  BY DEF CodecInit
<1>2. CodecTypeOK
  BY <1>1 DEF CodecTypeOK
<1>3. QED
  BY <1>1, <1>2 DEF CodecInv

LEMMA HeardIs == \A b : Heard(b) = HeardOf(meta, b)
BY DEF Heard, HeardOf

LEMMA Unsniffed == Unborn.ok = FALSE
BY DEF Unborn, Fails

\* emit_pcm_frame: what is sent decodes, and a whole frame on its seam is sent.
LEMMA EmitKeeps == ASSUME CodecInv, EmitFrame PROVE CodecInv'
<1>1. /\ CodecTypeOK /\ meta \in Metas /\ tx = build_adapter(meta) /\ stream \in Seq(Frames)
      /\ source \in Seq([n : Nat, body : Bodies]) /\ Len(source) = Len(stream)
      /\ taken \in 0..Len(stream)
      /\ played \in Seq([n : Nat, body : Bodies \cup {"raised"}, bytes : Nat])
  BY DEF CodecInv, CodecTypeOK
<1>2. /\ dec = Unborn \/ (dec = tx /\ tx.ok)
      /\ undecoded = 0 /\ Len(played) = taken
      /\ \A i \in 1..taken : played[i] =
            [n |-> source[i].n, body |-> Heard(source[i].body),
             bytes |-> source[i].n * bytes_per_sample(meta.sample_repr)]
      /\ \A r \in refusals : r[1] # tx.repr \/ r[2] # WholeFrame
      /\ \A i \in 1..Len(stream) : Sniffable(stream[i]) /\ Faithful(stream[i], source[i])
  BY DEF CodecInv
<1>3. /\ meta' = meta /\ tx' = tx /\ taken' = taken /\ dec' = dec /\ played' = played
      /\ undecoded' = undecoded /\ tx.ok
  BY DEF EmitFrame
<1>4. PICK seam \in {"i16", "i24"}, n \in {WholeFrame, WholeFrame - 1}, b \in Bodies :
        \E p \in encode_frame(tx, seam, [n |-> n, body |-> b]) :
           IF p.ok /\ p.len <= MAX_FRAME_PAYLOAD
           THEN /\ stream' = Append(stream,
                     [codec |-> meta.codec, sample_rate |-> meta.sample_rate,
                      sample_repr |-> meta.sample_repr, channel_layout |-> meta.channel_layout,
                      frame_sample_count |-> meta.frame_samples, payload |-> p])
                /\ source' = Append(source, [n |-> n, body |-> b])
                /\ UNCHANGED refusals
           ELSE /\ refusals' = refusals \cup
                     {<<seam, n, IF p.ok THEN "PayloadOverflow" ELSE p.err>>}
                /\ UNCHANGED <<stream, source>>
  BY DEF EmitFrame
<1>5. PICK p \in encode_frame(tx, seam, [n |-> n, body |-> b]) :
           IF p.ok /\ p.len <= MAX_FRAME_PAYLOAD
           THEN /\ stream' = Append(stream,
                     [codec |-> meta.codec, sample_rate |-> meta.sample_rate,
                      sample_repr |-> meta.sample_repr, channel_layout |-> meta.channel_layout,
                      frame_sample_count |-> meta.frame_samples, payload |-> p])
                /\ source' = Append(source, [n |-> n, body |-> b])
                /\ UNCHANGED refusals
           ELSE /\ refusals' = refusals \cup
                     {<<seam, n, IF p.ok THEN "PayloadOverflow" ELSE p.err>>}
                /\ UNCHANGED <<stream, source>>
  BY <1>4
<1>6. Opus(meta) \/ Raw(meta)
  BY <1>1, <1>3, AdapterOf
<1>7. WholeFrame \in Nat /\ WholeFrame - 1 \in Nat
  BY <1>1, <1>6, WholeOf DEF WholeFrame
<1>8. n \in Nat
  BY <1>7
<1>9. /\ WholeFrame' = WholeFrame /\ \A x : Heard(x)' = Heard(x)
      /\ \A f : Sniffable(f)' = Sniffable(f)
      /\ \A f, x : Faithful(f, x)' = Faithful(f, x)
  BY <1>3 DEF WholeFrame, Heard, Sniffable, Faithful
<1>10. CASE p.ok /\ p.len <= MAX_FRAME_PAYLOAD
  <2>1. PICK f : f = [codec |-> meta.codec, sample_rate |-> meta.sample_rate,
                      sample_repr |-> meta.sample_repr, channel_layout |-> meta.channel_layout,
                      frame_sample_count |-> meta.frame_samples, payload |-> p]
    OBVIOUS
  <2>2. PICK x : x = [n |-> n, body |-> b]
    OBVIOUS
  <2>3. stream' = Append(stream, f) /\ source' = Append(source, x) /\ refusals' = refusals
    BY <1>5, <1>10, <2>1, <2>2
  <2>4. p \in Encoded /\ Decode(tx, tx.repr, p) = Decoded(n, HeardOf(meta, b))
    BY <1>1, <1>3, <1>8, <1>10, RoundTrip
  <2>5. x \in [n : Nat, body : Bodies] /\ x.n = n /\ x.body = b
    BY <1>8, <2>2
  <2>6. f \in Frames
    <3>1. /\ meta.codec \in CodecKind /\ meta.sample_rate \in Nat
          /\ meta.sample_repr \in CodecRepr
          /\ meta.channel_layout \in {"mono", "stereo", "surround"}
      BY <1>1, FormatOf
    <3>2. meta.frame_samples \in Nat
      BY <1>6 DEF Opus, Raw
    <3>3. QED
      BY <2>1, <2>4, <3>1, <3>2 DEF Frames
  <2>7. Sniffable(f)
    BY <2>1 DEF Sniffable
  <2>8. Faithful(f, x)
    <3>1. f.payload = p
      BY <2>1
    <3>2. QED
      BY <2>4, <2>5, <3>1, HeardIs DEF Faithful
  <2>9. PICK k \in Nat : k = Len(stream)
    BY <1>1
  <2>10. /\ stream' \in Seq(Frames) /\ source' \in Seq([n : Nat, body : Bodies])
         /\ Len(stream') = k + 1 /\ Len(source') = k + 1
         /\ stream'[k + 1] = f /\ source'[k + 1] = x
         /\ \A i \in 1..k : stream'[i] = stream[i] /\ source'[i] = source[i]
    BY <1>1, <2>3, <2>5, <2>6, <2>9
  <2>11. taken \in 0..k /\ taken' \in 0..(k + 1)
    BY <1>1, <1>3, <2>9
  <2>12. CodecTypeOK'
    BY <1>1, <1>3, <2>10, <2>11 DEF CodecTypeOK
  <2>13. ASSUME NEW i \in 1..(k + 1)
         PROVE  Sniffable(stream'[i]) /\ Faithful(stream'[i], source'[i])
    <3>1. CASE i \in 1..k
      BY <1>2, <2>9, <2>10, <3>1
    <3>2. CASE i = k + 1
      BY <2>7, <2>8, <2>10, <3>2
    <3>3. QED
      BY <2>9, <3>1, <3>2
  <2>14. \A i \in 1..Len(stream') : (Sniffable(stream[i]) /\ Faithful(stream[i], source[i]))'
    BY <1>9, <2>10, <2>13
  <2>15. \A i \in 1..taken' :
           (played[i] = [n |-> source[i].n, body |-> Heard(source[i].body),
                         bytes |-> source[i].n * bytes_per_sample(meta.sample_repr)])'
    <3>1. ASSUME NEW i \in 1..taken
          PROVE  /\ source'[i] = source[i]
                 /\ played[i] = [n |-> source[i].n, body |-> Heard(source[i].body),
                                 bytes |-> source[i].n * bytes_per_sample(meta.sample_repr)]
      <4>1. i \in 1..k
        BY <2>11
      <4>2. QED
        BY <1>2, <2>10, <4>1
    <3>2. QED
      BY <1>3, <3>1 DEF Heard
  <2>16. QED
    BY <1>2, <1>3, <1>9, <2>3, <2>12, <2>14, <2>15 DEF CodecInv
<1>11. CASE ~(p.ok /\ p.len <= MAX_FRAME_PAYLOAD)
  <2>1. PICK why : refusals' = refusals \cup {<<seam, n, why>>}
    BY <1>5, <1>11
  <2>2. stream' = stream /\ source' = source
    BY <1>5, <1>11
  <2>3. seam # tx.repr \/ n # WholeFrame
    <3>1. ASSUME seam = tx.repr, n = WholeFrame PROVE FALSE
      <4>1. p \in encode_frame(tx, tx.repr,
                               [n |-> meta.frame_samples * meta.channels, body |-> b])
        BY <3>1 DEF WholeFrame
      <4>2. QED
        BY <1>1, <1>3, <1>11, <4>1, WholeFits
    <3>2. QED
      BY <3>1
  <2>4. ASSUME NEW r \in refusals' PROVE r[1] # tx.repr \/ r[2] # WholeFrame
    <3>1. CASE r \in refusals
      BY <1>2, <3>1
    <3>2. CASE r = <<seam, n, why>>
      BY <2>3, <3>2
    <3>3. QED
      BY <2>1, <3>1, <3>2
  <2>5. CodecTypeOK'
    BY <1>1, <1>3, <2>2 DEF CodecTypeOK
  <2>6. QED
    BY <1>2, <1>3, <1>9, <2>2, <2>4, <2>5 DEF CodecInv
<1>12. QED
  BY <1>10, <1>11

\* sniff_meta, decoder_for: the first header gives the emitter's adapter.
LEMMA SniffKeeps == ASSUME CodecInv, SniffFirst PROVE CodecInv'
<1>1. /\ CodecTypeOK /\ meta \in Metas /\ tx = build_adapter(meta) /\ stream \in Seq(Frames)
  BY DEF CodecInv, CodecTypeOK
<1>2. /\ stream # << >> => tx.ok
      /\ \A i \in 1..Len(stream) : Sniffable(stream[i]) /\ Faithful(stream[i], source[i])
  BY DEF CodecInv
<1>3. /\ meta' = meta /\ tx' = tx /\ stream' = stream /\ taken' = taken /\ played' = played
      /\ undecoded' = undecoded /\ source' = source /\ refusals' = refusals
      /\ stream # << >> /\ dec' = decoder_for(sniff_meta(Head(stream)))
  BY DEF SniffFirst
<1>4. PICK f : f = Head(stream)
  OBVIOUS
<1>5. tx.ok /\ Sniffable(f)
  <2>1. Head(stream) = stream[1] /\ 1 \in 1..Len(stream)
    BY <1>1, <1>3
  <2>2. QED
    BY <1>2, <1>3, <1>4, <2>1
<1>6. decoder_for(sniff_meta(f)) = tx
  BY <1>1, <1>5, SameAdapter DEF Sniffable
<1>7. dec' = tx /\ tx.ok
  BY <1>3, <1>4, <1>5, <1>6
<1>8. /\ WholeFrame' = WholeFrame /\ \A x : Heard(x)' = Heard(x)
      /\ \A x : Sniffable(x)' = Sniffable(x)
      /\ \A x, y : Faithful(x, y)' = Faithful(x, y)
  BY <1>3 DEF WholeFrame, Heard, Sniffable, Faithful
<1>9. CodecTypeOK'
  BY <1>1, <1>3 DEF CodecTypeOK
<1>10. QED
  BY <1>3, <1>7, <1>8, <1>9 DEF CodecInv

\* render_frames: every frame decodes to what it was encoded from.
LEMMA RenderKeeps == ASSUME CodecInv, RenderNext PROVE CodecInv'
<1>1. /\ CodecTypeOK /\ meta \in Metas /\ tx = build_adapter(meta) /\ stream \in Seq(Frames)
      /\ source \in Seq([n : Nat, body : Bodies]) /\ Len(source) = Len(stream)
      /\ taken \in 0..Len(stream)
      /\ played \in Seq([n : Nat, body : Bodies \cup {"raised"}, bytes : Nat])
  BY DEF CodecInv, CodecTypeOK
<1>2. /\ dec = Unborn \/ (dec = tx /\ tx.ok)
      /\ undecoded = 0 /\ Len(played) = taken
      /\ \A i \in 1..taken : played[i] =
            [n |-> source[i].n, body |-> Heard(source[i].body),
             bytes |-> source[i].n * bytes_per_sample(meta.sample_repr)]
      /\ \A r \in refusals : r[1] # tx.repr \/ r[2] # WholeFrame
      /\ \A i \in 1..Len(stream) : Sniffable(stream[i]) /\ Faithful(stream[i], source[i])
      /\ stream # << >> => tx.ok
  BY DEF CodecInv
<1>3. /\ meta' = meta /\ tx' = tx /\ stream' = stream /\ dec' = dec /\ source' = source
      /\ refusals' = refusals /\ dec.ok /\ taken < Len(stream) /\ taken' = taken + 1
  BY DEF RenderNext
<1>4. dec = tx /\ tx.ok
  BY <1>2, <1>3, Unsniffed
<1>5. PICK k \in Nat : k = taken + 1
  BY <1>1
<1>6. k \in 1..Len(stream)
  BY <1>1, <1>3, <1>5
<1>7. /\ source[k] \in [n : Nat, body : Bodies]
      /\ Faithful(stream[k], source[k])
  <2>1. \A i \in 1..Len(source) : source[i] \in [n : Nat, body : Bodies]
    BY <1>1, ElementOfSeq
  <2>2. QED
    BY <1>1, <1>2, <1>6, <2>1
<1>8. PICK v \in Nat, b \in Bodies : source[k].n = v /\ source[k].body = b
  BY <1>7
<1>9. Decode(dec, dec.repr, stream[k].payload) = Decoded(v, Heard(b))
  BY <1>4, <1>7, <1>8 DEF Faithful
<1>10. /\ Decoded(v, Heard(b)).ok /\ Decoded(v, Heard(b)).n = v
       /\ Decoded(v, Heard(b)).body = Heard(b)
  BY DEF Decoded
<1>11. PICK x : x = [n |-> v, body |-> Heard(b),
                     bytes |-> v * bytes_per_sample(meta.sample_repr)]
  OBVIOUS
<1>12. tx.repr = meta.sample_repr
  <2>1. \/ Opus(meta) /\ tx = Adapter("opus", 2, "i16", meta.sample_rate, 960)
        \/ /\ Raw(meta)
           /\ tx = Adapter(meta.codec, meta.channels, meta.sample_repr,
                           IF meta.codec = "flac" THEN meta.sample_rate ELSE 0, 0)
    BY <1>1, <1>4, AdapterOf
  <2>2. QED
    BY <2>1 DEF Opus, Adapter
<1>13. played' = Append(played, x) /\ undecoded' = undecoded
  <2>1. PICK d : d = Decode(dec, dec.repr, stream[k].payload)
    OBVIOUS
  <2>2. d.ok /\ d.n = v /\ d.body = Heard(b)
    BY <1>9, <1>10, <2>1
  <2>3. /\ played' = IF d.ok THEN Append(played, [n |-> d.n, body |-> d.body,
                                                  bytes |-> canonical_len(dec.repr, d)])
                     ELSE played
        /\ undecoded' = IF d.ok THEN undecoded ELSE undecoded + 1
    BY <1>5, <2>1 DEF RenderNext
  <2>4. canonical_len(dec.repr, d) = v * bytes_per_sample(meta.sample_repr)
    BY <1>4, <1>12, <2>2 DEF canonical_len
  <2>5. QED
    BY <1>11, <2>2, <2>3, <2>4
<1>14. x \in [n : Nat, body : Bodies \cup {"raised"}, bytes : Nat]
  <2>1. PICK w \in {2, 3, 4} : w = bytes_per_sample(meta.sample_repr)
    BY DEF bytes_per_sample
  <2>2. v * w \in Nat
    <3>1. CASE w = 2
      BY <3>1
    <3>2. CASE w = 3
      BY <3>2
    <3>3. CASE w = 4
      BY <3>3
    <3>4. QED
      BY <3>1, <3>2, <3>3
  <2>3. Heard(b) \in Bodies \cup {"raised"}
    BY DEF Heard
  <2>4. QED
    BY <1>11, <2>1, <2>2, <2>3
<1>15. /\ WholeFrame' = WholeFrame /\ \A y : Heard(y)' = Heard(y)
       /\ \A y : Sniffable(y)' = Sniffable(y)
       /\ \A y, z : Faithful(y, z)' = Faithful(y, z)
  BY <1>3 DEF WholeFrame, Heard, Sniffable, Faithful
<1>16. /\ Len(played') = k
       /\ played' \in Seq([n : Nat, body : Bodies \cup {"raised"}, bytes : Nat])
       /\ played'[k] = x
       /\ \A i \in 1..taken : played'[i] = played[i]
  BY <1>1, <1>2, <1>5, <1>13, <1>14
<1>17. CodecTypeOK'
  BY <1>1, <1>3, <1>5, <1>6, <1>16 DEF CodecTypeOK
<1>18. ASSUME NEW i \in 1..taken'
       PROVE  played'[i] = [n |-> source[i].n, body |-> Heard(source[i].body),
                            bytes |-> source[i].n * bytes_per_sample(meta.sample_repr)]
  <2>1. CASE i \in 1..taken
    BY <1>2, <1>16, <2>1
  <2>2. CASE i = k
    BY <1>8, <1>11, <1>16, <2>2
  <2>3. QED
    BY <1>1, <1>3, <1>5, <2>1, <2>2
<1>19. QED
  BY <1>2, <1>3, <1>4, <1>5, <1>13, <1>15, <1>16, <1>17, <1>18 DEF CodecInv

LEMMA CodecSteps == ASSUME CodecInv, [CodecNext]_codecVars PROVE CodecInv'
<1>1. CASE CodecNext
  BY <1>1, EmitKeeps, SniffKeeps, RenderKeeps DEF CodecNext
<1>2. CASE UNCHANGED codecVars
  <2>1. /\ meta' = meta /\ tx' = tx /\ stream' = stream /\ taken' = taken /\ dec' = dec
        /\ played' = played /\ undecoded' = undecoded /\ source' = source
        /\ refusals' = refusals
    BY <1>2 DEF codecVars
  <2>2. QED
    BY <2>1 DEF CodecInv, CodecTypeOK, Sniffable, Faithful, Heard, WholeFrame
<1>3. QED
  BY <1>1, <1>2

LEMMA AgreementFollows == ASSUME CodecInv PROVE LaneAgrees
<1>1. /\ meta \in Metas /\ tx = build_adapter(meta)
      /\ played \in Seq([n : Nat, body : Bodies \cup {"raised"}, bytes : Nat])
  BY DEF CodecInv, CodecTypeOK
<1>2. /\ dec = Unborn \/ (dec = tx /\ tx.ok)
      /\ undecoded = 0 /\ Len(played) = taken
      /\ \A i \in 1..taken : played[i] =
            [n |-> source[i].n, body |-> Heard(source[i].body),
             bytes |-> source[i].n * bytes_per_sample(meta.sample_repr)]
      /\ \A r \in refusals : r[1] # tx.repr \/ r[2] # WholeFrame
  BY DEF CodecInv
<1>3. \A i \in DOMAIN played :
         /\ played[i].n = source[i].n /\ played[i].body = Heard(source[i].body)
         /\ played[i].bytes = source[i].n * bytes_per_sample(meta.sample_repr)
  BY <1>1, <1>2
<1>4. ASSUME tx.ok, tx.kind = "pcm", NEW n \in {1, meta.frame_samples, 1024, 1025}
      PROVE  (n * meta.channels * bytes_per_sample(tx.repr) <= MAX_FRAME_PAYLOAD)
               <=> (n <= max_frame_samples(meta.channels, bytes_per_sample(tx.repr),
                                           MAX_FRAME_PAYLOAD))
  <2>1. \/ Opus(meta) /\ tx = Adapter("opus", 2, "i16", meta.sample_rate, 960)
        \/ /\ Raw(meta)
           /\ tx = Adapter(meta.codec, meta.channels, meta.sample_repr,
                           IF meta.codec = "flac" THEN meta.sample_rate ELSE 0, 0)
    BY <1>1, <1>4, AdapterOf
  <2>2. /\ Raw(meta) /\ tx.repr = meta.sample_repr
    BY <1>4, <2>1 DEF Adapter
  <2>3. bytes_per_sample(tx.repr) \in {2, 3} /\ meta.channels \in 1..2 /\ n \in Nat
    BY <2>2, Widths DEF Raw
  <2>4. QED
    BY <2>3, RawBudget
<1>5. QED
  BY <1>2, <1>3, <1>4, RawLosesNothing DEF LaneAgrees

\* Whatever the rates, however many frames and whatever they hold: a lane the
\* emitter agrees to build (build_adapter) is one the receiver, which sees only a
\* header (sniff_meta, decoder_for), decodes to the captured samples and width,
\* and a whole frame on its own seam is never refused (emit_pcm_frame).
THEOREM LanesAgree == CodecSpec => []LaneAgrees
<1>1. CodecInit => CodecInv
  BY CodecStarts
<1>2. CodecInv /\ [CodecNext]_codecVars => CodecInv'
  BY CodecSteps
<1>3. CodecInv => LaneAgrees
  BY AgreementFollows
<1>4. QED
  BY <1>1, <1>2, <1>3, PTL DEF CodecSpec

-----------------------------------------------------------------------------
(***************************************************************************)
(* Drift: the sums of the fit.                                             *)
(***************************************************************************)

\* The element a sum over s takes first.
Picked(s) == CHOOSE x \in s : TRUE

\* g is the table of f's sums over the sets in D.
SumsOver(f, D, g) ==
    g = [s \in D |-> IF s = {} THEN 0 ELSE f[Picked(s)] + g[s \ {Picked(s)}]]

\* There is a table of the sums over all sets of indices.
LEMMA SumsExist ==
    ASSUME NEW f, IsFiniteSet(DOMAIN f)
    PROVE  \E g : SumsOver(f, SUBSET DOMAIN f, g)
<1> DEFINE Upto(n) == {s \in SUBSET DOMAIN f : Cardinality(s) <= n}
           T == {n \in Nat : \E g : SumsOver(f, Upto(n), g)}
<1>1. \A s \in SUBSET DOMAIN f : IsFiniteSet(s) /\ Cardinality(s) \in Nat
  BY FS_Subset, FS_CardinalityType
<1>2. \A s \in SUBSET DOMAIN f : s # {} =>
        Picked(s) \in s /\ Cardinality(s \ {Picked(s)}) = Cardinality(s) - 1
  BY <1>1, FS_RemoveElement DEF Picked
<1>3. 0 \in T
  <2>1. Upto(0) = {{}}
    BY <1>1, FS_EmptySet
  <2>2. SumsOver(f, Upto(0), [s \in Upto(0) |-> 0])
    BY <2>1 DEF SumsOver
  <2>3. QED
    BY <2>2
<1>4. ASSUME NEW n \in T PROVE n + 1 \in T
  <2>1. PICK g : SumsOver(f, Upto(n), g)
    OBVIOUS
  <2> DEFINE h == [s \in Upto(n + 1) |->
                     IF s = {} THEN 0 ELSE f[Picked(s)] + g[s \ {Picked(s)}]]
  <2>2. \A s \in Upto(n) : h[s] = g[s]
    <3>1. Upto(n) \subseteq Upto(n + 1)
      BY <1>1
    <3>2. QED
      BY <2>1, <3>1 DEF SumsOver
  <2>3. \A s \in Upto(n + 1) : s # {} => s \ {Picked(s)} \in Upto(n)
    BY <1>1, <1>2
  <2>4. SumsOver(f, Upto(n + 1), h)
    <3>1. \A s \in Upto(n + 1) : s # {} => h[s \ {Picked(s)}] = g[s \ {Picked(s)}]
      BY <2>2, <2>3
    <3> HIDE DEF Upto
    <3>2. QED
      BY <3>1 DEF SumsOver
  <2>5. \E k : SumsOver(f, Upto(n + 1), k)
    <3> HIDE DEF h, Upto
    <3>1. QED
      BY <2>4
  <2>6. n + 1 \in Nat
    OBVIOUS
  <2> HIDE DEF Upto
  <2>7. QED
    BY <2>5, <2>6
<1>5. T = Nat
  <2> HIDE DEF T
  <2>1. T \in SUBSET Nat
    BY DEF T
  <2>2. QED
    BY <1>3, <1>4, <2>1, HoldsEveryNumber
<1>6. Cardinality(DOMAIN f) \in T
  BY <1>1, <1>5
<1>7. Upto(Cardinality(DOMAIN f)) = SUBSET DOMAIN f
  BY FS_Subset
<1>8. QED
  BY <1>6, <1>7

\* A sum is the entry of such a table for the whole domain.
LEMMA SumByTable ==
    ASSUME NEW f, IsFiniteSet(DOMAIN f)
    PROVE  \E g : SumsOver(f, SUBSET DOMAIN f, g) /\ SumFunction(f) = g[DOMAIN f]
<1> DEFINE iter == CHOOSE g : SumsOver(f, SUBSET DOMAIN f, g)
<1>1. SumsOver(f, SUBSET DOMAIN f, iter)
  BY SumsExist
<1>2. SumFunction(f) = iter[DOMAIN f]
  BY DEF SumFunction, SumFunctionOnSet, FoldFunctionOnSet, MapThenFoldSet, SumsOver, Picked
<1>3. QED
  BY <1>1, <1>2

\* What a table of sums holds: a set's sum is that of the set without its
\* picked element, which is smaller, plus that element.
LEMMA TableUnfolds ==
    ASSUME NEW f, IsFiniteSet(DOMAIN f), NEW g, SumsOver(f, SUBSET DOMAIN f, g)
    PROVE  /\ g[{}] = 0
           /\ \A s \in SUBSET DOMAIN f : s # {} =>
                /\ Picked(s) \in s
                /\ IsFiniteSet(s) /\ Cardinality(s) \in Nat
                /\ Cardinality(s \ {Picked(s)}) = Cardinality(s) - 1
                /\ g[s] = f[Picked(s)] + g[s \ {Picked(s)}]
<1>1. g[{}] = 0
  BY DEF SumsOver
<1>2. ASSUME NEW s \in SUBSET DOMAIN f, s # {}
      PROVE  /\ Picked(s) \in s
             /\ IsFiniteSet(s) /\ Cardinality(s) \in Nat
             /\ Cardinality(s \ {Picked(s)}) = Cardinality(s) - 1
             /\ g[s] = f[Picked(s)] + g[s \ {Picked(s)}]
  <2>1. IsFiniteSet(s) /\ Cardinality(s) \in Nat
    BY FS_Subset, FS_CardinalityType
  <2>2. Picked(s) \in s
    BY <1>2 DEF Picked
  <2>3. Cardinality(s \ {Picked(s)}) = Cardinality(s) - 1
    BY <2>1, <2>2, FS_RemoveElement
  <2>4. g[s] = f[Picked(s)] + g[s \ {Picked(s)}]
    BY <1>2 DEF SumsOver
  <2>5. QED
    BY <2>1, <2>2, <2>3, <2>4
<1>3. QED
  BY <1>1, <1>2

\* A property of the sums over finite sets of indices: it is enough that it
\* holds over none and that an element more keeps it.
LEMMA HoldsForEverySet ==
    ASSUME NEW I, IsFiniteSet(I), NEW Good \in SUBSET SUBSET I,
           {} \in Good,
           \A s \in SUBSET I : s # {} /\ s \ {Picked(s)} \in Good => s \in Good
    PROVE  I \in Good
<1> DEFINE T == {n \in Nat : \A s \in SUBSET I : Cardinality(s) = n => s \in Good}
<1>1. \A s \in SUBSET I : IsFiniteSet(s) /\ Cardinality(s) \in Nat
  BY FS_Subset, FS_CardinalityType
<1>2. \A s \in SUBSET I : s # {} => Cardinality(s \ {Picked(s)}) = Cardinality(s) - 1
  BY <1>1, FS_RemoveElement DEF Picked
<1>3. 0 \in T
  BY <1>1, FS_EmptySet
<1>4. ASSUME NEW n \in T PROVE n + 1 \in T
  <2>1. ASSUME NEW s \in SUBSET I, Cardinality(s) = n + 1 PROVE s \in Good
    <3>1. s # {}
      <4>1. Cardinality(s) # 0
        BY <2>1
      <4>2. QED
        BY <4>1, FS_EmptySet
    <3>2. Cardinality(s \ {Picked(s)}) = n
      BY <1>2, <2>1, <3>1
    <3>3. s \ {Picked(s)} \in Good
      BY <3>2
    <3>4. QED
      BY <3>1, <3>3
  <2>2. QED
    BY <2>1
<1>5. T = Nat
  <2> HIDE DEF T
  <2>1. T \in SUBSET Nat
    BY DEF T
  <2>2. QED
    BY <1>3, <1>4, <2>1, HoldsEveryNumber
<1>6. QED
  BY <1>1, <1>5

\* Sums of integers are integers.
LEMMA SumIsInt ==
    ASSUME NEW I, IsFiniteSet(I), NEW f \in [I -> Int]
    PROVE  SumFunction(f) \in Int
<1>1. PICK g : SumsOver(f, SUBSET I, g) /\ SumFunction(f) = g[I]
  BY SumByTable
<1> DEFINE Good == {s \in SUBSET I : g[s] \in Int}
<1>2. {} \in Good
  BY <1>1, TableUnfolds
<1>3. ASSUME NEW s \in SUBSET I, s # {}, s \ {Picked(s)} \in Good PROVE s \in Good
  <2>1. Picked(s) \in s /\ g[s] = f[Picked(s)] + g[s \ {Picked(s)}]
    BY <1>1, <1>3, TableUnfolds
  <2>2. QED
    BY <1>3, <2>1
<1>4. I \in Good
  <2>1. Good \in SUBSET SUBSET I
    OBVIOUS
  <2> HIDE DEF Good
  <2>2. QED
    BY <1>2, <1>3, <2>1, HoldsForEverySet
<1>5. QED
  BY <1>1, <1>4

\* One more term, in the two forms the inequalities below need.
LEMMA OneMoreTerm ==
    ASSUME NEW q \in Int, NEW t \in Int, NEW n \in Nat, NEW x \in Int,
           \A a \in Int : q - 2 * a * t + n * a * a >= 0,
           n * q - t * t >= 0
    PROVE  /\ \A a \in Int : (x * x + q) - 2 * a * (x + t) + (n + 1) * a * a >= 0
           /\ (n + 1) * (x * x + q) - (x + t) * (x + t) >= 0
<1>1. ASSUME NEW a \in Int
      PROVE  (x * x + q) - 2 * a * (x + t) + (n + 1) * a * a >= 0
  <2>1. (x * x + q) - 2 * a * (x + t) + (n + 1) * a * a
          = (q - 2 * a * t + n * a * a) + (x - a) * (x - a)
    OBVIOUS
  <2>2. (x - a) * (x - a) >= 0
    OBVIOUS
  <2>3. QED
    BY <2>1, <2>2
<1>2. (n + 1) * (x * x + q) - (x + t) * (x + t) >= 0
  <2>1. (n + 1) * (x * x + q) - (x + t) * (x + t)
          = (n * q - t * t) + (q - 2 * x * t + n * x * x)
    OBVIOUS
  <2>2. q - 2 * x * t + n * x * x >= 0
    OBVIOUS
  <2>3. QED
    BY <2>1, <2>2
<1>3. QED
  BY <1>1, <1>2

\* The denominator of a slope is never negative: n times the sum of the squares
\* is at least the square of the sum.
LEMMA SquareOfSum ==
    ASSUME NEW I, IsFiniteSet(I), NEW f \in [I -> Int]
    PROVE  Cardinality(I) * SumFunction([i \in I |-> f[i] * f[i]])
             - SumFunction(f) * SumFunction(f) >= 0
<1> DEFINE sq == [i \in I |-> f[i] * f[i]]
<1>0. sq \in [I -> Int]
  OBVIOUS
<1>1. PICK g : SumsOver(f, SUBSET I, g) /\ SumFunction(f) = g[I]
  BY SumByTable
<1>2. PICK h : SumsOver(sq, SUBSET I, h) /\ SumFunction(sq) = h[I]
  <2>1. DOMAIN sq = I
    OBVIOUS
  <2> HIDE DEF sq
  <2>2. QED
    BY <2>1, SumByTable
<1> DEFINE Bounded(s) ==
             /\ g[s] \in Int /\ h[s] \in Int /\ Cardinality(s) \in Nat
             /\ \A a \in Int : h[s] - 2 * a * g[s] + Cardinality(s) * a * a >= 0
             /\ Cardinality(s) * h[s] - g[s] * g[s] >= 0
           Good == {s \in SUBSET I : Bounded(s)}
<1>3. {} \in Good
  <2>1. g[{}] = 0 /\ h[{}] = 0 /\ Cardinality({}) = 0
    BY <1>1, <1>2, TableUnfolds, FS_EmptySet
  <2>2. QED
    BY <2>1
<1>4. ASSUME NEW s \in SUBSET I, s # {}, s \ {Picked(s)} \in Good PROVE s \in Good
  <2> DEFINE x == f[Picked(s)]
             r == s \ {Picked(s)}
  <2>1. /\ Picked(s) \in s /\ g[s] = x + g[r]
        /\ Cardinality(s) \in Nat /\ Cardinality(r) = Cardinality(s) - 1
    BY <1>1, <1>4, TableUnfolds
  <2>2. h[s] = x * x + h[r]
    <3>1. DOMAIN sq = I /\ sq[Picked(s)] = x * x
      BY <2>1
    <3> HIDE DEF sq
    <3>2. QED
      BY <1>2, <1>4, <3>1, TableUnfolds
  <2>3. x \in Int /\ Bounded(r)
    BY <1>4, <2>1
  <2> HIDE DEF x, r, sq
  <2>4. /\ \A a \in Int : (x * x + h[r]) - 2 * a * (x + g[r]) + (Cardinality(r) + 1) * a * a >= 0
        /\ (Cardinality(r) + 1) * (x * x + h[r]) - (x + g[r]) * (x + g[r]) >= 0
    BY <2>3, OneMoreTerm
  <2>5. Cardinality(s) = Cardinality(r) + 1
    BY <2>1
  <2>6. \A a \in Int : h[s] - 2 * a * g[s] + Cardinality(s) * a * a >= 0
    <3>1. TAKE a \in Int
    <3>2. (x * x + h[r]) - 2 * a * (x + g[r]) + (Cardinality(r) + 1) * a * a >= 0
      BY <2>4
    <3>3. QED
      BY <2>1, <2>2, <2>5, <3>2, Zenon
  <2>7. Cardinality(s) * h[s] - g[s] * g[s] >= 0
    BY <2>1, <2>2, <2>4, <2>5, Zenon
  <2>8. g[s] \in Int /\ h[s] \in Int
    <3>1. x * x \in Int /\ g[r] \in Int /\ h[r] \in Int
      BY <2>3
    <3>2. x + g[r] \in Int /\ x * x + h[r] \in Int
      BY <2>3, <3>1
    <3>3. QED
      BY <2>1, <2>2, <3>2, Zenon
  <2>9. QED
    BY <2>1, <2>6, <2>7, <2>8
<1>5. I \in Good
  <2>1. Good \in SUBSET SUBSET I
    OBVIOUS
  <2> HIDE DEF Good
  <2>2. QED
    BY <1>3, <1>4, <2>1, HoldsForEverySet
<1>6. QED
  BY <1>1, <1>2, <1>5

\* The observations of the estimator: media times and times of arrival.
Observations == Seq(Nat \X Nat)

\* A slope is a fraction of integers, and its denominator is not negative.
LEMMA SlopeIsAFraction ==
    ASSUME NEW obs, NEW I, IsFiniteSet(I), \A i \in I : obs[i] \in Nat \X Nat
    PROVE  /\ Slope(obs, I) = << Slope(obs, I)[1], Slope(obs, I)[2] >>
           /\ Slope(obs, I)[1] \in Int
           /\ Slope(obs, I)[2] \in Nat
<1> DEFINE X  == [i \in I |-> obs[i][1]]
           Y  == [i \in I |-> obs[i][2]]
           XX == [i \in I |-> X[i] * X[i]]
           XY == [i \in I |-> X[i] * Y[i]]
           n  == Cardinality(I)
<1>1. n \in Nat
  BY FS_CardinalityType
<1>2. X \in [I -> Int] /\ Y \in [I -> Int] /\ XX \in [I -> Int] /\ XY \in [I -> Int]
  OBVIOUS
<1>3. /\ SumFunction(X) \in Int /\ SumFunction(Y) \in Int
      /\ SumFunction(XX) \in Int /\ SumFunction(XY) \in Int
  <2> HIDE DEF X, Y, XX, XY
  <2>1. QED
    BY <1>2, SumIsInt
<1>4. n * SumFunction(XX) - SumFunction(X) * SumFunction(X) >= 0
  <2> HIDE DEF X
  <2>1. QED
    BY <1>2, SquareOfSum
<1>5. Slope(obs, I) =
        << n * SumFunction(XY) - SumFunction(X) * SumFunction(Y),
           n * SumFunction(XX) - SumFunction(X) * SumFunction(X) >>
  BY DEF Slope
<1> HIDE DEF X, Y, XX, XY, n
<1>6. QED
  BY <1>1, <1>3, <1>4, <1>5

\* A fit that is found is a fraction with a positive denominator.
LEMMA FitIsAFraction ==
    ASSUME NEW obs \in Observations, fit_slope(obs) # << >>
    PROVE  fit_slope(obs)[1] \in Int /\ fit_slope(obs)[2] \in Nat \ {0}
<1> DEFINE kept == Survivors(obs)
<1>1. kept \subseteq DOMAIN obs
  BY DEF Survivors, Near
<1>2. IsFiniteSet(DOMAIN obs)
  BY FS_Interval DEF Observations
<1>3. IsFiniteSet(kept)
  BY <1>1, <1>2, FS_Subset
<1>4. \A i \in kept : obs[i] \in Nat \X Nat
  BY <1>1 DEF Observations
<1> HIDE DEF kept
<1>5. Slope(obs, kept)[1] \in Int /\ Slope(obs, kept)[2] \in Nat
  BY <1>3, <1>4, SlopeIsAFraction
<1>6. fit_slope(obs) = Slope(obs, kept) /\ ~Flat(obs, kept)
  BY DEF fit_slope, kept
<1>7. Slope(obs, kept)[2] # 0
  BY <1>6 DEF Flat
<1>8. QED
  BY <1>5, <1>6, <1>7

\* The drift of such a fit is a whole number of quarter ppms.
LEMMA DriftIsInt ==
    ASSUME NEW obs \in Observations, fit_slope(obs) # << >>
    PROVE  raw_ppm(fit_slope(obs)) \in Int
<1> DEFINE b == fit_slope(obs)
<1>1. b[1] \in Int /\ b[2] \in Nat \ {0}
  BY FitIsAFraction
<1>2. Cadence \in Nat \ {0} /\ Unit \in Nat
  BY DriftAssumption
<1> HIDE DEF b
<1>3. Cadence * b[2] \in Nat \ {0}
  BY <1>1, <1>2
<1>4. (b[1] - Cadence * b[2]) * Unit \in Int
  BY <1>1, <1>2, <1>3
<1>5. ((b[1] - Cadence * b[2]) * Unit) \div (Cadence * b[2]) \in Int
  BY <1>3, <1>4
<1>6. QED
  BY <1>5 DEF raw_ppm, b

-----------------------------------------------------------------------------
(***************************************************************************)
(* The invariant.                                                          *)
(***************************************************************************)
EstimatorState ==
    [on : {TRUE}, obs : Observations, total : Nat, last : Int, applied : Int,
     signal : {"Idle", "Correcting", "Excessive"}, corrected : BOOLEAN]

Resampler == [step : Int, pos : Nat, first : Nat, total : Nat]

\* A sample the device played, and its blocks of them.
Sample == [pos : Nat, exact : BOOLEAN]
Blocks == Seq(Sample)
Device == [out : Blocks, last : Int, underruns : Nat]

DriftTypeOK ==
    /\ lane_repr \in {"i16", "i24"}
    /\ est \in {Off} \cup EstimatorState
    /\ rs \in Resampler
    /\ now \in Nat /\ fed \in Nat
    /\ device \in Device
    /\ panicked \in BOOLEAN

\* A correction is within what the estimator believes, outside the deadband, and
\* none until the first is applied.
Steady(e) ==
    /\ Magnitude(e.applied) <= MaxEst
    /\ e.applied = 0 \/ Magnitude(e.applied) >= Deadband
    /\ ~e.corrected => e.applied = 0

\* Between two frames the history starts where the next output needs it to,
\* and the next output lacks its lookahead by less than two sample frames.
HistoryHeld(r) ==
    /\ r.first = KeepFrom(r.pos)
    /\ (r.total - Half) * Unit <= r.pos
    /\ r.pos = 0 \/ r.pos < (r.total - Half + 2) * Unit

\* Two positions one after the other.
Close(p, q) == Magnitude(q - p - Unit) <= MaxEst

Smooth(out) == \A k \in 1..(Len(out) - 1) : Close(out[k].pos, out[k + 1].pos)

\* The next output continues what was played.
Continues(out, r) ==
    IF out = << >> THEN r.pos = 0 ELSE Close(out[Len(out)].pos, r.pos)

\* The source, sample for sample.
Identity(out) == \A k \in DOMAIN out : out[k] = Kernel((k - 1) * Unit)

DriftInv ==
    /\ DriftTypeOK
    /\ ~panicked
    /\ HistoryHeld(rs)
    /\ Smooth(device.out)
    /\ est.on => /\ Steady(est)
                 /\ rs.step = Ratio(est.applied)
                 /\ Continues(device.out, rs)
                 /\ rs.total = fed * FrameSamples
    /\ est.on /\ ~est.corrected =>
          /\ Identity(device.out)
          /\ rs.pos = Len(device.out) * Unit
          /\ Len(device.out) <= rs.total
    /\ ~est.on => /\ Identity(device.out)
                  /\ Len(device.out) = fed * FrameSamples
    /\ fed = 0 => device.out = << >> /\ (est.on => est.applied = 0)

-----------------------------------------------------------------------------
(***************************************************************************)
(* The update.                                                             *)
(***************************************************************************)

\* An update leaves the estimator's correction in order, in step with the
\* resampler's ratio, and close to the one before.
Moves(e, f) ==
    /\ Magnitude(f.applied - e.applied) <= MaxStep
    /\ e.corrected => f.corrected
    /\ MaxStep < 2 * Deadband =>
         /\ e.applied > 0 => f.applied >= 0
         /\ e.applied < 0 => f.applied <= 0

InOrder(e, u) ==
    /\ u[1] \in EstimatorState /\ Steady(u[1])
    /\ u[2] = Ratio(u[1].applied)
    /\ Moves(e, u[1])

\* The correction an update aims at.
LEMMA SlewProperties ==
    ASSUME NEW a \in Int, NEW raw \in Int, Magnitude(a) <= MaxEst, Magnitude(raw) <= MaxEst
    PROVE  /\ Slew(a, raw) \in Int
           /\ Magnitude(Slew(a, raw)) <= MaxEst
           /\ Magnitude(Slew(a, raw) - a) <= MaxStep
BY DriftAssumption DEF Slew, Magnitude

LEMMA StaysInOrder ==
    ASSUME NEW e \in EstimatorState, Steady(e)
    PROVE  InOrder(e, <<e, Ratio(e.applied)>>)
<1>1. e.applied \in Int /\ MaxStep \in Nat /\ Deadband \in Nat
  BY DriftAssumption DEF EstimatorState
<1>2. Moves(e, e)
  BY <1>1 DEF Moves, Magnitude
<1>3. QED
  BY <1>2 DEF InOrder

LEMMA CorrectIsInOrder ==
    ASSUME NEW e \in EstimatorState, Steady(e), NEW b, b = << >> \/ raw_ppm(b) \in Int
    PROVE  InOrder(e, Correct(e, Ratio(e.applied), b))
<1> DEFINE raw == raw_ppm(b)
           t == Slew(e.applied, raw)
           u == Correct(e, Ratio(e.applied), b)
<1>1. /\ e.applied \in Int /\ e.corrected \in BOOLEAN
      /\ MaxStep \in Nat /\ Deadband \in Nat /\ MaxEst \in Nat
  BY DriftAssumption DEF EstimatorState
<1>2. CASE b = << >>
  BY <1>2, StaysInOrder DEF Correct
<1>3. CASE b # << >> /\ Magnitude(raw) > MaxEst
  <2> DEFINE f == [e EXCEPT !.signal = "Excessive"]
  <2>1. u = <<f, Ratio(e.applied)>>
    BY <1>3 DEF Correct
  <2>2. f \in EstimatorState /\ f.applied = e.applied /\ f.corrected = e.corrected
    BY DEF EstimatorState
  <2> HIDE DEF f
  <2>3. Steady(f)
    BY <2>2 DEF Steady
  <2>4. Moves(e, f)
    BY <1>1, <2>2 DEF Moves, Magnitude
  <2>5. QED
    BY <2>1, <2>2, <2>3, <2>4 DEF InOrder
<1>4. CASE b # << >> /\ ~(Magnitude(raw) > MaxEst)
  <2>1. raw \in Int /\ Magnitude(raw) <= MaxEst
    BY <1>1, <1>4 DEF Magnitude
  <2>2. /\ t \in Int
        /\ Magnitude(t) <= MaxEst
        /\ Magnitude(t - e.applied) <= MaxStep
    <3> HIDE DEF raw
    <3>1. QED
      BY <1>1, <2>1, SlewProperties DEF Steady
  <2>3. CASE Magnitude(t) < Deadband /\ e.corrected
    <3> DEFINE f == [e EXCEPT !.signal = "Idle"]
    <3>1. u = <<f, Ratio(e.applied)>>
      BY <1>4, <2>3 DEF Correct
    <3>2. f \in EstimatorState /\ f.applied = e.applied /\ f.corrected = e.corrected
      BY DEF EstimatorState
    <3> HIDE DEF f
    <3>3. Steady(f)
      BY <3>2 DEF Steady
    <3>4. Moves(e, f)
      BY <1>1, <3>2 DEF Moves, Magnitude
    <3>5. QED
      BY <3>1, <3>2, <3>3, <3>4 DEF InOrder
  <2>4. CASE Magnitude(t) < Deadband /\ ~e.corrected
    <3> DEFINE zero == 0
               f == [e EXCEPT !.signal = "Idle", !.applied = zero]
    <3>1. u = <<f, Ratio(0)>>
      BY <1>4, <2>4 DEF Correct
    <3>2. f \in EstimatorState /\ f.applied = zero /\ f.corrected = e.corrected
      <4>1. zero \in Int
        OBVIOUS
      <4> HIDE DEF zero
      <4>2. QED
        BY <4>1 DEF EstimatorState
    <3> HIDE DEF f
    <3>3. Steady(f)
      BY <1>1, <3>2 DEF Steady, Magnitude
    <3>4. e.applied = 0
      BY <2>4 DEF Steady
    <3>5. Moves(e, f)
      BY <1>1, <2>4, <3>2, <3>4 DEF Moves, Magnitude
    <3>6. QED
      BY <3>1, <3>2, <3>3, <3>5 DEF InOrder
  <2>5. CASE ~(Magnitude(t) < Deadband)
    <3> DEFINE f == [e EXCEPT !.applied = t, !.signal = "Correcting", !.corrected = TRUE]
    <3>1. u = <<f, Ratio(t)>>
      BY <1>4, <2>5 DEF Correct
    <3>2. f \in EstimatorState /\ f.applied = t /\ f.corrected = TRUE
      <4> HIDE DEF t
      <4>1. QED
        BY <2>2 DEF EstimatorState
    <3> HIDE DEF f, t
    <3>3. Magnitude(t) >= Deadband
      BY <1>1, <2>2, <2>5 DEF Magnitude
    <3>4. Steady(f)
      BY <2>2, <3>2, <3>3 DEF Steady
    <3>5. Moves(e, f)
      <4>1. e.applied = 0 \/ Magnitude(e.applied) >= Deadband
        BY DEF Steady
      <4>2. QED
        BY <1>1, <2>2, <3>2, <3>3, <4>1 DEF Moves, Magnitude
    <3>6. QED
      BY <3>1, <3>2, <3>4, <3>5 DEF InOrder
  <2>6. QED
    BY <2>3, <2>4, <2>5
<1>5. QED
  BY <1>2, <1>3, <1>4

\* So does a whole sample.
LEMMA SampleIsInOrder ==
    ASSUME NEW e \in EstimatorState, Steady(e), NEW ts \in Nat, NEW ms \in Nat
    PROVE  InOrder(e, sample_frame(e, Ratio(e.applied), ts, ms))
<1> DEFINE o == PushObs(e.obs, <<ts, ms>>)
           s == [e EXCEPT !.obs = o, !.total = @ + 1]
           l == [s EXCEPT !.last = ms]
           u == sample_frame(e, Ratio(e.applied), ts, ms)
<1>1. o \in Observations
  <2>1. e.obs \in Seq(Nat \X Nat) /\ <<ts, ms>> \in Nat \X Nat
    BY DEF EstimatorState, Observations
  <2>2. Len(e.obs) >= Window => e.obs # << >>
    BY <2>1, DriftAssumption
  <2>3. Len(e.obs) >= Window => Tail(e.obs) \in Seq(Nat \X Nat)
    BY <2>1, <2>2
  <2>4. QED
    BY <2>1, <2>3 DEF PushObs, Observations
<1>2. /\ s \in EstimatorState /\ l \in EstimatorState
      /\ s.applied = e.applied /\ s.corrected = e.corrected
      /\ l.applied = e.applied /\ l.corrected = e.corrected
  <2> HIDE DEF o
  <2> DEFINE g == [e EXCEPT !.obs = o]
  <2>1. /\ g \in EstimatorState /\ g.applied = e.applied /\ g.corrected = e.corrected
        /\ g.total = e.total
    BY <1>1 DEF EstimatorState
  <2>2. s = [g EXCEPT !.total = e.total + 1]
    BY DEF EstimatorState
  <2> HIDE DEF g, s
  <2>3. e.total + 1 \in Nat
    BY DEF EstimatorState
  <2>4. s \in EstimatorState
    BY <2>1, <2>2, <2>3 DEF EstimatorState
  <2>5. s.applied = g.applied /\ s.corrected = g.corrected
    BY <2>1, <2>2, <2>3 DEF EstimatorState
  <2>6. l \in EstimatorState
    <3> DEFINE m == ms
    <3>1. m \in Int
      OBVIOUS
    <3> HIDE DEF m
    <3>2. [s EXCEPT !.last = m] \in EstimatorState
      BY <2>4, <3>1 DEF EstimatorState
    <3>3. QED
      BY <3>2 DEF m
  <2>7. l.applied = s.applied
    BY <2>4 DEF EstimatorState
  <2>8. l.corrected = s.corrected
    BY <2>4 DEF EstimatorState
  <2>9. QED
    BY <2>1, <2>4, <2>5, <2>6, <2>7, <2>8
<1>3. u = IF (e.last = -1 \/ (IF ms > e.last THEN ms - e.last ELSE 0) >= UpdateInterval)
             /\ s.total >= Prefill
          THEN run_update(l, Ratio(e.applied)) ELSE <<s, Ratio(e.applied)>>
  BY DEF sample_frame
<1> HIDE DEF s, l
<1>4. Steady(s) /\ Steady(l)
  BY <1>2 DEF Steady
<1>5. ASSUME NEW v, InOrder(s, v) \/ InOrder(l, v) PROVE InOrder(e, v)
  BY <1>2, <1>5 DEF InOrder, Moves
<1>6. InOrder(s, <<s, Ratio(e.applied)>>)
  BY <1>2, <1>4, StaysInOrder
<1>7. InOrder(l, run_update(l, Ratio(e.applied)))
  <2>1. l.obs \in Observations
    BY <1>2 DEF EstimatorState
  <2>2. fit_slope(l.obs) = << >> \/ raw_ppm(fit_slope(l.obs)) \in Int
    BY <2>1, DriftIsInt
  <2>3. InOrder(l, Correct(l, Ratio(l.applied), fit_slope(l.obs)))
    BY <1>2, <1>4, <2>2, CorrectIsInOrder
  <2>4. QED
    BY <1>2, <2>3 DEF run_update
<1>8. QED
  BY <1>3, <1>5, <1>6, <1>7

-----------------------------------------------------------------------------
(***************************************************************************)
(* The resampler.                                                          *)
(***************************************************************************)

\* The frame a position on the grid lies in.
LEMMA FrameOf ==
    ASSUME NEW p \in Nat, NEW m \in Int
    PROVE  /\ p \div Unit \in Nat
           /\ p < m * Unit => p \div Unit < m
           /\ m * Unit <= p => m <= p \div Unit
<1> DEFINE q == p \div Unit
<1>1. Unit \in Nat \ {0}
  BY DriftAssumption
<1>2. q \in Int /\ p % Unit \in 0..(Unit - 1) /\ p = Unit * q + (p % Unit)
  BY <1>1, DivMod
<1> HIDE DEF q
<1>3. q >= 0
  <2>1. SUFFICES ASSUME q <= -1 PROVE FALSE
    BY <1>2
  <2>2. Unit * q <= Unit * (-1)
    BY <1>1, <1>2, <2>1
  <2>3. QED
    BY <1>1, <1>2, <2>2
<1>4. ASSUME p < m * Unit, ~(q < m) PROVE FALSE
  <2>1. m * Unit <= q * Unit
    BY <1>1, <1>2, <1>4
  <2>2. QED
    BY <1>1, <1>2, <1>4, <2>1
<1>5. ASSUME m * Unit <= p, ~(m <= q) PROVE FALSE
  <2>1. (q + 1) * Unit <= m * Unit
    BY <1>1, <1>2, <1>5
  <2>2. (q + 1) * Unit = Unit * q + Unit
    BY <1>1, <1>2
  <2>3. QED
    BY <1>1, <1>2, <1>5, <2>1, <2>2
<1>6. QED
  BY <1>2, <1>3, <1>4, <1>5 DEF q

\* A whole position is the start of its frame.
LEMMA WholePosition ==
    ASSUME NEW m \in Nat
    PROVE  Kernel(m * Unit) = [pos |-> m * Unit, exact |-> TRUE]
<1>1. Unit \in Nat \ {0}
  BY DriftAssumption
<1>2. m * Unit \in Int /\ m * Unit = Unit * m + 0 /\ 0 \in 0..(Unit - 1)
  BY <1>1
<1>3. (m * Unit) % Unit = 0
  BY <1>1, <1>2, ModUnique
<1>4. QED
  BY <1>3 DEF Kernel

\* A later position needs no earlier history.
LEMMA KeepFromGrows ==
    ASSUME NEW p \in Nat, NEW q \in Nat, p <= q
    PROVE  KeepFrom(p) \in Nat /\ KeepFrom(p) <= KeepFrom(q)
<1>1. Unit \in Nat \ {0} /\ Half \in Nat
  BY DriftAssumption
<1>2. p \div Unit \in Nat /\ q \div Unit \in Nat
  BY FrameOf
<1>3. p \div Unit <= q \div Unit
  <2>1. (p \div Unit) * Unit <= p
    <3>1. p % Unit \in 0..(Unit - 1) /\ p = Unit * (p \div Unit) + (p % Unit)
      BY <1>1, DivMod
    <3>2. QED
      BY <1>1, <1>2, <3>1
  <2>2. (p \div Unit) * Unit <= q
    BY <1>1, <1>2, <2>1
  <2>3. QED
    BY <1>2, <2>2, FrameOf
<1>4. QED
  BY <1>1, <1>2, <1>3 DEF KeepFrom

\* process emits until the next output lacks its lookahead, and no further.
LEMMA OutputsProperties ==
    ASSUME NEW r \in Resampler, r.step \in Nat \ {0}
    PROVE  /\ Outputs(r) \in Nat
           /\ (r.total - Half) * Unit <= r.pos => Outputs(r) = 0
           /\ (r.total - Half) * Unit > r.pos =>
                /\ Outputs(r) >= 1
                /\ r.pos + Outputs(r) * r.step >= (r.total - Half) * Unit
                /\ r.pos + Outputs(r) * r.step < (r.total - Half) * Unit + r.step
<1> DEFINE end == (r.total - Half) * Unit
           a == end - r.pos + r.step - 1
           n == a \div r.step
<1>1. r.pos \in Nat /\ end \in Int
  BY DriftAssumption DEF Resampler
<1> HIDE DEF end
<1>2. end <= r.pos => Outputs(r) = 0
  BY DEF Outputs, end
<1>3. ASSUME end > r.pos
      PROVE  /\ Outputs(r) = n /\ n \in Nat /\ n >= 1
             /\ r.pos + n * r.step >= end /\ r.pos + n * r.step < end + r.step
  <2>1. Outputs(r) = n
    BY <1>1, <1>3 DEF Outputs, end
  <2>2. a \in Int /\ a >= r.step
    BY <1>1, <1>3
  <2> HIDE DEF a
  <2>3. n \in Int /\ a % r.step \in 0..(r.step - 1) /\ a = r.step * n + (a % r.step)
    BY <2>2, DivMod
  <2> HIDE DEF n
  <2>4. n >= 1
    <3>1. SUFFICES ASSUME n <= 0 PROVE FALSE
      BY <2>3
    <3>2. r.step * n <= r.step * 0
      BY <2>3, <3>1
    <3>3. QED
      BY <2>2, <2>3, <3>2
  <2>5. n * r.step = r.step * n
    BY <2>3
  <2>6. r.step * n \in Int
    BY <2>3
  <2>7. r.pos + n * r.step >= end /\ r.pos + n * r.step < end + r.step
    BY <1>1, <2>3, <2>5, <2>6 DEF a
  <2>8. QED
    BY <2>1, <2>3, <2>4, <2>7
<1>4. QED
  BY <1>1, <1>2, <1>3 DEF end

\* One frame through the resampler: every output reads history that is held,
\* and afterwards the history is again as it was.
LEMMA ProcessHolds ==
    ASSUME NEW r \in Resampler, r.step \in 1..(2 * Unit), HistoryHeld(r)
    PROVE  LET p == process(r, FrameSamples)
               n == Outputs([r EXCEPT !.total = @ + FrameSamples])
           IN  /\ n \in Nat
               /\ p.out = [k \in 1..n |-> Kernel(r.pos + (k - 1) * r.step)]
               /\ p.ok
               /\ p.rs \in Resampler /\ HistoryHeld(p.rs)
               /\ p.rs.step = r.step
               /\ p.rs.total = r.total + FrameSamples
               /\ p.rs.pos = r.pos + n * r.step
<1> DEFINE f == [r EXCEPT !.total = @ + FrameSamples]
           n == Outputs(f)
           At(k) == r.pos + k * r.step
           p == process(r, FrameSamples)
<1>1. /\ Unit \in Nat \ {0} /\ Half \in Nat \ {0} /\ FrameSamples \in Nat \ {0}
      /\ r.step \in Nat \ {0} /\ r.pos \in Nat /\ r.total \in Nat /\ r.first \in Nat
  BY DriftAssumption DEF Resampler
<1>2. /\ f \in Resampler /\ f.step = r.step /\ f.pos = r.pos /\ f.first = r.first
      /\ f.total = r.total + FrameSamples
  BY <1>1 DEF Resampler
<1>3. p = [out |-> [k \in 1..n |-> Kernel(f.pos + (k - 1) * f.step)],
           ok  |-> \A k \in 0..(n - 1) : TapsHeld(f.pos + k * f.step, FirstAt(f, k)),
           rs  |-> [f EXCEPT !.pos = @ + n * f.step, !.first = FirstAt(f, n)]]
  BY DEF process
<1> HIDE DEF p, f
<1>4. /\ n \in Nat
      /\ (f.total - Half) * Unit <= f.pos => n = 0
      /\ (f.total - Half) * Unit > f.pos =>
           /\ n >= 1
           /\ f.pos + n * f.step >= (f.total - Half) * Unit
           /\ f.pos + n * f.step < (f.total - Half) * Unit + f.step
  BY <1>1, <1>2, OutputsProperties
<1> HIDE DEF n
<1>5. \A k \in 0..n : At(k) \in Nat /\ r.pos <= At(k) /\ At(k) <= At(n)
  <2>1. TAKE k \in 0..n
  <2>2. k * r.step \in Nat /\ k * r.step <= n * r.step /\ n * r.step \in Nat
    BY <1>1, <1>4
  <2>3. QED
    BY <1>1, <2>2
<1>6. ASSUME NEW k \in 0..n
      PROVE  FirstAt(f, k) = KeepFrom(At(k))
  <2>1. CASE k = 0
    BY <1>1, <1>2, <2>1 DEF FirstAt, HistoryHeld
  <2>2. CASE k # 0
    <3>1. (f.total - Half) * Unit > f.pos
      BY <1>1, <1>2, <1>4, <2>2
    <3>2. At(n) < (f.total - Half) * Unit + 2 * Unit
      BY <1>1, <1>2, <1>4, <3>1
    <3>3. (f.total - Half) * Unit + 2 * Unit = (f.total - Half + 2) * Unit
      BY <1>1, <1>2
    <3>4. At(k) \div Unit < f.total - Half + 2
      <4>1. At(k) < (f.total - Half + 2) * Unit
        <5>1. At(k) \in Nat /\ At(n) \in Nat /\ At(k) <= At(n)
          BY <1>4, <1>5
        <5>2. (f.total - Half + 2) * Unit \in Int
          BY <1>1, <1>2
        <5>3. At(n) < (f.total - Half + 2) * Unit
          BY <3>2, <3>3
        <5> HIDE DEF At
        <5>4. QED
          BY <5>1, <5>2, <5>3
      <4>2. f.total - Half + 2 \in Int /\ At(k) \in Nat
        BY <1>1, <1>2, <1>5
      <4> HIDE DEF At
      <4>3. QED
        BY <4>1, <4>2, FrameOf
    <3>5. At(k) \div Unit \in Nat
      BY <1>5, FrameOf
    <3>6. KeepFrom(At(k)) <= f.total /\ KeepFrom(At(k)) \in Nat
      <4> HIDE DEF At
      <4>1. QED
        BY <1>1, <1>2, <3>4, <3>5 DEF KeepFrom
    <3>7. f.first <= KeepFrom(At(k))
      <4>1. KeepFrom(r.pos) <= KeepFrom(At(k))
        <5>1. At(k) \in Nat /\ r.pos <= At(k)
          BY <1>5
        <5> HIDE DEF At
        <5>2. QED
          BY <1>1, <5>1, KeepFromGrows
      <4>2. QED
        BY <1>2, <4>1 DEF HistoryHeld
    <3>8. FirstAt(f, k) = MaxOf(f.first, MinOf(KeepFrom(At(k)), f.total))
      BY <1>2, <2>2 DEF FirstAt
    <3>9. QED
      <4> HIDE DEF At
      <4>1. QED
        BY <1>1, <1>2, <3>6, <3>7, <3>8 DEF MaxOf, MinOf
  <2>3. QED
    BY <2>1, <2>2
<1>7. p.ok
  <2>1. ASSUME NEW k \in 0..(n - 1) PROVE TapsHeld(f.pos + k * f.step, FirstAt(f, k))
    <3>1. k \in 0..n
      BY <1>4
    <3>2. At(k) \in Nat /\ FirstAt(f, k) = KeepFrom(At(k))
      BY <1>5, <1>6, <3>1
    <3>3. f.pos + k * f.step = At(k)
      BY <1>2
    <3> HIDE DEF At
    <3>4. At(k) \div Unit \in Nat
      BY <3>2, FrameOf
    <3>5. QED
      BY <1>1, <3>2, <3>3, <3>4 DEF TapsHeld, KeepFrom, MaxOf
  <2>2. QED
    BY <1>3, <2>1
<1>8. /\ p.rs.step = r.step /\ p.rs.total = r.total + FrameSamples
      /\ p.rs.pos = At(n) /\ p.rs.first = KeepFrom(At(n))
      /\ p.rs \in Resampler
  <2>1. n \in 0..n
    BY <1>4
  <2>2. FirstAt(f, n) = KeepFrom(At(n)) /\ At(n) \in Nat
    BY <1>5, <1>6, <2>1
  <2>3. KeepFrom(At(n)) \in Nat
    <3> HIDE DEF At
    <3>1. QED
      BY <2>2, KeepFromGrows
  <2>4. p.rs = [f EXCEPT !.pos = At(n), !.first = KeepFrom(At(n))]
    BY <1>2, <1>3, <2>2
  <2> HIDE DEF At
  <2>5. QED
    BY <1>1, <1>2, <2>2, <2>3, <2>4 DEF Resampler
<1>9. HistoryHeld(p.rs)
  <2>1. p.rs.total = f.total
    BY <1>2, <1>8
  <2>2. (f.total - Half) * Unit \in Int /\ At(n) \in Nat
    BY <1>1, <1>2, <1>4, <1>5
  <2>3. (f.total - Half) * Unit <= At(n)
    <3>1. CASE (f.total - Half) * Unit <= f.pos
      BY <1>1, <1>2, <1>4, <2>2, <3>1
    <3>2. CASE (f.total - Half) * Unit > f.pos
      BY <1>2, <1>4, <3>2
    <3>3. QED
      BY <1>1, <1>2, <2>2, <3>1, <3>2
  <2>4. At(n) = 0 \/ At(n) < (f.total - Half + 2) * Unit
    <3>1. (f.total - Half + 2) * Unit = (f.total - Half) * Unit + 2 * Unit
      BY <1>1, <1>2
    <3>2. CASE (f.total - Half) * Unit > f.pos
      BY <1>1, <1>2, <1>4, <2>2, <3>1, <3>2
    <3>3. CASE ~((f.total - Half) * Unit > f.pos)
      <4>1. At(n) = r.pos
        BY <1>1, <1>2, <1>4, <2>2, <3>3
      <4>2. (r.total - Half + 2) * Unit <= (f.total - Half + 2) * Unit
        BY <1>1, <1>2
      <4>3. (r.total - Half + 2) * Unit \in Int /\ (f.total - Half + 2) * Unit \in Int
        BY <1>1, <1>2
      <4>4. r.pos = 0 \/ r.pos < (r.total - Half + 2) * Unit
        BY DEF HistoryHeld
      <4>5. QED
        BY <1>1, <4>1, <4>2, <4>3, <4>4
    <3>4. QED
      BY <3>2, <3>3
  <2> HIDE DEF At
  <2>5. QED
    BY <1>8, <2>1, <2>3, <2>4 DEF HistoryHeld
<1>10. p.out = [k \in 1..n |-> Kernel(r.pos + (k - 1) * r.step)]
  BY <1>2, <1>3
<1>11. QED
  BY <1>4, <1>7, <1>8, <1>9, <1>10 DEF p, n, f

-----------------------------------------------------------------------------
(***************************************************************************)
(* The device.                                                             *)
(***************************************************************************)

\* A block put behind what was played.
LEMMA BlockAppended ==
    ASSUME NEW out \in Blocks, NEW n \in Nat, NEW b \in [1..n -> Sample]
    PROVE  /\ out \o b \in Blocks
           /\ Len(out \o b) = Len(out) + n
           /\ \A k \in 1..Len(out) : (out \o b)[k] = out[k]
           /\ \A k \in 1..n : (out \o b)[Len(out) + k] = b[k]
<1>1. b \in Blocks /\ Len(b) = n
  BY DEF Blocks
<1>2. QED
  BY <1>1 DEF Blocks

\* A block of n samples a step apart, and one of whole positions of the source.
StepsFrom(b, n, p, step) == b = [k \in 1..n |-> Kernel(p + (k - 1) * step)]
SourceFrom(b, n, m) == b = [k \in 1..n |-> Kernel((m + k - 1) * Unit)]

LEMMA StepsFromBlock ==
    ASSUME NEW n \in Nat, NEW p \in Nat, NEW step \in Nat, NEW b, StepsFrom(b, n, p, step)
    PROVE  b \in [1..n -> Sample] /\ \A k \in 1..n : b[k].pos = p + (k - 1) * step
<1>1. \A k \in 1..n : p + (k - 1) * step \in Nat
  <2>1. TAKE k \in 1..n
  <2>2. (k - 1) * step \in Nat
    OBVIOUS
  <2>3. QED
    BY <2>2
<1>2. QED
  BY <1>1 DEF StepsFrom, Kernel, Sample

LEMMA SourceFromBlock ==
    ASSUME NEW n \in Nat, NEW m \in Nat, NEW b, SourceFrom(b, n, m)
    PROVE  b \in [1..n -> Sample] /\ \A k \in 1..n : b[k] = Kernel((m + k - 1) * Unit)
<1>1. ASSUME NEW k \in 1..n PROVE Kernel((m + k - 1) * Unit) \in Sample
  <2> DEFINE j == m + k - 1
             p == j * Unit
  <2>1. j \in Nat
    OBVIOUS
  <2> HIDE DEF j
  <2>2. p \in Nat /\ Kernel(p) = [pos |-> p, exact |-> TRUE]
    BY <2>1, WholePosition, DriftAssumption
  <2> HIDE DEF p
  <2>3. Kernel(p) \in Sample
    BY <2>2 DEF Sample
  <2>4. QED
    BY <2>3 DEF j, p
<1>2. QED
  BY <1>1 DEF SourceFrom

\* Outputs one step apart, continuing what was played, keep it smooth.
LEMMA BlockContinues ==
    ASSUME NEW out \in Blocks, Smooth(out), NEW r \in Resampler, Continues(out, r),
           NEW step \in Nat, Magnitude(step - Unit) <= MaxEst, NEW n \in Nat,
           NEW s \in Resampler, s.pos = r.pos + n * step,
           NEW b, StepsFrom(b, n, r.pos, step)
    PROVE  Smooth(out \o b) /\ Continues(out \o b, s) /\ out \o b \in Blocks
<1> DEFINE all == out \o b
           L == Len(out)
<1>1. Unit \in Nat /\ MaxEst \in Nat /\ r.pos \in Nat /\ L \in Nat
  BY DriftAssumption DEF Resampler, Blocks
<1>2. \A k \in 1..n : b[k].pos = r.pos + (k - 1) * step
  BY <1>1, StepsFromBlock
<1>3. b \in [1..n -> Sample]
  BY <1>1, StepsFromBlock
<1>5. /\ all \in Blocks /\ Len(all) = L + n
      /\ \A k \in 1..L : all[k] = out[k]
      /\ \A k \in 1..n : all[L + k] = b[k]
  BY <1>3, BlockAppended
<1> HIDE DEF all, L
<1>6. ASSUME NEW k \in 1..(Len(all) - 1)
      PROVE  Close(all[k].pos, all[k + 1].pos)
  <2>1. CASE k < L
    <3>1. all[k] = out[k] /\ all[k + 1] = out[k + 1] /\ k \in 1..(L - 1)
      BY <1>1, <1>5, <2>1
    <3>2. QED
      BY <3>1 DEF Smooth, L
  <2>2. CASE k = L
    <3>1. n >= 1 /\ L >= 1
      BY <1>1, <1>5, <2>2
    <3>2. all[k] = out[L] /\ all[k + 1] = b[1]
      BY <1>1, <1>5, <2>2, <3>1
    <3>3. b[1].pos = r.pos
      <4>1. b[1].pos = r.pos + (1 - 1) * step
        BY <1>2, <3>1
      <4>2. (1 - 1) * step = 0
        OBVIOUS
      <4>3. QED
        BY <1>1, <4>1, <4>2
    <3>4. out # << >>
      BY <3>1 DEF L
    <3>5. QED
      BY <3>2, <3>3, <3>4 DEF Continues, L
  <2>3. CASE k > L
    <3> DEFINE j == k - L
    <3>1. j \in 1..n /\ j + 1 \in 1..n /\ k = L + j /\ k + 1 = L + (j + 1)
      BY <1>1, <1>5, <2>3
    <3> HIDE DEF j
    <3>2. all[k] = b[j] /\ all[k + 1] = b[j + 1]
      BY <1>5, <3>1
    <3>3. all[k].pos = r.pos + (j - 1) * step /\ all[k + 1].pos = r.pos + j * step
      <4>1. b[j + 1].pos = r.pos + ((j + 1) - 1) * step
        BY <1>2, <3>1
      <4>2. (j + 1) - 1 = j
        BY <3>1
      <4>3. QED
        BY <1>2, <3>1, <3>2, <4>1, <4>2
    <3>4. (r.pos + j * step) - (r.pos + (j - 1) * step) = step
      BY <1>1, <3>1
    <3>5. QED
      BY <3>3, <3>4 DEF Close
  <2>4. QED
    BY <1>1, <1>5, <2>1, <2>2, <2>3
<1>7. Continues(all, s)
  <2>1. CASE n = 0
    <3>1. s.pos = r.pos /\ Len(all) = L
      BY <1>1, <1>5, <2>1
    <3>2. all = << >> <=> out = << >>
      BY <1>5, <3>1 DEF L, Blocks
    <3>3. all # << >> => all[Len(all)] = out[Len(out)]
      <4>1. all # << >> => L \in 1..L
        BY <1>1, <1>5, <3>1 DEF Blocks
      <4>2. QED
        BY <1>5, <3>1, <4>1 DEF L
    <3>4. QED
      BY <3>1, <3>2, <3>3 DEF Continues
  <2>2. CASE n # 0
    <3>1. n \in 1..n /\ Len(all) = L + n /\ all # << >>
      BY <1>1, <1>5, <2>2
    <3>2. all[Len(all)].pos = r.pos + (n - 1) * step
      BY <1>2, <1>5, <3>1
    <3>3. s.pos - (r.pos + (n - 1) * step) = step
      BY <1>1
    <3>4. QED
      BY <3>1, <3>2, <3>3 DEF Continues, Close
  <2>3. QED
    BY <2>1, <2>2
<1>8. QED
  BY <1>5, <1>6, <1>7 DEF Smooth, all

\* Whole positions, continuing the source, are the source.
LEMMA BlockIsSource ==
    ASSUME NEW out \in Blocks, Identity(out), NEW n \in Nat,
           NEW b, SourceFrom(b, n, Len(out))
    PROVE  Identity(out \o b) /\ Len(out \o b) = Len(out) + n /\ out \o b \in Blocks
<1> DEFINE L == Len(out)
           all == out \o b
<1>1. L \in Nat /\ Unit \in Nat
  BY DriftAssumption DEF Blocks
<1>2. b \in [1..n -> Sample]
  BY <1>1, SourceFromBlock
<1>3. \A k \in 1..n : b[k] = Kernel((L + k - 1) * Unit)
  BY <1>1, SourceFromBlock
<1> HIDE DEF L
<1>5. /\ all \in Blocks /\ Len(all) = L + n
      /\ \A k \in 1..L : all[k] = out[k]
      /\ \A k \in 1..n : all[L + k] = b[k]
  BY <1>2, BlockAppended DEF L, all
<1> HIDE DEF all
<1>6. ASSUME NEW k \in DOMAIN all PROVE all[k] = Kernel((k - 1) * Unit)
  <2>1. k \in 1..(L + n)
    BY <1>5 DEF Blocks
  <2>2. CASE k <= L
    <3>1. k \in 1..L /\ k \in DOMAIN out
      BY <1>1, <2>1, <2>2 DEF L, Blocks
    <3>2. QED
      BY <1>5, <3>1 DEF Identity
  <2>3. CASE k > L
    <3> DEFINE j == k - L
    <3>1. j \in 1..n /\ k = L + j
      BY <1>1, <2>1, <2>3
    <3> HIDE DEF j
    <3>2. all[k] = b[j] /\ b[j] = Kernel((L + j - 1) * Unit)
      BY <1>3, <1>5, <3>1
    <3>3. L + j - 1 = k - 1
      BY <1>1, <3>1
    <3>4. QED
      BY <3>2, <3>3, Zenon
  <2>4. QED
    BY <1>1, <2>1, <2>2, <2>3
<1>7. QED
  BY <1>5, <1>6 DEF Identity, all, L

\* The source has no jumps.
LEMMA SourceIsSmooth ==
    ASSUME NEW out \in Blocks, Identity(out)
    PROVE  Smooth(out)
<1>1. Unit \in Nat /\ MaxEst \in Nat
  BY DriftAssumption
<1>2. ASSUME NEW k \in 1..(Len(out) - 1)
      PROVE  Close(out[k].pos, out[k + 1].pos)
  <2>1. k \in DOMAIN out /\ k + 1 \in DOMAIN out /\ k \in Nat
    BY DEF Blocks
  <2>2. out[k].pos = (k - 1) * Unit /\ out[k + 1].pos = ((k + 1) - 1) * Unit
    BY <2>1 DEF Identity, Kernel
  <2>3. ((k + 1) - 1) * Unit - (k - 1) * Unit - Unit = 0
    BY <1>1, <2>1
  <2>4. QED
    BY <1>1, <2>2, <2>3 DEF Close, Magnitude
<1>3. QED
  BY <1>2 DEF Smooth

-----------------------------------------------------------------------------
(***************************************************************************)
(* The steps.                                                              *)
(***************************************************************************)
LEMMA DriftInitial == DriftInit => DriftInv
<1> SUFFICES ASSUME DriftInit PROVE DriftInv
  OBVIOUS
<1> USE DEF DriftInit
<1>1. DriftTypeOK
  <2>1. rs \in Resampler
    BY DriftAssumption DEF ResamplerI16, Resampler
  <2>2. device \in Device
    BY DEF NullRenderSink, Device, Blocks
  <2>3. QED
    BY <2>1, <2>2 DEF DriftTypeOK
<1>2. HistoryHeld(rs)
  <2>1. KeepFrom(0) = 0
    BY FrameOf, KeepFromGrows, DriftAssumption DEF KeepFrom
  <2>2. (0 - Half) * Unit <= 0
    BY DriftAssumption
  <2>3. QED
    BY <2>1, <2>2 DEF HistoryHeld, ResamplerI16
<1>3. device.out = << >> /\ ~est.on /\ ~panicked
  BY DEF NullRenderSink, Off
<1>4. Len(device.out) = fed * FrameSamples
  BY <1>3, DriftAssumption
<1>5. QED
  BY <1>1, <1>2, <1>3, <1>4 DEF DriftInv, Smooth, Identity

\* An estimator starts with nothing applied.
LEMMA EstimatorStarts ==
    /\ Estimator \in EstimatorState
    /\ Steady(Estimator)
    /\ Estimator.applied = 0 /\ Estimator.on /\ ~Estimator.corrected
BY DriftAssumption DEF Estimator, EstimatorState, Steady, Magnitude, Observations

LEMMA EnableDriftKeeps == DriftInv /\ EnableDrift => DriftInv'
<1> SUFFICES ASSUME DriftInv, EnableDrift PROVE DriftInv'
  OBVIOUS
<1> USE DEF EnableDrift
<1>1. /\ est' = Estimator /\ rs' = ResamplerI16
      /\ UNCHANGED <<lane_repr, now, fed, device, panicked>>
      /\ fed = 0 /\ device.out = << >>
  BY DEF DriftInv
<1>2. DriftTypeOK'
  <2>1. rs' \in Resampler
    BY <1>1, DriftAssumption DEF ResamplerI16, Resampler
  <2>2. QED
    BY <1>1, <2>1, EstimatorStarts DEF DriftInv, DriftTypeOK
<1>3. HistoryHeld(rs')
  <2>1. KeepFrom(0) = 0
    BY FrameOf, KeepFromGrows, DriftAssumption DEF KeepFrom
  <2>2. (0 - Half) * Unit <= 0
    BY DriftAssumption
  <2>3. QED
    BY <1>1, <2>1, <2>2 DEF HistoryHeld, ResamplerI16
<1>4. rs'.step = Ratio(est'.applied) /\ rs'.pos = 0 /\ rs'.total = 0
  BY <1>1, EstimatorStarts, DriftAssumption DEF ResamplerI16, Ratio
<1>5. Steady(est') /\ est'.on /\ ~est'.corrected /\ est'.applied = 0
  BY <1>1, EstimatorStarts
<1>6. Len(device'.out) = 0 /\ 0 * FrameSamples = 0 /\ 0 * Unit = 0
  BY <1>1, DriftAssumption
<1>7. Smooth(device'.out) /\ Identity(device'.out) /\ Continues(device'.out, rs')
  BY <1>1, <1>4 DEF DriftInv, Smooth, Identity, Continues
<1>8. QED
  BY <1>1, <1>2, <1>3, <1>4, <1>5, <1>6, <1>7 DEF DriftInv

\* What the device makes of a block.
LEMMA RenderAppends ==
    ASSUME NEW d \in Device, NEW ms \in Int, NEW b, d.out \o b \in Blocks,
           NEW e, e = render(d, b, ms)
    PROVE  e \in Device /\ e.out = d.out \o b
<1> DEFINE all == d.out \o b
           late == IF MaxGap > 0 /\ d.last # -1 /\ ms - d.last > MaxGap
                   THEN d.underruns + 1 ELSE d.underruns
<1>1. e = [out |-> all, last |-> ms, underruns |-> late]
  BY DEF render
<1>2. late \in Nat /\ all \in Blocks
  BY DEF Device
<1> HIDE DEF late, all
<1>3. QED
  BY <1>1, <1>2 DEF Device, all

\* What a frame rendered without an estimator leaves.
LEMMA PlainFrameKeeps ==
    ASSUME DriftInv, NEW g \in Gaps, RenderFrame(g), ~est.on
    PROVE  DriftInv'
<1>1. /\ now' = now + g /\ fed' = fed + 1
      /\ device' = render(device, Plain(fed + 1), now + g)
      /\ UNCHANGED <<lane_repr, est, rs, panicked>>
  BY DEF RenderFrame, advance_ms
<1>2. /\ fed \in Nat /\ now + g \in Nat /\ FrameSamples \in Nat
      /\ device \in Device /\ device.out \in Blocks
      /\ Identity(device.out) /\ Len(device.out) = fed * FrameSamples
  <2>1. now + g \in Nat
    BY DriftAssumption DEF DriftInv, DriftTypeOK
  <2>2. QED
    BY <2>1, DriftAssumption DEF DriftInv, DriftTypeOK, Device
<1> DEFINE b == Plain(fed + 1)
<1>3. SourceFrom(b, FrameSamples, Len(device.out))
  <2>1. \A k \in 1..FrameSamples :
          ((fed + 1) - 1) * FrameSamples + k - 1 = Len(device.out) + k - 1
    BY <1>2
  <2>2. QED
    BY <2>1 DEF Plain, SourceFrom
<1> HIDE DEF b
<1>4. /\ Identity(device.out \o b) /\ device.out \o b \in Blocks
      /\ Len(device.out \o b) = Len(device.out) + FrameSamples
  BY <1>2, <1>3, BlockIsSource
<1>5. /\ device' \in Device /\ device'.out = device.out \o b
      /\ Identity(device'.out) /\ device'.out \in Blocks
      /\ Len(device'.out) = Len(device.out) + FrameSamples
  <2> DEFINE t == now + g
  <2>1. t \in Int /\ device' = render(device, b, t)
    BY <1>1, <1>2 DEF b
  <2> HIDE DEF t
  <2>2. device' \in Device /\ device'.out = device.out \o b
    BY <1>2, <1>4, <2>1, RenderAppends
  <2>3. QED
    BY <1>4, <2>2
<1>6. Len(device'.out) = fed' * FrameSamples
  BY <1>1, <1>2, <1>5
<1>7. Smooth(device'.out)
  BY <1>5, SourceIsSmooth
<1>8. DriftTypeOK'
  BY <1>1, <1>2, <1>5 DEF DriftInv, DriftTypeOK
<1>9. fed' # 0
  BY <1>1, <1>2
<1>10. QED
  BY <1>1, <1>5, <1>6, <1>7, <1>8, <1>9 DEF DriftInv

\* What the estimator, the resampler and the device make of a frame that comes
\* g ms after the one before and gives n outputs.
Rendered(n, g) ==
    /\ est' \in EstimatorState /\ Steady(est') /\ Moves(est, est')
    /\ rs' \in Resampler /\ HistoryHeld(rs')
    /\ rs'.step = Ratio(est'.applied)
    /\ rs'.total = rs.total + FrameSamples
    /\ rs'.pos = rs.pos + n * rs'.step
    /\ ~panicked' /\ panicked' \in BOOLEAN
    /\ device' = render(device, [k \in 1..n |-> Kernel(rs.pos + (k - 1) * rs'.step)], now + g)
    /\ now' = now + g /\ fed' = fed + 1 /\ lane_repr' = lane_repr

LEMMA CorrectedFrame ==
    ASSUME DriftInv, NEW g \in Gaps, RenderFrame(g), est.on
    PROVE  \E n \in Nat : Rendered(n, g)
<1> DEFINE u == sample_frame(est, rs.step, fed, now + g)
           r == [rs EXCEPT !.step = u[2]]
           p == process(r, FrameSamples)
           n == Outputs([r EXCEPT !.total = @ + FrameSamples])
<1>1. /\ now' = now + g /\ fed' = fed + 1 /\ lane_repr' = lane_repr
      /\ est' = u[1] /\ panicked' = ~p.ok /\ rs' = p.rs
      /\ device' = render(device, p.out, now + g)
  BY DEF RenderFrame, Corrected, advance_ms
<1>2. /\ est \in EstimatorState /\ Steady(est) /\ rs.step = Ratio(est.applied)
      /\ rs \in Resampler /\ HistoryHeld(rs)
      /\ fed \in Nat /\ now + g \in Nat
  <2>1. est \in EstimatorState
    BY DEF DriftInv, DriftTypeOK, Off
  <2>2. now + g \in Nat
    BY DriftAssumption DEF DriftInv, DriftTypeOK
  <2>3. QED
    BY <2>1, <2>2 DEF DriftInv, DriftTypeOK, Resampler
<1>3. InOrder(est, u)
  BY <1>2, SampleIsInOrder
<1> HIDE DEF u
<1>4. u[1] \in EstimatorState /\ Steady(u[1]) /\ Moves(est, u[1]) /\ u[2] = Ratio(u[1].applied)
  BY <1>3 DEF InOrder
<1>5. u[2] \in 1..(2 * Unit)
  <2>1. u[1].applied \in Int /\ Magnitude(u[1].applied) <= MaxEst
    BY <1>4 DEF EstimatorState, Steady
  <2>2. QED
    BY <1>4, <2>1, DriftAssumption DEF Ratio, Magnitude
<1>6. r \in Resampler /\ r.step = u[2] /\ r.pos = rs.pos /\ r.total = rs.total /\ r.first = rs.first
  <2>1. u[2] \in Int
    BY <1>5, DriftAssumption
  <2>2. QED
    BY <1>2, <2>1 DEF Resampler
<1>7. HistoryHeld(r)
  BY <1>2, <1>6 DEF HistoryHeld
<1> HIDE DEF r
<1>8. /\ n \in Nat
      /\ p.out = [k \in 1..n |-> Kernel(r.pos + (k - 1) * r.step)]
      /\ p.ok
      /\ p.rs \in Resampler /\ HistoryHeld(p.rs)
      /\ p.rs.step = r.step
      /\ p.rs.total = r.total + FrameSamples
      /\ p.rs.pos = r.pos + n * r.step
  BY <1>5, <1>6, <1>7, ProcessHolds
<1> HIDE DEF n, p
<1>9. p.out = [k \in 1..n |-> Kernel(rs.pos + (k - 1) * rs'.step)]
  BY <1>1, <1>6, <1>8
<1>10. Rendered(n, g)
  BY <1>1, <1>4, <1>6, <1>8, <1>9 DEF Rendered
<1>11. QED
  BY <1>8, <1>10

LEMMA CorrectedFrameKeeps ==
    ASSUME DriftInv, NEW g \in Gaps, RenderFrame(g), est.on
    PROVE  DriftInv'
<1>1. PICK n \in Nat : Rendered(n, g)
  BY CorrectedFrame
<1> DEFINE b == [k \in 1..n |-> Kernel(rs.pos + (k - 1) * rs'.step)]
<1>2. /\ est' \in EstimatorState /\ Steady(est') /\ Moves(est, est')
      /\ rs' \in Resampler /\ HistoryHeld(rs')
      /\ rs'.step = Ratio(est'.applied)
      /\ rs'.total = rs.total + FrameSamples
      /\ rs'.pos = rs.pos + n * rs'.step
      /\ ~panicked' /\ panicked' \in BOOLEAN
      /\ now' = now + g /\ fed' = fed + 1 /\ lane_repr' = lane_repr
  BY <1>1 DEF Rendered
<1>3. device' = render(device, b, now + g) /\ StepsFrom(b, n, rs.pos, rs'.step)
  BY <1>1 DEF Rendered, StepsFrom
<1> HIDE DEF b
<1>4. /\ fed \in Nat /\ now + g \in Nat /\ rs \in Resampler
      /\ FrameSamples \in Nat \ {0} /\ Unit \in Nat \ {0} /\ Half \in Nat \ {0}
      /\ device \in Device /\ device.out \in Blocks
      /\ Smooth(device.out) /\ Continues(device.out, rs) /\ rs.total = fed * FrameSamples
  <2>1. now + g \in Nat
    BY DriftAssumption DEF DriftInv, DriftTypeOK
  <2>2. QED
    BY <2>1, DriftAssumption DEF DriftInv, DriftTypeOK, Device
<1>5. est'.applied \in Int /\ Magnitude(est'.applied) <= MaxEst /\ est'.on = TRUE
  BY <1>2 DEF EstimatorState, Steady
<1>6. rs'.step \in Nat /\ Magnitude(rs'.step - Unit) <= MaxEst
  BY <1>2, <1>5, DriftAssumption DEF Ratio, Magnitude
<1>7. /\ device' \in Device /\ device'.out = device.out \o b /\ device'.out \in Blocks
      /\ Smooth(device'.out) /\ Continues(device'.out, rs')
  <2>1. /\ Smooth(device.out \o b) /\ Continues(device.out \o b, rs')
        /\ device.out \o b \in Blocks
    BY <1>2, <1>3, <1>4, <1>6, BlockContinues
  <2> DEFINE t == now + g
  <2>2. t \in Int /\ device' = render(device, b, t)
    BY <1>3, <1>4
  <2> HIDE DEF t
  <2>3. device' \in Device /\ device'.out = device.out \o b
    BY <1>4, <2>1, <2>2, RenderAppends
  <2>4. QED
    BY <2>1, <2>3
<1>8. rs'.total = fed' * FrameSamples
  BY <1>2, <1>4
<1>9. ASSUME ~est'.corrected
      PROVE  /\ Identity(device'.out)
             /\ rs'.pos = Len(device'.out) * Unit
             /\ Len(device'.out) <= rs'.total
  <2>1. ~est.corrected
    BY <1>2, <1>9 DEF Moves
  <2>2. /\ Identity(device.out) /\ rs.pos = Len(device.out) * Unit
        /\ Len(device.out) <= rs.total
    BY <2>1 DEF DriftInv
  <2>3. rs'.step = Unit
    BY <1>2, <1>4, <1>9 DEF Steady, Ratio
  <2> DEFINE L == Len(device.out)
  <2>4. L \in Nat
    BY <1>4 DEF Blocks
  <2>5. SourceFrom(b, n, L)
    <3>1. \A k \in 1..n : rs.pos + (k - 1) * rs'.step = (L + k - 1) * Unit
      <4> HIDE DEF L
      <4>1. rs.pos = L * Unit
        BY <2>2 DEF L
      <4>2. QED
        BY <1>4, <2>3, <2>4, <4>1
    <3>2. QED
      BY <1>3, <3>1 DEF StepsFrom, SourceFrom
  <2>6. Identity(device'.out) /\ Len(device'.out) = L + n
    BY <1>3, <1>4, <1>7, <2>2, <2>5, BlockIsSource
  <2> DEFINE M == Len(device'.out)
  <2>7. M \in Nat /\ M = L + n
    BY <1>7, <2>6 DEF Blocks
  <2>8. rs'.pos = M * Unit
    <3> HIDE DEF M, L
    <3>1. rs.pos = L * Unit
      BY <2>2 DEF L
    <3>2. QED
      BY <1>2, <1>4, <2>3, <2>4, <2>7, <3>1
  <2>9. M <= rs'.total
    <3> HIDE DEF M
    <3>1. rs'.total \in Nat /\ rs'.pos \in Nat
      BY <1>2 DEF Resampler
    <3>2. SUFFICES ASSUME rs'.total + 1 <= M PROVE FALSE
      BY <2>7, <3>1
    <3>3. rs'.pos # 0
      BY <1>4, <2>7, <2>8, <3>1, <3>2
    <3>4. rs'.pos < (rs'.total - Half + 2) * Unit
      BY <1>2, <3>3 DEF HistoryHeld
    <3>5. M * Unit < (rs'.total - Half + 2) * Unit
      BY <2>8, <3>4
    <3> DEFINE c == rs'.total - Half + 2
    <3>6. c \in Int
      BY <1>4, <3>1
    <3> HIDE DEF c
    <3>7. M < c
      <4>1. SUFFICES ASSUME c <= M PROVE FALSE
        BY <2>7, <3>6
      <4>2. c * Unit <= M * Unit
        BY <1>4, <2>7, <3>6, <4>1
      <4>3. c * Unit \in Int /\ M * Unit \in Int
        BY <1>4, <2>7, <3>6
      <4>4. QED
        BY <3>5, <4>2, <4>3 DEF c
    <3>8. QED
      BY <1>4, <2>7, <3>1, <3>2, <3>7 DEF c
  <2>10. QED
    BY <2>6, <2>8, <2>9
<1>10. DriftTypeOK'
  <2>1. now' \in Nat /\ fed' \in Nat
    BY <1>2, <1>4
  <2>2. lane_repr \in {"i16", "i24"}
    BY DEF DriftInv, DriftTypeOK
  <2>3. QED
    BY <1>2, <1>7, <2>1, <2>2 DEF DriftTypeOK
<1>11. fed' # 0
  BY <1>2, <1>4
<1>12. QED
  BY <1>2, <1>5, <1>7, <1>8, <1>9, <1>10, <1>11 DEF DriftInv

-----------------------------------------------------------------------------
(***************************************************************************)
(* The theorems.                                                           *)
(***************************************************************************)
LEMMA DriftStep == DriftInv /\ [DriftNext]_driftVars => DriftInv'
<1> SUFFICES ASSUME DriftInv, [DriftNext]_driftVars PROVE DriftInv'
  OBVIOUS
<1>1. CASE EnableDrift
  BY <1>1, EnableDriftKeeps
<1>2. ASSUME NEW g \in Gaps, RenderFrame(g) PROVE DriftInv'
  BY <1>2, PlainFrameKeeps, CorrectedFrameKeeps
<1>3. CASE UNCHANGED driftVars
  BY <1>3 DEF driftVars, DriftInv, DriftTypeOK
<1>4. QED
  BY <1>1, <1>2, <1>3 DEF DriftNext

\* The state of estimator, resampler and device is in order after every frame,
\* whatever the times of rendering were.
THEOREM DriftInvariance == DriftSpec => []DriftInv
<1>1. DriftInit => DriftInv
  BY DriftInitial
<1>2. DriftInv /\ [DriftNext]_driftVars => DriftInv'
  BY DriftStep
<1>3. QED
  BY <1>1, <1>2, PTL DEF DriftSpec

\* The resampler never reads frames it has trimmed, keeps a bounded history and
\* never jumps, for every sequence of corrections the estimator can choose
\* (trim_history, set_ratio, process).
THEOREM CorrectionNeverClicks == DriftSpec => []ContinuousOutput
<1>1. DriftInv => ContinuousOutput
  <2> SUFFICES ASSUME DriftInv PROVE ContinuousOutput
    OBVIOUS
  <2>1. \A k \in 1..(Len(device.out) - 1) :
          Magnitude(device.out[k + 1].pos - device.out[k].pos - Unit) <= MaxEst
    BY DEF DriftInv, Smooth, Close
  <2>2. rs.total - rs.first <= 2 * Half + FrameSamples + 1
    <3>1. /\ rs.pos \in Nat /\ rs.total \in Nat /\ rs.first = KeepFrom(rs.pos)
          /\ (rs.total - Half) * Unit <= rs.pos
      BY DEF DriftInv, DriftTypeOK, Resampler, HistoryHeld
    <3>2. /\ Half \in Nat /\ FrameSamples \in Nat /\ rs.total - Half \in Int
      BY <3>1, DriftAssumption
    <3> DEFINE c == rs.total - Half
    <3>3. c \in Int /\ c * Unit <= rs.pos
      BY <3>1, <3>2
    <3> HIDE DEF c
    <3>4. rs.pos \div Unit \in Nat /\ c <= rs.pos \div Unit
      BY <3>1, <3>3, FrameOf
    <3>5. QED
      BY <3>1, <3>2, <3>4 DEF KeepFrom, c
  <2>3. QED
    BY <2>1, <2>2 DEF ContinuousOutput, DriftInv
<1>2. QED
  BY <1>1, DriftInvariance, PTL

\* A report that nothing was corrected is true: the device played the source,
\* sample for sample, up to the interpolator's lookahead (DriftReport).
THEOREM BitExactReportIsTrue == DriftSpec => []BitExactIsIdentity
<1>1. DriftInv => BitExactIsIdentity
  <2> SUFFICES ASSUME DriftInv PROVE BitExactIsIdentity
    OBVIOUS
  <2> DEFINE L == Len(device.out)
  <2>1. /\ L \in Nat /\ fed * FrameSamples \in Nat /\ Half \in Nat \ {0} /\ Unit \in Nat \ {0}
    BY DriftAssumption DEF DriftInv, DriftTypeOK, Device, Blocks
  <2>2. ~est.on => L = fed * FrameSamples
    BY DEF DriftInv
  <2>3. ASSUME est.on, ~est.corrected PROVE fed * FrameSamples - L \in 0..Half
    <3>1. /\ rs.pos = L * Unit /\ L <= rs.total /\ rs.total = fed * FrameSamples
          /\ (rs.total - Half) * Unit <= rs.pos
      BY <2>3 DEF DriftInv, HistoryHeld
    <3>2. rs.total \in Nat
      BY <2>1, <3>1
    <3> HIDE DEF L
    <3>3. rs.total - Half <= L
      <4> DEFINE c == rs.total - Half
      <4>1. c \in Int /\ c * Unit <= L * Unit
        BY <2>1, <3>1, <3>2
      <4> HIDE DEF c
      <4>2. c <= L
        <5>1. SUFFICES ASSUME L + 1 <= c PROVE FALSE
          BY <2>1, <4>1
        <5>2. (L + 1) * Unit <= c * Unit
          BY <2>1, <4>1, <5>1
        <5>3. (L + 1) * Unit = L * Unit + Unit /\ L * Unit \in Int /\ c * Unit \in Int
          BY <2>1, <4>1
        <5>4. QED
          BY <2>1, <4>1, <5>2, <5>3
      <4>3. QED
        BY <4>2 DEF c
    <3>4. QED
      BY <2>1, <3>1, <3>2, <3>3
  <2>4. ASSUME ~est.on \/ ~est.corrected PROVE Identity(device.out)
    BY <2>4 DEF DriftInv
  <2>5. Identity(device.out) =>
          \A k \in DOMAIN device.out :
            device.out[k].exact /\ device.out[k].pos = (k - 1) * Unit
    <3> SUFFICES ASSUME Identity(device.out), NEW k \in DOMAIN device.out
                 PROVE  device.out[k].exact /\ device.out[k].pos = (k - 1) * Unit
      OBVIOUS
    <3> DEFINE j == k - 1
    <3>1. j \in Nat /\ device.out[k] = Kernel(j * Unit)
      BY DEF Identity, DriftInv, DriftTypeOK, Device, Blocks
    <3> HIDE DEF j
    <3>2. device.out[k] = [pos |-> j * Unit, exact |-> TRUE]
      BY <3>1, WholePosition
    <3>3. QED
      BY <3>2 DEF j
  <2>6. QED
    BY <2>2, <2>3, <2>4, <2>5 DEF BitExactIsIdentity, DriftReport
<1>2. QED
  BY <1>1, DriftInvariance, PTL

\* The correction moves by at most a slew step a frame, and never across the
\* deadband to the other sign; the latter only because a step is shorter than
\* the deadband is wide, as DriftConfig::default has it (0.75 and 2 * 0.5 ppm).
THEOREM CorrectionIsSlewed ==
    ASSUME MaxStep < 2 * Deadband
    PROVE  DriftSpec => NoOscillation
<1> DEFINE Slewed == est.on /\ est'.on =>
                       /\ Magnitude(est'.applied - est.applied) <= MaxStep
                       /\ est'.applied * est.applied >= 0
<1>1. ASSUME DriftInv, [DriftNext]_driftVars, est.on, est'.on
      PROVE  /\ Magnitude(est'.applied - est.applied) <= MaxStep
             /\ est'.applied * est.applied >= 0
  <2>1. est \in EstimatorState /\ Steady(est)
    BY <1>1 DEF DriftInv, DriftTypeOK, Off
  <2>2. ASSUME est' \in EstimatorState, Moves(est, est')
        PROVE  /\ Magnitude(est'.applied - est.applied) <= MaxStep
               /\ est'.applied * est.applied >= 0
    <3>1. est.applied \in Int /\ est'.applied \in Int
      BY <2>1, <2>2 DEF EstimatorState
    <3>2. /\ Magnitude(est'.applied - est.applied) <= MaxStep
          /\ est.applied > 0 => est'.applied >= 0
          /\ est.applied < 0 => est'.applied <= 0
      BY <2>2 DEF Moves
    <3>3. est'.applied * est.applied >= 0
      <4>1. CASE est.applied > 0
        BY <3>1, <3>2, <4>1
      <4>2. CASE est.applied < 0
        BY <3>1, <3>2, <4>2
      <4>3. CASE est.applied = 0
        BY <3>1, <4>3
      <4>4. QED
        BY <3>1, <4>1, <4>2, <4>3
    <3>4. QED
      BY <3>2, <3>3
  <2>3. CASE EnableDrift
    <3>1. est'.applied = 0 /\ est.applied = 0
      BY <1>1, <2>3, EstimatorStarts DEF EnableDrift, DriftInv
    <3>2. QED
      BY <3>1, DriftAssumption DEF Magnitude
  <2>4. ASSUME NEW g \in Gaps, RenderFrame(g)
        PROVE  /\ Magnitude(est'.applied - est.applied) <= MaxStep
               /\ est'.applied * est.applied >= 0
    <3>1. PICK n \in Nat : Rendered(n, g)
      BY <1>1, <2>4, CorrectedFrame
    <3>2. QED
      BY <2>2, <3>1 DEF Rendered
  <2>5. CASE UNCHANGED driftVars
    <3>1. est' = est /\ est.applied \in Int
      BY <2>1, <2>5 DEF driftVars, EstimatorState
    <3>2. Moves(est, est')
      BY <2>1, <3>1, StaysInOrder DEF InOrder
    <3>3. QED
      BY <2>1, <2>2, <3>1, <3>2
  <2>6. QED
    BY <1>1, <2>3, <2>4, <2>5 DEF DriftNext
<1>2. DriftInv /\ [DriftNext]_driftVars => Slewed
  BY <1>1
<1>3. QED
  <2>1. DriftInv /\ [DriftNext]_driftVars => [Slewed]_driftVars
    BY <1>2
  <2>2. QED
    BY <2>1, DriftInvariance, PTL DEF DriftSpec, NoOscillation

-----------------------------------------------------------------------------
(***************************************************************************)
(* Wire.                                                                   *)
(***************************************************************************)

\* What a frame's fields are, and how long its encoding can be.
LEMMA FrameFields ==
    ASSUME NEW f \in OwnFrames \cup OtherFrames
    PROVE  f.codec \in Codec /\ f.stream_id \in {1, 2} /\ f.payload \in Nat
<1>1. ASSUME NEW c \in Codec, NEW repr, NEW w, NEW n \in Nat
      PROVE  /\ make_frame(c, repr, w, n).codec \in Codec
             /\ make_frame(c, repr, w, n).stream_id = 1
             /\ make_frame(c, repr, w, n).payload = n
  <2>1. CASE c = "Opus"
    BY <2>1 DEF make_frame, new_lossy
  <2>2. CASE c # "Opus"
    BY <2>2 DEF make_frame, new_lossless
  <2>3. QED
    BY <2>1, <2>2
<1>2. CASE f \in OwnFrames
  <2> DEFINE Coded == {make_frame(c, "I16", w, n) :
                         c \in {"Opus", "Flac"}, w \in BOOLEAN, n \in Payloads}
             Uncoded == {make_frame("Pcm", "I24Packed", FALSE, n) : n \in Payloads}
  <2>1. f \in Coded \cup Uncoded
    <3>1. OwnFrames = Coded \cup Uncoded
      BY DEF OwnFrames
    <3> HIDE DEF Coded, Uncoded
    <3>2. QED
      BY <1>2, <3>1
  <2>2. CASE f \in Coded
    <3>1. PICK c \in {"Opus", "Flac"}, w \in BOOLEAN, n \in Payloads :
            f = make_frame(c, "I16", w, n)
      BY <2>2
    <3>2. c \in Codec /\ n \in Nat
      BY WireAssumption DEF Codec
    <3>3. QED
      BY <1>1, <3>1, <3>2
  <2>3. CASE f \in Uncoded
    <3>1. PICK n \in Payloads : f = make_frame("Pcm", "I24Packed", FALSE, n)
      BY <2>3
    <3>2. f.codec = "Pcm" /\ f.stream_id = 1 /\ f.payload = n
      BY <3>1 DEF make_frame, new_lossless
    <3>3. QED
      BY <3>2, WireAssumption DEF Codec
  <2> HIDE DEF Coded, Uncoded
  <2>4. QED
    BY <2>1, <2>2, <2>3
<1>3. CASE f \in OtherFrames
  <2>1. PICK h : h = [version |-> FRAME_VERSION, stream_id |-> 1, wide |-> FALSE,
                      codec |-> "Flac", sample_repr |-> "I16", integrity |-> "Crc32",
                      crc |-> crc32(0), payload |-> 0]
    OBVIOUS
  <2>2. make_frame("Flac", "I16", FALSE, 0) = h
    BY <2>1 DEF make_frame, new_lossless
  <2>3. f \in {[h EXCEPT !.version = 2], [h EXCEPT !.stream_id = 2],
               [h EXCEPT !.sample_repr = "F32"], [h EXCEPT !.integrity = "None"],
               [h EXCEPT !.crc = "none"], [h EXCEPT !.crc = "differ"]}
    BY <1>3, <2>2 DEF OtherFrames
  <2>4. f.codec = "Flac" /\ f.stream_id \in {1, 2} /\ f.payload = 0
    BY <2>1, <2>3
  <2>5. QED
    BY <2>4 DEF Codec
<1>4. QED
  BY <1>2, <1>3

LEMMA FrameLength ==
    ASSUME NEW f, f.payload \in Nat
    PROVE  FrameLen(f) \in Nat /\ FrameLen(f) <= 52 + f.payload
<1>1. /\ VarInt(16) = 3 /\ VarInt(32) = 5 /\ VarInt(64) = 10
  BY DEF VarInt
<1>2. LengthLen(f.payload) \in 1..3
  BY DEF LengthLen
<1>3. QED
  BY <1>1, <1>2 DEF FrameLen

LEMMA ItemFields ==
    ASSUME NEW it \in Items
    PROVE  /\ it.len \in Nat
           /\ it.kind = "audio" =>
                /\ it.frame \in OwnFrames \cup OtherFrames
                /\ it.len = FrameLen(it.frame) /\ it.frame.payload <= MaxFramePayload
<1>1. CASE it \in {wrap_frame(f) : f \in {g \in OwnFrames \cup OtherFrames : FramePack(g).ok}}
  <2>1. PICK f \in OwnFrames \cup OtherFrames : FramePack(f).ok /\ it = wrap_frame(f)
    BY <1>1
  <2>2. f.payload \in Nat /\ FrameLen(f) \in Nat
    BY FrameFields, FrameLength
  <2>3. f.payload <= MaxFramePayload /\ FramePack(f).len = FrameLen(f)
    BY <2>1, <2>2, WireAssumption DEF FramePack, Ok, Err
  <2>4. QED
    BY <2>1, <2>2, <2>3 DEF wrap_frame
<1>2. CASE it \in {pack_known_end, Garbage(9), Garbage(MAX_FRAME_TOTAL + 14)}
  BY <1>2, WireAssumption DEF pack_known_end, Garbage, MAX_FRAME_TOTAL, HeaderMax, EndLen
<1>3. QED
  BY <1>1, <1>2 DEF Items

\* An item that parses is an end marker or a frame within the bounds, and no
\* item past the decoder's bound parses.
LEMMA Parses ==
    ASSUME NEW it \in Items, parse(it).ok
    PROVE  /\ it.len <= MAX_FRAME_TOTAL + 13
           /\ is_end(it) \/ it.kind = "audio"
<1>1. CASE is_end(it)
  BY <1>1, WireAssumption DEF is_end, EndLen, MAX_FRAME_TOTAL, HeaderMax
<1>2. CASE ~ is_end(it)
  <2>1. FrameUnpack(it).ok
    BY <1>2 DEF parse, Err
  <2>2. it.len <= HeaderMax + MaxFramePayload /\ FrameVisit(it)
    BY <2>1, ItemFields, WireAssumption DEF FrameUnpack, decode_postcard, Err, HeaderMax
  <2>3. QED
    BY <2>2, ItemFields, WireAssumption DEF FrameVisit, MAX_FRAME_TOTAL, HeaderMax
<1>3. QED
  BY <1>1, <1>2

\* Positions on the stream.
StartsOf(at, n, s) == at = [i \in 1..n |-> IF i = 1 THEN 0 ELSE at[i - 1] + 2 + s[i - 1].len]

LEMMA StartsExist ==
    ASSUME NEW s, NEW n \in Nat
    PROVE  \E at : StartsOf(at, n, s)
<1> DEFINE T == {m \in Nat : \E at : StartsOf(at, m, s)}
<1>1. 0 \in T
  <2>1. 1..0 = {}
    OBVIOUS
  <2>2. StartsOf([i \in {} |-> 0], 0, s)
    BY <2>1 DEF StartsOf
  <2>3. QED
    BY <2>2
<1>2. ASSUME NEW m \in T PROVE m + 1 \in T
  <2>1. PICK at : StartsOf(at, m, s)
    OBVIOUS
  <2>2. PICK more : more = [i \in 1..(m + 1) |->
                             IF i = 1 THEN 0 ELSE at[i - 1] + 2 + s[i - 1].len]
    OBVIOUS
  <2>3. \A i \in 1..m : more[i] = at[i]
    BY <2>1, <2>2 DEF StartsOf
  <2>4. \A i \in 1..(m + 1) : i # 1 => more[i - 1] = at[i - 1]
    BY <2>3
  <2>5. more = [i \in 1..(m + 1) |-> IF i = 1 THEN 0 ELSE more[i - 1] + 2 + s[i - 1].len]
    BY <2>2, <2>4
  <2>6. QED
    BY <2>5 DEF StartsOf
<1>3. T = Nat
  <2> HIDE DEF T
  <2>1. T \in SUBSET Nat
    BY DEF T
  <2>2. QED
    BY <1>1, <1>2, <2>1, HoldsEveryNumber
<1>4. QED
  BY <1>3

LEMMA StartUnfolds ==
    ASSUME items \in Seq(Items)
    PROVE  /\ Start(1) = 0
           /\ \A i \in 1..Len(items) : Start(i + 1) = Start(i) + 2 + items[i].len
<1> DEFINE n == Len(items) + 1
           at == CHOOSE a : StartsOf(a, n, items)
<1>1. n \in Nat \ {0}
  OBVIOUS
<1>2. StartsOf(at, n, items)
  BY <1>1, StartsExist
<1>3. \A i : Start(i) = at[i]
  BY DEF Start, StartsOf
<1> HIDE DEF at
<1>4. \A i \in 1..n : at[i] = IF i = 1 THEN 0 ELSE at[i - 1] + 2 + items[i - 1].len
  BY <1>2 DEF StartsOf
<1>5. ASSUME NEW i \in 1..Len(items) PROVE at[i + 1] = at[i] + 2 + items[i].len
  <2>1. i + 1 \in 1..n /\ i + 1 # 1 /\ (i + 1) - 1 = i
    BY LenProperties
  <2>2. QED
    BY <1>4, <2>1
<1>6. QED
  BY <1>1, <1>3, <1>4, <1>5

LEMMA StartsGrow ==
    ASSUME items \in Seq(Items)
    PROVE  /\ \A i \in 1..(Len(items) + 1) : Start(i) \in Nat
           /\ \A i, j \in 1..(Len(items) + 1) : i < j => Start(i) < Start(j)
<1> DEFINE n == Len(items) + 1
           T == {m \in Nat : m + 1 <= n => Start(m + 1) \in Nat}
           U == {m \in Nat : \A i \in 1..n : i + m + 1 <= n => Start(i) < Start(i + m + 1)}
<1>1. n \in Nat /\ \A i \in 1..Len(items) : items[i].len \in Nat
  <2>1. Len(items) \in Nat /\ \A i \in 1..Len(items) : items[i] \in Items
    BY LenProperties, ElementOfSeq
  <2>2. QED
    BY <2>1, ItemFields
<1>2. 0 \in T
  BY StartUnfolds
<1>3. ASSUME NEW m \in T PROVE m + 1 \in T
  <2>1. CASE (m + 1) + 1 <= n
    <3>1. m + 1 \in 1..Len(items) /\ Start(m + 1) \in Nat
      BY <2>1, LenProperties
    <3>2. Start((m + 1) + 1) = Start(m + 1) + 2 + items[m + 1].len
      BY <3>1, StartUnfolds
    <3>3. items[m + 1].len \in Nat
      BY <1>1, <3>1
    <3>4. QED
      BY <3>1, <3>2, <3>3
  <2>2. QED
    BY <2>1
<1>4. T = Nat
  <2> HIDE DEF T
  <2>1. T \in SUBSET Nat
    BY DEF T
  <2>2. QED
    BY <1>2, <1>3, <2>1, HoldsEveryNumber
<1>5. ASSUME NEW i \in 1..n PROVE Start(i) \in Nat
  <2>1. i - 1 \in Nat /\ (i - 1) + 1 = i
    OBVIOUS
  <2>2. i - 1 \in T
    BY <1>4, <2>1
  <2>3. QED
    BY <2>1, <2>2
<1>6. ASSUME NEW i \in 1..Len(items) PROVE Start(i) < Start(i + 1)
  <2>1. i \in 1..n
    OBVIOUS
  <2>2. Start(i + 1) = Start(i) + 2 + items[i].len
    BY StartUnfolds
  <2>3. Start(i) \in Nat /\ items[i].len \in Nat
    BY <1>1, <1>5, <2>1
  <2>4. QED
    BY <2>2, <2>3
<1>7. 0 \in U
  BY <1>6
<1>8. ASSUME NEW m \in U PROVE m + 1 \in U
  <2>1. ASSUME NEW i \in 1..n, i + (m + 1) + 1 <= n PROVE Start(i) < Start(i + (m + 1) + 1)
    <3>1. i + m + 1 \in 1..Len(items) /\ i + (m + 1) + 1 = (i + m + 1) + 1
          /\ i + m + 1 \in 1..n /\ (i + m + 1) + 1 \in 1..n
      BY <2>1
    <3>2. Start(i) < Start(i + m + 1)
      BY <3>1
    <3>3. Start(i + m + 1) < Start((i + m + 1) + 1)
      BY <1>6, <3>1
    <3>4. /\ Start(i) \in Nat /\ Start(i + m + 1) \in Nat
          /\ Start((i + m + 1) + 1) \in Nat
      BY <1>5, <3>1
    <3>5. QED
      BY <3>1, <3>2, <3>3, <3>4
  <2>2. QED
    BY <2>1
<1>9. U = Nat
  <2> HIDE DEF U
  <2>1. U \in SUBSET Nat
    BY DEF U
  <2>2. QED
    BY <1>7, <1>8, <2>1, HoldsEveryNumber
<1>10. ASSUME NEW i \in 1..n, NEW j \in 1..n, i < j PROVE Start(i) < Start(j)
  <2>1. (j - i) - 1 \in Nat /\ i + ((j - i) - 1) + 1 = j
    BY <1>10
  <2>2. (j - i) - 1 \in U
    BY <1>9, <2>1
  <2>3. QED
    BY <2>1, <2>2
<1>11. QED
  BY <1>5, <1>10

LEMMA MaxIsNat == MAX_FRAME_TOTAL + 13 \in Nat
BY WireAssumption DEF MAX_FRAME_TOTAL, HeaderMax

\* What one call of the decoder does, given that it starts at an item.
LEMMA DecoderStops ==
    ASSUME items \in Seq(Items), NEW first \in 1..(Len(items) + 1), NEW to
    PROVE  LET t == take_stream_items(Start(first), to)
           IN  \E stop \in first..(Len(items) + 1) :
                 /\ ~ Takes(stop, to) /\ \A k \in first..(stop - 1) : Takes(k, to)
                 /\ t.taken = [k \in 1..(stop - first) |-> first + k - 1]
                 /\ t.from = IF Complete(stop, to) THEN Start(stop + 1) ELSE Start(stop)
<1> DEFINE n == Len(items) + 1
           stop == LeavesOff(first, to)
<1>1. n \in Nat /\ first \in 1..n
  BY LenProperties
<1>2. ItemAt(Start(first)) = first
  <2>1. PICK begin : begin = ItemAt(Start(first))
    OBVIOUS
  <2>2. begin \in 1..n /\ Start(begin) = Start(first)
    BY <1>1, <2>1 DEF ItemAt
  <2>3. ~ (begin < first) /\ ~ (first < begin)
    BY <1>1, <2>2, StartsGrow
  <2>4. QED
    BY <1>1, <2>1, <2>2, <2>3
<1>3. \E j \in first..n : ~ Takes(j, to) /\ \A k \in first..(j - 1) : Takes(k, to)
  <2> DEFINE S == {j \in first..n : ~ Takes(j, to)}
  <2>1. ~ Takes(n, to)
    <3>1. ~ (n <= Len(items))
      BY LenProperties
    <3>2. QED
      BY <3>1 DEF Takes, Complete
  <2>2. S \in SUBSET Nat /\ n \in S
    BY <1>1, <2>1
  <2>3. PICK j \in S : \A k \in S : j <= k
    BY <2>2, LeastElement
  <2>4. j \in first..n /\ ~ Takes(j, to)
    BY <2>3
  <2>5. ASSUME NEW k \in first..(j - 1) PROVE Takes(k, to)
    <3>1. k \in first..n /\ ~ (j <= k)
      BY <1>1, <2>4
    <3>2. k \notin S
      BY <2>3, <3>1
    <3>3. QED
      BY <3>1, <3>2
  <2> HIDE DEF S
  <2>6. QED
    BY <2>4, <2>5
<1>4. /\ stop \in first..n /\ ~ Takes(stop, to)
      /\ \A k \in first..(stop - 1) : Takes(k, to)
  BY <1>3 DEF LeavesOff
<1>5. /\ take_stream_items(Start(first), to).taken
           = [k \in 1..(stop - first) |-> first + k - 1]
      /\ take_stream_items(Start(first), to).from
           = IF Complete(stop, to) THEN Start(stop + 1) ELSE Start(stop)
  BY <1>2 DEF take_stream_items
<1> HIDE DEF stop
<1>6. QED
  BY <1>4, <1>5

-----------------------------------------------------------------------------
\* The items that the receiver may take off the lane, and those of them that
\* may be queued for rendering.
Sound == {i \in DOMAIN items : parse(items[i]).ok}

Playable == {i \in Sound : ~ is_end(items[i]) /\ guard_frame(items[i].frame)}

\* A malformed item stands before item j.
Broken(j) == \E i \in 1..(j - 1) : ~ parse(items[i]).ok

\* The decoder has gone as far as the bytes allow, or past a malformed item.
AsFarAsItGoes ==
    \E j \in 1..(Len(items) + 1) :
        /\ drained = Start(j)
        /\ \/ Broken(j)
           \/ j <= Len(items) => Start(j + 1) > read \/ ~ parse(items[j]).ok

Taken ==
    /\ ToSet(decoded) = {i \in DOMAIN items : Start(i) < drained /\ parse(items[i]).ok}
    /\ \A j, k \in DOMAIN decoded : j < k => decoded[j] < decoded[k]
    /\ read \in Nat /\ drained <= read
    /\ AsFarAsItGoes

WireInv ==
    /\ items \in Seq(Items)
    /\ batch \in Seq(Sound) /\ decoded \in Seq(Sound) /\ queued \in Seq(Playable)
    /\ \A k \in DOMAIN queued : items[queued[k]].frame.stream_id = streamId
    /\ streamId = 0 => queued = << >>
    /\ lane = "stream" => Taken
    /\ fin = "finished" => sender # "writing"
    /\ lane = "stream" /\ sender = "ok" => written = Size
    /\ lane = "datagram" => written \in 0..Len(items)
    /\ rx = "next" => lane = "stream" /\ fin = "finished" /\ read = written

LEMMA WireStarts == Init => WireInv
<1> SUFFICES ASSUME Init PROVE WireInv
  OBVIOUS
<1>1. items \in Seq(Items) /\ Len(items) \in Nat
  <2>1. PICK n \in 1..MaxItems : items \in [1..n -> Items]
    BY DEF Init
  <2>2. n \in Nat
    OBVIOUS
  <2>3. QED
    BY <2>1, <2>2
<1>2. Start(1) = 0 /\ 1 \in 1..(Len(items) + 1)
  BY <1>1, StartUnfolds
<1>3. \A i \in DOMAIN items : ~ (Start(i) < 0)
  <2>1. \A i \in DOMAIN items : i \in 1..(Len(items) + 1)
    BY <1>1
  <2>2. QED
    BY <1>1, <2>1, StartsGrow
<1>4. ASSUME lane = "stream" PROVE Taken
  <2>1. read = 0 /\ drained = 0 /\ decoded = << >>
    BY <1>4 DEF Init
  <2>2. ToSet(decoded) = {}
    BY <2>1 DEF ToSet
  <2>3. AsFarAsItGoes
    <3>1. ASSUME 1 <= Len(items) PROVE Start(1 + 1) > 0
      <4>1. 1 \in 1..(Len(items) + 1) /\ 2 \in 1..(Len(items) + 1) /\ 1 + 1 = 2
        BY <1>1, <3>1
      <4>2. QED
        BY <1>1, <1>2, <4>1, StartsGrow
    <3>2. QED
      BY <1>2, <2>1, <3>1 DEF AsFarAsItGoes
  <2>4. QED
    BY <1>3, <2>1, <2>2, <2>3 DEF Taken
<1>5. << >> \in Seq(Sound) /\ << >> \in Seq(Playable) /\ DOMAIN << >> = {}
  OBVIOUS
<1>6. QED
  BY <1>1, <1>4, <1>5 DEF Init, WireInv

LEMMA SameStarts == ASSUME items' = items PROVE \A i : Start(i)' = Start(i)
BY DEF Start

\* Where items start says in which order they stand.
LEMMA StartsOrder ==
    ASSUME items \in Seq(Items)
    PROVE  /\ Len(items) \in Nat /\ DOMAIN items = 1..Len(items)
           /\ \A i, j \in 1..(Len(items) + 1) : Start(i) < Start(j) <=> i < j
<1>1. Len(items) \in Nat /\ DOMAIN items = 1..Len(items)
  OBVIOUS
<1>2. ASSUME NEW i \in 1..(Len(items) + 1), NEW j \in 1..(Len(items) + 1)
      PROVE  Start(i) < Start(j) <=> i < j
  <2>1. i \in Nat /\ j \in Nat /\ Start(i) \in Nat /\ Start(j) \in Nat
    BY <1>1, StartsGrow
  <2>2. i < j => Start(i) < Start(j)
    BY StartsGrow
  <2>3. j < i => Start(j) < Start(i)
    BY StartsGrow
  <2>4. i = j => Start(i) = Start(j)
    OBVIOUS
  <2>5. QED
    BY <2>1, <2>2, <2>3, <2>4
<1>3. QED
  BY <1>1, <1>2

\* What a table over the first m numbers is as a sequence, and what stands where
\* in two sequences put together.
LEMMA TableIsSeq ==
    ASSUME NEW S, NEW m \in Nat, NEW q \in [1..m -> S]
    PROVE  q \in Seq(S) /\ Len(q) = m
OBVIOUS

LEMMA WiderSeq ==
    ASSUME NEW S, NEW T, S \subseteq T, NEW q \in Seq(S)
    PROVE  q \in Seq(T)
OBVIOUS

LEMMA Joined ==
    ASSUME NEW S, NEW p \in Seq(S), NEW q \in Seq(S)
    PROVE  /\ p \o q \in Seq(S) /\ Len(p \o q) = Len(p) + Len(q)
           /\ \A i \in 1..Len(p) : (p \o q)[i] = p[i]
           /\ \A i \in 1..Len(q) : (p \o q)[Len(p) + i] = q[i]
           /\ Len(p) \in Nat /\ Len(q) \in Nat
           /\ DOMAIN p = 1..Len(p) /\ DOMAIN q = 1..Len(q)
           /\ DOMAIN (p \o q) = 1..Len(p \o q)
BY ConcatProperties, LenProperties

LEMMA JoinedSet ==
    ASSUME NEW S, NEW p \in Seq(S), NEW q \in Seq(S)
    PROVE  ToSet(p \o q) = ToSet(p) \cup ToSet(q)
<1>1. PICK u : u = p \o q
  OBVIOUS
<1>2. /\ Len(u) = Len(p) + Len(q)
      /\ \A i \in 1..Len(p) : u[i] = p[i]
      /\ \A i \in 1..Len(q) : u[Len(p) + i] = q[i]
      /\ Len(p) \in Nat /\ Len(q) \in Nat
      /\ DOMAIN p = 1..Len(p) /\ DOMAIN q = 1..Len(q) /\ DOMAIN u = 1..Len(u)
  BY <1>1, Joined
<1>3. ASSUME NEW k \in DOMAIN u PROVE u[k] \in ToSet(p) \cup ToSet(q)
  <2>1. CASE k <= Len(p)
    <3>1. k \in DOMAIN p /\ u[k] = p[k]
      BY <1>2, <2>1
    <3>2. QED
      BY <3>1 DEF ToSet
  <2>2. CASE k > Len(p)
    <3>1. k - Len(p) \in 1..Len(q) /\ Len(p) + (k - Len(p)) = k
      BY <1>2, <2>2
    <3>2. k - Len(p) \in DOMAIN q /\ u[k] = q[k - Len(p)]
      BY <1>2, <3>1
    <3>3. QED
      BY <3>2 DEF ToSet
  <2>3. QED
    BY <1>2, <2>1, <2>2
<1>4. ASSUME NEW k \in DOMAIN p PROVE p[k] \in ToSet(u)
  <2>1. k \in DOMAIN u /\ u[k] = p[k]
    BY <1>2
  <2>2. QED
    BY <2>1 DEF ToSet
<1>5. ASSUME NEW k \in DOMAIN q PROVE q[k] \in ToSet(u)
  <2>1. Len(p) + k \in DOMAIN u /\ u[Len(p) + k] = q[k]
    BY <1>2
  <2>2. QED
    BY <2>1 DEF ToSet
<1>6. ToSet(u) = ToSet(p) \cup ToSet(q)
  BY <1>3, <1>4, <1>5 DEF ToSet
<1>7. QED
  BY <1>1, <1>6

\* A growing sequence below n, followed by n, n + 1, ...
LEMMA StaysSorted ==
    ASSUME NEW p \in Seq(Nat), NEW q \in Seq(Nat), NEW n \in Nat,
           \A j, k \in DOMAIN p : j < k => p[j] < p[k],
           \A k \in DOMAIN p : p[k] < n,
           \A k \in DOMAIN q : q[k] = n + k - 1
    PROVE  \A j, k \in DOMAIN (p \o q) : j < k => (p \o q)[j] < (p \o q)[k]
<1>1. PICK u, d, m : u = p \o q /\ d = Len(p) /\ m = Len(q)
  OBVIOUS
<1>2. /\ d \in Nat /\ m \in Nat /\ DOMAIN u = 1..(d + m)
      /\ DOMAIN p = 1..d /\ DOMAIN q = 1..m
      /\ \A i \in 1..d : u[i] = p[i] /\ p[i] \in Nat
      /\ \A i \in 1..m : u[d + i] = q[i]
  BY <1>1, Joined
<1>3. ASSUME NEW i \in Nat, i > d, i <= d + m PROVE u[i] = n + (i - d) - 1
  <2>1. i - d \in 1..m /\ d + (i - d) = i
    BY <1>2, <1>3
  <2>2. QED
    BY <1>2, <2>1
<1>4. ASSUME NEW j \in 1..(d + m), NEW k \in 1..(d + m), j < k PROVE u[j] < u[k]
  <2>1. j \in Nat \ {0} /\ k \in Nat \ {0} /\ j <= d + m /\ k <= d + m
    BY <1>2
  <2>2. CASE k <= d
    <3>1. j \in 1..d /\ k \in 1..d
      BY <1>2, <1>4, <2>1, <2>2
    <3>2. QED
      BY <1>2, <1>4, <3>1
  <2>3. CASE j <= d /\ k > d
    <3>1. u[k] = n + (k - d) - 1
      BY <1>3, <2>1, <2>3
    <3>2. j \in 1..d
      BY <1>2, <2>1, <2>3
    <3>3. u[j] = p[j] /\ p[j] \in Nat /\ p[j] < n
      BY <1>2, <3>2
    <3>4. QED
      BY <1>2, <2>1, <2>3, <3>1, <3>3
  <2>4. CASE j > d
    <3>1. u[j] = n + (j - d) - 1 /\ u[k] = n + (k - d) - 1
      BY <1>2, <1>3, <1>4, <2>1, <2>4
    <3>2. QED
      BY <1>2, <1>4, <2>1, <3>1
  <2>5. QED
    BY <1>2, <1>4, <2>1, <2>2, <2>3, <2>4
<1>5. QED
  BY <1>1, <1>2, <1>4

\* What a read up to byte c adds to what was taken.
LEMMA ReadKeeps ==
    ASSUME WireInv, Taken, NEW c \in Nat, c > read, items' = items,
           read' = c,
           drained' = take_stream_items(drained, c).from,
           decoded' = decoded \o take_stream_items(drained, c).taken
    PROVE  Taken' /\ take_stream_items(drained, c).taken \in Seq(Sound)
<1> DEFINE n == Len(items) + 1
           more == take_stream_items(drained, c).taken
<1>1. /\ items \in Seq(Items) /\ Len(items) \in Nat /\ DOMAIN items = 1..Len(items)
      /\ n \in Nat /\ decoded \in Seq(Sound) /\ read \in Nat /\ drained <= read
      /\ \A i, j \in 1..n : Start(i) < Start(j) <=> i < j
      /\ \A i \in 1..n : Start(i) \in Nat
  BY StartsOrder, StartsGrow DEF WireInv, Taken
<1>2. PICK first \in 1..n : drained = Start(first)
  BY DEF Taken, AsFarAsItGoes
<1>3. PICK stop \in first..n :
        /\ ~ Takes(stop, c) /\ \A k \in first..(stop - 1) : Takes(k, c)
        /\ more = [k \in 1..(stop - first) |-> first + k - 1]
        /\ drained' = IF Complete(stop, c) THEN Start(stop + 1) ELSE Start(stop)
  BY <1>1, <1>2, DecoderStops
<1> HIDE DEF more
<1>4. stop \in Nat /\ first \in Nat /\ stop \in 1..n /\ first <= stop
  BY <1>1, <1>2, <1>3
<1>5. ASSUME NEW i \in first..(stop - 1)
      PROVE  i \in 1..Len(items) /\ parse(items[i]).ok /\ Start(i + 1) <= c
  <2>1. i \in Nat \ {0}
    BY <1>4
  <2>2. Takes(i, c)
    BY <1>3
  <2>3. i <= Len(items) /\ parse(items[i]).ok /\ Start(i + 1) <= c
    BY <2>2 DEF Takes, Complete
  <2>4. QED
    BY <1>1, <2>1, <2>3
<1>6. /\ more \in Seq(Sound) /\ Len(more) = stop - first
      /\ \A k \in 1..Len(more) : more[k] = first + k - 1 /\ more[k] \in first..(stop - 1)
  <2>1. stop - first \in Nat
    BY <1>4
  <2>2. ASSUME NEW k \in 1..(stop - first)
        PROVE  first + k - 1 \in first..(stop - 1) /\ first + k - 1 \in Sound
    <3>1. first + k - 1 \in first..(stop - 1)
      BY <1>4
    <3>2. QED
      BY <1>1, <1>5, <3>1 DEF Sound
  <2>3. more \in [1..(stop - first) -> Sound]
    BY <1>3, <2>2
  <2>4. more \in Seq(Sound) /\ Len(more) = stop - first
    BY <2>1, <2>3, TableIsSeq
  <2>5. QED
    BY <1>3, <2>2, <2>4
<1>7. PICK new \in 1..n :
        /\ drained' = Start(new)
        /\ new = IF Complete(stop, c) THEN stop + 1 ELSE stop
  BY <1>1, <1>3, <1>4 DEF Complete
<1>8. ToSet(more) = first..(stop - 1)
  <2>1. ASSUME NEW i \in first..(stop - 1) PROVE \E k \in 1..Len(more) : more[k] = i
    <3>1. i - first + 1 \in 1..Len(more) /\ first + (i - first + 1) - 1 = i
      BY <1>4, <1>6
    <3>2. QED
      BY <1>6, <3>1
  <2>2. DOMAIN more = 1..Len(more)
    BY <1>6
  <2>3. QED
    BY <1>6, <2>1, <2>2 DEF ToSet
<1>9. /\ \A i \in DOMAIN items : Start(i) < drained <=> i < first
      /\ \A i \in DOMAIN items : Start(i) < drained' <=> i < new
  <2>1. ASSUME NEW i \in DOMAIN items
        PROVE  /\ Start(i) < drained <=> i < first
               /\ Start(i) < drained' <=> i < new
    <3>1. i \in 1..n
      BY <1>1
    <3>2. Start(i) < Start(first) <=> i < first
      BY <1>1, <1>2, <3>1
    <3>3. Start(i) < Start(new) <=> i < new
      BY <1>1, <1>7, <3>1
    <3>4. QED
      BY <1>2, <1>7, <3>2, <3>3
  <2>2. QED
    BY <2>1
<1>10. decoded' = decoded \o more
  BY DEF more
<1>11. /\ Len(decoded') = Len(decoded) + Len(more) /\ decoded' \in Seq(Sound)
       /\ \A i \in 1..Len(decoded) : decoded'[i] = decoded[i]
       /\ \A i \in 1..Len(more) : decoded'[Len(decoded) + i] = more[i]
       /\ Len(decoded) \in Nat /\ Len(more) \in Nat
       /\ DOMAIN decoded = 1..Len(decoded) /\ DOMAIN decoded' = 1..Len(decoded')
  <2>1. decoded \in Seq(Sound) /\ more \in Seq(Sound)
    BY <1>1, <1>6
  <2>2. QED
    BY <1>10, <2>1, Joined
<1>12. ToSet(decoded') = ToSet(decoded) \cup ToSet(more)
  BY <1>1, <1>6, <1>10, JoinedSet
<1>13. ToSet(decoded') = {i \in DOMAIN items : Start(i) < drained' /\ parse(items[i]).ok}
  <2>1. ToSet(decoded) = {i \in DOMAIN items : i < first /\ parse(items[i]).ok}
    BY <1>9 DEF Taken
  <2>2. ASSUME NEW i \in DOMAIN items, parse(items[i]).ok
        PROVE  i < new <=> i < first \/ i \in first..(stop - 1)
    <3>1. i = stop => ~ Complete(stop, c)
      BY <1>3, <2>2 DEF Takes
    <3>2. i \in Nat
      BY <1>1
    <3>3. QED
      BY <1>4, <1>7, <3>1, <3>2
  <2>3. QED
    BY <1>1, <1>5, <1>8, <1>9, <1>12, <2>1, <2>2
<1>14. \A j, k \in DOMAIN decoded' : j < k => decoded'[j] < decoded'[k]
  <2>1. \A k \in DOMAIN decoded : decoded[k] < first
    <3>1. ASSUME NEW k \in DOMAIN decoded PROVE decoded[k] < first
      <4>1. decoded[k] \in ToSet(decoded)
        BY DEF ToSet
      <4>2. decoded[k] \in DOMAIN items /\ Start(decoded[k]) < drained
        BY <4>1 DEF Taken
      <4>3. QED
        BY <1>9, <4>2
    <3>2. QED
      BY <3>1
  <2>2. Sound \subseteq Nat
    BY <1>1 DEF Sound
  <2>3. decoded \in Seq(Nat) /\ more \in Seq(Nat)
    BY <1>1, <1>6, <2>2, WiderSeq
  <2>4. \A k \in DOMAIN more : more[k] = first + k - 1
    BY <1>6
  <2>5. \A j, k \in DOMAIN decoded : j < k => decoded[j] < decoded[k]
    BY DEF Taken
  <2>6. QED
    BY <1>4, <1>10, <2>1, <2>3, <2>4, <2>5, StaysSorted
<1>15. drained' <= c
  <2>1. CASE Complete(stop, c)
    BY <1>3, <2>1 DEF Complete
  <2>2. CASE ~ Complete(stop, c) /\ stop = first
    BY <1>1, <1>2, <1>3, <2>2
  <2>3. CASE ~ Complete(stop, c) /\ stop # first
    <3>1. stop - 1 \in first..(stop - 1) /\ (stop - 1) + 1 = stop
      BY <1>4, <2>3
    <3>2. Start(stop) <= c
      BY <1>5, <3>1
    <3>3. QED
      BY <1>3, <2>3, <3>2
  <2>4. QED
    BY <2>1, <2>2, <2>3
<1>16. \/ Broken(new)
       \/ new <= Len(items) => Start(new + 1) > c \/ ~ parse(items[new]).ok
  <2>1. CASE Complete(stop, c)
    <3>1. new = stop + 1 /\ stop \in 1..(new - 1) /\ ~ parse(items[stop]).ok
      BY <1>3, <1>4, <1>7, <2>1 DEF Takes
    <3>2. QED
      BY <3>1 DEF Broken
  <2>2. CASE ~ Complete(stop, c)
    <3>1. new = stop
      BY <1>7, <2>2
    <3>2. ASSUME stop <= Len(items), items[stop].len > MAX_FRAME_TOTAL + 13
          PROVE  ~ parse(items[stop]).ok
      <4>1. items[stop] \in Items
        BY <1>1, <1>4, <3>2
      <4>2. items[stop].len \in Nat /\ MAX_FRAME_TOTAL + 13 \in Nat
        BY <4>1, ItemFields, MaxIsNat
      <4>3. ~ (items[stop].len <= MAX_FRAME_TOTAL + 13)
        BY <3>2, <4>2
      <4>4. QED
        BY <4>1, <4>3, Parses
    <3>3. ASSUME stop <= Len(items), ~ (items[stop].len > MAX_FRAME_TOTAL + 13)
          PROVE  Start(stop + 1) > c
      <4>1. items[stop] \in Items /\ stop + 1 \in 1..n
        BY <1>1, <1>4, <3>3
      <4>2. items[stop].len \in Nat /\ MAX_FRAME_TOTAL + 13 \in Nat
        BY <4>1, ItemFields, MaxIsNat
      <4>3. Start(stop + 1) \in Nat
        BY <1>1, <4>1
      <4>4. items[stop].len <= MAX_FRAME_TOTAL + 13
        BY <3>3, <4>2
      <4>5. ~ (Start(stop + 1) <= c)
        BY <2>2, <3>3, <4>4 DEF Complete
      <4>6. QED
        BY <4>3, <4>5
    <3>4. QED
      BY <3>1, <3>2, <3>3
  <2>3. QED
    BY <2>1, <2>2
<1>17. AsFarAsItGoes'
  <2>1. /\ Broken(new)' = Broken(new) /\ Start(new)' = Start(new)
        /\ Start(new + 1)' = Start(new + 1)
    BY SameStarts DEF Broken
  <2>2. QED
    BY <1>7, <1>16, <2>1 DEF AsFarAsItGoes
<1>18. Taken'
  <2>1. \A i : Start(i)' = Start(i)
    BY SameStarts
  <2>2. ToSet(decoded') = {i \in DOMAIN items' : Start(i)' < drained' /\ parse(items'[i]).ok}
    BY <1>13, <2>1
  <2>3. QED
    BY <1>14, <1>15, <1>17, <2>2 DEF Taken
<1>19. QED
  BY <1>6, <1>18 DEF more

\* Steps of the emitter leave what was received alone.
LEMMA EmitterKeeps ==
    ASSUME WireInv, UNCHANGED <<lane, items, receiver>>,
           fin' = "finished" => sender' # "writing",
           lane = "stream" /\ sender' = "ok" => written' = Size,
           lane = "datagram" => written' \in 0..Len(items),
           rx = "next" => fin' = "finished" /\ written' = written
    PROVE  WireInv'
<1>1. UNCHANGED <<items, lane, read, drained, batch, rx, streamId, queued, decoded>>
  BY DEF receiver, counters
<1>2. \A i : Start(i)' = Start(i)
  BY <1>1, SameStarts
<1>3. Size' = Size
  BY <1>1, <1>2 DEF Size
<1>4. lane = "stream" => Taken'
  <2>1. ASSUME Taken PROVE Taken'
    <3>1. AsFarAsItGoes'
      BY <1>1, <1>2, <2>1 DEF Taken, AsFarAsItGoes, Broken
    <3>2. QED
      BY <1>1, <1>2, <2>1, <3>1 DEF Taken
  <2>2. QED
    BY <2>1 DEF WireInv
<1>5. UNCHANGED <<Sound, Playable>>
  BY <1>1 DEF Sound, Playable
<1>6. QED
  BY <1>1, <1>3, <1>4, <1>5 DEF WireInv

LEMMA EmitterStep ==
    WireInv /\ (Write \/ Finish \/ Deadline \/ ConnectionLost \/ send_datagram) => WireInv'
<1> SUFFICES ASSUME WireInv, Write \/ Finish \/ Deadline \/ ConnectionLost \/ send_datagram
             PROVE  WireInv'
  OBVIOUS
<1>1. /\ fin = "finished" => sender # "writing"
      /\ lane = "stream" /\ sender = "ok" => written = Size
      /\ lane = "datagram" => written \in 0..Len(items)
      /\ rx = "next" => lane = "stream" /\ fin = "finished" /\ read = written
      /\ Len(items) \in Nat
  BY StartsOrder DEF WireInv
<1>2. CASE Write
  BY <1>1, <1>2, EmitterKeeps DEF Write
<1>3. CASE Finish
  BY <1>1, <1>3, EmitterKeeps DEF Finish
<1>4. CASE Deadline
  <2>1. sender' # "writing" /\ sender' # "ok"
    BY <1>4 DEF Deadline
  <2>2. QED
    BY <1>1, <1>4, <2>1, EmitterKeeps DEF Deadline
<1>5. CASE ConnectionLost
  BY <1>1, <1>5, EmitterKeeps DEF ConnectionLost
<1>6. CASE send_datagram
  <2>1. /\ lane = "datagram" /\ sender = "writing" /\ written < Len(items)
        /\ written' \in {written, written + 1} /\ UNCHANGED <<lane, items, fin, receiver>>
    BY <1>6 DEF send_datagram
  <2>2. written' \in 0..Len(items)
    BY <1>1, <2>1
  <2>3. QED
    BY <1>1, <2>1, <2>2, EmitterKeeps
<1>7. QED
  BY <1>2, <1>3, <1>4, <1>5, <1>6

LEMMA CutsAreNumbers == ASSUME items \in Seq(Items) PROVE Cuts \subseteq Nat
<1>1. ASSUME NEW i \in DOMAIN items
      PROVE  /\ Start(i) \in Nat /\ items[i].len \in Nat /\ items[i].len \div 2 \in Nat
  <2>1. i \in 1..(Len(items) + 1) /\ items[i] \in Items
    BY StartsOrder
  <2>2. Start(i) \in Nat /\ items[i].len \in Nat
    BY <2>1, StartsGrow, ItemFields
  <2>3. QED
    BY <2>2
<1>2. ASSUME NEW i \in DOMAIN items
      PROVE  {Start(i) + 1, Start(i) + 2, Start(i) + 2 + items[i].len \div 2,
              Start(i) + 1 + items[i].len, Start(i) + 2 + items[i].len} \subseteq Nat
  <2>1. PICK a \in Nat, b \in Nat, h \in Nat :
          a = Start(i) /\ b = items[i].len /\ h = items[i].len \div 2
    BY <1>1
  <2>2. {a + 1, a + 2, a + 2 + h, a + 1 + b, a + 2 + b} \subseteq Nat
    OBVIOUS
  <2>3. QED
    BY <2>1, <2>2
<1>3. QED
  BY <1>2 DEF Cuts

\* Steps of the receiver leave the lane alone.
LEMMA ReceiverKeeps ==
    ASSUME WireInv, UNCHANGED emitter,
           batch' \in Seq(Sound), decoded' \in Seq(Sound), queued' \in Seq(Playable),
           \A k \in DOMAIN queued' : items[queued'[k]].frame.stream_id = streamId',
           streamId' = 0 => queued' = << >>,
           lane = "stream" => Taken',
           rx' = "next" => lane = "stream" /\ fin = "finished" /\ read' = written
    PROVE  WireInv'
<1>1. UNCHANGED <<lane, items, written, sender, fin>>
  BY DEF emitter
<1>2. Size' = Size
  BY <1>1, SameStarts DEF Size
<1>3. UNCHANGED <<Sound, Playable>>
  BY <1>1 DEF Sound, Playable
<1>4. QED
  BY <1>1, <1>2, <1>3 DEF WireInv

\* What was taken stays as it is.
LEMMA TakenKept ==
    ASSUME Taken, UNCHANGED <<items, read, drained, decoded>>
    PROVE  Taken'
<1>1. \A i : Start(i)' = Start(i)
  BY SameStarts
<1>2. AsFarAsItGoes'
  BY <1>1 DEF Taken, AsFarAsItGoes, Broken
<1>3. QED
  BY <1>1, <1>2 DEF Taken

LEMMA ReadingStep == WireInv /\ (ReadChunk \/ ReadDatagram) => WireInv'
<1> SUFFICES ASSUME WireInv, ReadChunk \/ ReadDatagram PROVE WireInv'
  OBVIOUS
<1>1. /\ items \in Seq(Items) /\ decoded \in Seq(Sound) /\ batch \in Seq(Sound)
      /\ queued \in Seq(Playable)
      /\ streamId = 0 => queued = << >>
      /\ \A k \in DOMAIN queued : items[queued[k]].frame.stream_id = streamId
  BY DEF WireInv
<1>2. CASE ReadChunk
  <2>1. PICK c \in Cuts :
          /\ c > read /\ read' = c
          /\ drained' = take_stream_items(drained, c).from
          /\ batch' = take_stream_items(drained, c).taken
          /\ decoded' = decoded \o take_stream_items(drained, c).taken
    BY <1>2 DEF ReadChunk
  <2>2. Taken /\ lane = "stream" /\ rx' = "run" /\ c \in Nat
        /\ UNCHANGED <<items, streamId, queued, emitter>>
    <3>1. lane = "stream" /\ rx = "run" /\ UNCHANGED <<emitter, rx, streamId, queued>>
      BY <1>2 DEF ReadChunk
    <3>2. c \in Nat
      BY <1>1, CutsAreNumbers
    <3>3. QED
      BY <3>1, <3>2 DEF WireInv, emitter
  <2>3. Taken' /\ batch' \in Seq(Sound)
    BY <2>1, <2>2, ReadKeeps
  <2>4. decoded' \in Seq(Sound)
    BY <1>1, <2>1, <2>3, Joined
  <2>5. QED
    BY <1>1, <2>2, <2>3, <2>4, ReceiverKeeps
<1>3. CASE ReadDatagram
  <2>1. PICK i \in 1..written :
          \/ /\ parse(items[i]).ok
             /\ batch' = <<i>> /\ decoded' = Append(decoded, i)
          \/ UNCHANGED <<batch, decoded>>
    BY <1>3 DEF ReadDatagram
  <2>2. lane = "datagram" /\ rx' = "run" /\ UNCHANGED <<streamId, queued, emitter>>
    BY <1>3 DEF ReadDatagram
  <2>3. i \in DOMAIN items
    <3>1. written \in 0..Len(items) /\ Len(items) \in Nat /\ DOMAIN items = 1..Len(items)
      BY <2>2, StartsOrder DEF WireInv
    <3>2. QED
      BY <3>1
  <2>4. batch' \in Seq(Sound) /\ decoded' \in Seq(Sound)
    <3>1. CASE parse(items[i]).ok /\ batch' = <<i>> /\ decoded' = Append(decoded, i)
      <4>1. i \in Sound
        BY <2>3, <3>1 DEF Sound
      <4>2. QED
        BY <1>1, <3>1, <4>1
    <3>2. QED
      BY <1>1, <2>1, <3>1
  <2>5. QED
    BY <1>1, <2>2, <2>4, ReceiverKeeps
<1>4. QED
  BY <1>2, <1>3

LEMMA PushStep == WireInv /\ PushItem => WireInv'
<1> SUFFICES ASSUME WireInv, PushItem PROVE WireInv'
  OBVIOUS
<1> DEFINE i == Head(batch)
           f == items[i].frame
<1>1. /\ items \in Seq(Items) /\ decoded \in Seq(Sound) /\ batch \in Seq(Sound)
      /\ queued \in Seq(Playable)
      /\ streamId = 0 => queued = << >>
      /\ \A k \in DOMAIN queued : items[queued[k]].frame.stream_id = streamId
  BY DEF WireInv
<1>2. /\ batch # << >> /\ batch' = Tail(batch)
      /\ UNCHANGED <<emitter, read, drained, decoded>>
      /\ rx' = "ended" \/ rx' = rx
      /\ \/ UNCHANGED <<streamId, queued>>
         \/ /\ ~ is_end(items[i]) /\ guard_frame(f)
            /\ streamId = 0 \/ streamId = f.stream_id
            /\ streamId' = f.stream_id /\ queued' = Append(queued, i)
  BY DEF PushItem
<1>3. batch' \in Seq(Sound) /\ i \in Sound
  BY <1>1, <1>2
<1>4. lane = "stream" => Taken'
  <2>1. UNCHANGED items
    BY <1>2 DEF emitter
  <2>2. QED
    BY <1>2, <2>1, TakenKept DEF WireInv
<1>5. /\ queued' \in Seq(Playable)
      /\ streamId' = 0 => queued' = << >>
      /\ \A k \in DOMAIN queued' : items[queued'[k]].frame.stream_id = streamId'
  <2>1. CASE UNCHANGED <<streamId, queued>>
    BY <1>1, <2>1
  <2>2. CASE /\ ~ is_end(items[i]) /\ guard_frame(f)
             /\ streamId = 0 \/ streamId = f.stream_id
             /\ streamId' = f.stream_id /\ queued' = Append(queued, i)
    <3>1. i \in Playable
      BY <1>3, <2>2 DEF Playable
    <3>2. f.stream_id # 0
      <4>1. items[i] \in Items /\ parse(items[i]).ok
        BY <1>1, <1>3 DEF Sound
      <4>2. items[i].kind = "audio"
        BY <2>2, <4>1, Parses
      <4>3. QED
        BY <4>1, <4>2, ItemFields, FrameFields
    <3>3. queued' \in Seq(Playable)
      BY <1>1, <2>2, <3>1
    <3>4. ASSUME NEW k \in DOMAIN queued'
          PROVE  items[queued'[k]].frame.stream_id = streamId'
      <4>1. CASE k \in DOMAIN queued
        <5>1. queued'[k] = queued[k] /\ streamId # 0
          BY <1>1, <2>2, <4>1
        <5>2. QED
          BY <1>1, <2>2, <4>1, <5>1
      <4>2. CASE k \notin DOMAIN queued
        BY <1>1, <2>2, <4>2
      <4>3. QED
        BY <4>1, <4>2
    <3>5. QED
      BY <2>2, <3>2, <3>3, <3>4
  <2>3. QED
    BY <1>2, <2>1, <2>2
<1> HIDE DEF i, f
<1>6. rx' = "next" => lane = "stream" /\ fin = "finished" /\ read' = written
  BY <1>2 DEF WireInv
<1>7. decoded' \in Seq(Sound)
  BY <1>1, <1>2
<1>8. QED
  BY <1>2, <1>3, <1>4, <1>5, <1>6, <1>7, ReceiverKeeps

LEMMA WireStep == WireInv /\ [Next]_vars => WireInv'
<1> SUFFICES ASSUME WireInv, [Next]_vars PROVE WireInv'
  OBVIOUS
<1>1. CASE StreamOver \/ ReadTimeout
  <2>1. /\ UNCHANGED <<emitter, read, drained, batch, streamId, queued, decoded>>
        /\ rx' = "next" => lane = "stream" /\ fin = "finished" /\ read = written
    BY <1>1 DEF StreamOver, ReadTimeout, counters
  <2>2. /\ batch' \in Seq(Sound) /\ decoded' \in Seq(Sound) /\ queued' \in Seq(Playable)
        /\ \A k \in DOMAIN queued' : items[queued'[k]].frame.stream_id = streamId'
        /\ streamId' = 0 => queued' = << >>
    BY <2>1 DEF WireInv
  <2>3. lane = "stream" => Taken'
    <3>1. UNCHANGED items
      BY <2>1 DEF emitter
    <3>2. QED
      BY <2>1, <3>1, TakenKept DEF WireInv
  <2>4. QED
    BY <2>1, <2>2, <2>3, ReceiverKeeps
<1>2. CASE UNCHANGED vars
  <2>1. UNCHANGED <<lane, items, written, sender, fin, receiver, rx>>
    BY <1>2 DEF vars, receiver, counters
  <2>2. QED
    BY <2>1, EmitterKeeps DEF WireInv
<1>3. QED
  BY <1>1, <1>2, EmitterStep, ReadingStep, PushStep DEF Next

LEMMA WireInvariance == Spec => []WireInv
<1>1. QED
  BY WireStarts, WireStep, PTL DEF Spec

\* However the stream is cut into reads, the decoder produces what a decoder of
\* the whole prefix would, leaves nothing behind but what follows a malformed
\* item, and nothing but intact frames of one stream is queued.
THEOREM CutsDoNotMatter == Spec => []DecoderIgnoresCuts
<1>1. WireInv => DecoderIgnoresCuts
  <2> SUFFICES ASSUME WireInv PROVE DecoderIgnoresCuts
    OBVIOUS
  <2>1. /\ items \in Seq(Items) /\ Len(items) \in Nat /\ DOMAIN items = 1..Len(items)
        /\ \A i, j \in 1..(Len(items) + 1) : Start(i) < Start(j) <=> i < j
        /\ \A i \in 1..(Len(items) + 1) : Start(i) \in Nat
    BY StartsOrder, StartsGrow DEF WireInv
  <2>2. lane = "stream" =>
          /\ ToSet(decoded) = {i \in DOMAIN items : Start(i) < drained /\ parse(items[i]).ok}
          /\ \A j, k \in DOMAIN decoded : j < k => decoded[j] < decoded[k]
          /\ \E i \in 1..(Len(items) + 1) : drained = Start(i)
          /\ drained <= read
    BY DEF WireInv, Taken, AsFarAsItGoes
  <2>3. ASSUME rx = "next", sender = "ok", NEW i \in DOMAIN items, parse(items[i]).ok
        PROVE  i \in ToSet(decoded) \/ \E j \in 1..(i - 1) : ~ parse(items[j]).ok
    <3>1. Taken /\ read = Size
      BY <2>3 DEF WireInv
    <3>2. PICK j \in 1..(Len(items) + 1) :
            /\ drained = Start(j)
            /\ \/ Broken(j)
               \/ j <= Len(items) => Start(j + 1) > read \/ ~ parse(items[j]).ok
      BY <3>1 DEF Taken, AsFarAsItGoes
    <3>3. i \in 1..(Len(items) + 1) /\ i \in Nat /\ j \in Nat
      BY <2>1
    <3>4. CASE i < j
      <4>1. Start(i) < drained
        BY <2>1, <3>2, <3>3, <3>4
      <4>2. QED
        BY <2>3, <3>1, <4>1 DEF Taken
    <3>5. CASE Broken(j) /\ j <= i
      <4>1. PICK k \in 1..(j - 1) : ~ parse(items[k]).ok
        BY <3>5 DEF Broken
      <4>2. k \in 1..(i - 1)
        BY <3>3, <3>5
      <4>3. QED
        BY <4>1, <4>2
    <3>6. CASE ~ Broken(j) /\ j <= i
      <4>1. j <= Len(items)
        BY <2>1, <3>3, <3>6
      <4>2. ~ (Start(j + 1) > read)
        <5>1. j + 1 \in 1..(Len(items) + 1) /\ Len(items) + 1 \in 1..(Len(items) + 1)
          BY <2>1, <3>3, <4>1
        <5>2. ~ (Start(Len(items) + 1) < Start(j + 1))
          BY <2>1, <5>1
        <5>3. Start(j + 1) \in Nat /\ Start(Len(items) + 1) \in Nat
          BY <2>1, <5>1
        <5>4. QED
          BY <3>1, <5>2, <5>3 DEF Size
      <4>3. ~ parse(items[j]).ok
        BY <3>2, <3>6, <4>1, <4>2
      <4>4. j # i
        BY <2>3, <4>3
      <4>5. j \in 1..(i - 1)
        BY <3>2, <3>3, <3>6, <4>4
      <4>6. QED
        BY <4>3, <4>5
    <3>7. QED
      BY <3>3, <3>4, <3>5, <3>6
  <2>4. ASSUME NEW k \in DOMAIN queued
        PROVE  LET f == items[queued[k]].frame
               IN  /\ f.version = FRAME_VERSION /\ f.stream_id = streamId
                   /\ f.codec /= "Opus" => f.crc = "match"
                   /\ f.payload <= MaxFramePayload
    <3>0. PICK i, f : i = queued[k] /\ f = items[i].frame
      OBVIOUS
    <3>1. i \in Playable /\ f.stream_id = streamId
      BY <2>4, <3>0 DEF WireInv
    <3>2. items[i] \in Items /\ parse(items[i]).ok /\ ~ is_end(items[i]) /\ guard_frame(f)
      BY <2>1, <3>0, <3>1 DEF Playable, Sound
    <3>3. items[i].kind = "audio"
      BY <3>2, Parses
    <3>4. f.payload <= MaxFramePayload /\ f.codec \in Codec
      BY <3>0, <3>2, <3>3, ItemFields, FrameFields
    <3>5. f.version = FRAME_VERSION /\ (f.codec # "Opus" => f.crc = "match")
      BY <3>2, <3>4 DEF guard_frame, Codec
    <3>6. QED
      BY <3>0, <3>1, <3>4, <3>5
  <2>5. QED
    BY <2>2, <2>3, <2>4 DEF DecoderIgnoresCuts
<1>2. QED
  BY <1>1, WireInvariance, PTL

-----------------------------------------------------------------------------
LEMMA UpperBits ==
    ASSUME NEW h \in 0..63, NEW r \in 0..3
    PROVE  (4 * h + r) \div 4 = h /\ h % 64 = h
OBVIOUS

LEMMA FlagsSurvive == \A v \in 0..255 : u8ify_flags(flags_from_u8(v)) = v
<1>1. ASSUME NEW v \in 0..255 PROVE u8ify_flags(flags_from_u8(v)) = v
  <2>1. v \in Int /\ 2 \in Nat \ {0}
    OBVIOUS
  <2>2. PICK q \in Int, a \in 0..1 : v = 2 * q + a /\ q = v \div 2 /\ a = v % 2
    BY <2>1, DivMod
  <2>3. PICK h \in Int, b \in 0..1 : q = 2 * h + b /\ b = q % 2
    <3>1. /\ q \div 2 \in Int /\ q % 2 \in 0..(2 - 1)
          /\ q = 2 * (q \div 2) + (q % 2)
      BY <2>1, DivMod
    <3>2. QED
      BY <3>1
  <2>4. h \in 0..63 /\ v = 4 * h + (2 * b + a) /\ v = a + 2 * b + 4 * h
    <3>1. v = 2 * q + a /\ q = 2 * h + b
      BY <2>2, <2>3
    <3>2. QED
      BY <3>1
  <2>5. v \div 4 = h /\ h % 64 = h
    <3>1. 2 * b + a \in 0..3
      OBVIOUS
    <3>2. QED
      BY <2>4, <3>1, UpperBits
  <2>6. u8ify_flags(flags_from_u8(v)) =
          (IF v % 2 = 1 THEN 1 ELSE 0) + (IF (v \div 2) % 2 = 1 THEN 2 ELSE 0)
            + 4 * (((v \div 4) % 64) % 64)
    BY Zenon DEF flags_from_u8, u8ify_flags
  <2>7. (IF a = 1 THEN 1 ELSE 0) = a /\ (IF b = 1 THEN 2 ELSE 0) = 2 * b
    OBVIOUS
  <2>8. u8ify_flags(flags_from_u8(v)) = a + 2 * b + 4 * h
    BY <2>2, <2>3, <2>5, <2>6, <2>7
  <2>9. QED
    BY <2>4, <2>8
<1>2. QED
  BY <1>1

LEMMA TablesHold == TableLaws
<1>1. \A m \in ControlMessage : pack(m).ok = unpack(m.len).ok
  BY DEF pack, unpack, Ok, Err
<1>2. ASSUME NEW c \in Configs
      PROVE  /\ ~ make_client_config(c).enable_early_data
             /\ make_client_config(enable_0rtt(c)).transport = make_client_config(c).transport
  <2> DEFINE d == TransportConnConfigDefault
  <2>1. PICK e, cc, p, b, w :
          /\ e \in {d, disable_0rtt(enable_0rtt(d))}
          /\ c = stream_receive_window(congestion_control(datagram_max_payload(
                    set_datagram_send_buffer(e, b), p), cc), w)
    BY DEF Configs
  <2>2. e.zrt_enabled_media = FALSE /\ "zrt_enabled_media" \in DOMAIN e
    <3>1. CASE e = d
      BY <3>1 DEF TransportConnConfigDefault
    <3>2. CASE e = disable_0rtt(enable_0rtt(d))
      BY <3>2 DEF TransportConnConfigDefault, disable_0rtt, enable_0rtt
    <3>3. QED
      BY <2>1, <3>1, <3>2
  <2> HIDE DEF d
  <2>3. c.zrt_enabled_media = FALSE
    BY <2>1, <2>2 DEF congestion_control, datagram_max_payload, stream_receive_window,
                      set_datagram_send_buffer
  <2>4. QED
    BY <2>3 DEF make_client_config, build_transport, enable_0rtt
<1>3. \A c \in ErrorCode : Error(c).user_action /= "None" => ~ Error(c).retryable
  BY DEF ErrorCode, Error, user_action_for, is_retryable
<1>4. QED
  BY <1>1, <1>2, <1>3, FlagsSurvive DEF TableLaws

\* What one side packs the other unpacks: for every bound on the payload and
\* every header bound that a header with all its fields at full width keeps
\* (header_max_len has eleven bytes to spare), as long as the sum fits the
\* two-byte prefix.
THEOREM SizesAgree ==
    ASSUME 52 <= HeaderMaxLen, HeaderMaxLen + MaxFramePayload < 65536
    PROVE  Spec => []CodecLaws
<1>1. WireInv => CodecLaws
  <2> SUFFICES ASSUME WireInv,
                      NEW it \in ToSet(items), it.kind = "audio", it.frame \in OwnFrames
               PROVE  FrameUnpack(it).ok /\ it.len <= MAX_FRAME_TOTAL /\ it.len < 65536
    BY TablesHold DEF CodecLaws
  <2>1. it \in Items
    BY DEF WireInv, ToSet
  <2>2. PICK n \in Nat : /\ n = it.frame.payload /\ n <= MaxFramePayload
                         /\ it.len \in Nat /\ it.len <= 52 + n
    BY <2>1, ItemFields, FrameFields, FrameLength
  <2>3. it.len <= HeaderMaxLen + MaxFramePayload
    BY <2>2, WireAssumption
  <2>4. FrameUnpack(it).ok
    BY <2>2, <2>3, WireAssumption
       DEF FrameUnpack, decode_postcard, FrameVisit, PayloadVisit, HeaderMax, Ok
  <2>5. QED
    BY <2>2, <2>3, <2>4, WireAssumption DEF MAX_FRAME_TOTAL, HeaderMax
<1>2. QED
  BY <1>1, WireInvariance, PTL
=============================================================================
