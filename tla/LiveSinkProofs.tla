---------------------------- MODULE LiveSinkProofs ----------------------------
(***************************************************************************)
(* The live path of the emitter and the secure lane behind it, for every      *)
(* fault budget, block and content.  First the sink: SinkInv, of what the    *)
(* accumulator, the resampler and the frame in progress hold; CaptureExact    *)
(* and TimePreserved follow from it.  Then the paired lane: PairedLaneInv,    *)
(* of what is in flight and what the session and the receiver made of it;     *)
(* RendersOnlySealed follows from both.                                     *)
(***************************************************************************)
EXTENDS LiveSink, ModularArithmetic, SequenceTheorems, TLAPS

\* A function on 1..n is a sequence of length n.
LEMMA Tabulated ==
    ASSUME NEW S, NEW n \in Nat, NEW f \in [1..n -> S]
    PROVE  f \in Seq(S) /\ Len(f) = n /\ DOMAIN f = 1..n
<1>1. f \in Seq(S)
  BY SeqDef
<1>2. DOMAIN f = 1..Len(f) /\ Len(f) \in Nat
  BY <1>1, LenProperties
<1>3. 1..Len(f) = 1..n
  BY <1>2
<1>4. Len(f) = n
  BY <1>2, <1>3
<1>5. QED
  BY <1>1, <1>4

\* What a sequence holds between two places.
LEMMA Slice ==
    ASSUME NEW S, NEW s \in Seq(S), NEW q \in 0..Len(s), NEW p \in 0..q
    PROVE  /\ SubSeq(s, p + 1, q) \in Seq(S)
           /\ Len(SubSeq(s, p + 1, q)) = q - p
           /\ \A j \in 1..(q - p) : SubSeq(s, p + 1, q)[j] = s[p + j]
<1>1. Len(s) \in Nat /\ \A j \in (p + 1)..q : s[j] \in S
  BY LenProperties, ElementOfSeq
<1>2. /\ SubSeq(s, p + 1, q) \in Seq(S)
      /\ Len(SubSeq(s, p + 1, q)) = IF p + 1 <= q THEN q - (p + 1) + 1 ELSE 0
      /\ \A j \in 1..(q - (p + 1) + 1) : SubSeq(s, p + 1, q)[j] = s[(p + 1) + j - 1]
  BY <1>1, SubSeqProperties
<1>3. q - (p + 1) + 1 = q - p /\ (~(p + 1 <= q) => q - p = 0)
  BY <1>1
<1>4. \A j \in 1..(q - p) : (p + 1) + j - 1 = p + j
  BY <1>1
<1>5. QED
  BY <1>2, <1>3, <1>4

\* The elements of two sequences put one after the other.
LEMMA Joined ==
    ASSUME NEW S, NEW s \in Seq(S), NEW t \in Seq(S)
    PROVE  /\ s \o t \in Seq(S) /\ Len(s) \in Nat /\ Len(t) \in Nat
           /\ Len(s \o t) = Len(s) + Len(t)
           /\ \A i \in 1..Len(s) : (s \o t)[i] = s[i]
           /\ \A i \in 1..Len(t) : (s \o t)[Len(s) + i] = t[i]
<1>1. PICK a \in Nat, b \in Nat : a = Len(s) /\ b = Len(t)
  BY LenProperties
<1>2. /\ s \o t \in Seq(S) /\ Len(s \o t) = a + b
      /\ \A i \in 1..(a + b) : (s \o t)[i] = IF i <= a THEN s[i] ELSE t[i - a]
  BY <1>1, ConcatProperties
<1>3. \A i \in 1..a : (s \o t)[i] = s[i]
  BY <1>2
<1>4. \A i \in 1..b : (s \o t)[a + i] = t[i]
  <2>1. SUFFICES ASSUME NEW i \in 1..b PROVE (s \o t)[a + i] = t[i]
    OBVIOUS
  <2>2. a + i \in 1..(a + b) /\ ~(a + i <= a) /\ (a + i) - a = i
    BY <1>1
  <2>3. QED
    BY <1>2, <2>2
<1>5. QED
  BY <1>1, <1>2, <1>3, <1>4

\* Products grow with their factors.
LEMMA Multiples ==
    ASSUME NEW w \in Nat, NEW i \in Nat, NEW k \in Nat, i <= k
    PROVE  /\ i * w \in Nat /\ k * w \in Nat /\ i * w <= k * w
           /\ (k - i) * w = k * w - i * w /\ (i + k) * w = i * w + k * w
           /\ (i + 1) * w = i * w + w
OBVIOUS

\* Frames of w bytes cut from a sequence: none reaches beyond its end, and what
\* the last whole one leaves is shorter than a frame.
LEMMA WholeFrames ==
    ASSUME NEW w \in Nat \ {0}, NEW n \in Nat
    PROVE  /\ n \div w \in Nat /\ (n \div w) * w <= n /\ n - (n \div w) * w < w
           /\ \A i \in 0..(n \div w) : i * w \in 0..n
<1>1. n \div w \in Int /\ n % w \in 0..(w - 1) /\ n = w * (n \div w) + (n % w)
  BY DivMod
<1>2. PICK k \in Int, r \in 0..(w - 1) : k = n \div w /\ n = w * k + r
  BY <1>1
<1>3. k >= 0
  <2>1. SUFFICES ASSUME k <= -1 PROVE FALSE
    BY <1>2
  <2>2. w * k <= w * (-1)
    BY <2>1, <1>2
  <2>3. QED
    BY <2>2, <1>2
<1>4. k \in Nat /\ k * w = w * k
  BY <1>2, <1>3
<1>5. k * w <= n /\ n - k * w < w
  BY <1>2, <1>4
<1>6. \A i \in 0..k : i * w \in 0..n
  <2>1. SUFFICES ASSUME NEW i \in 0..k PROVE i * w \in 0..n
    OBVIOUS
  <2>2. i * w \in Nat /\ i * w <= k * w
    BY <1>4, Multiples
  <2>3. QED
    BY <2>2, <1>4, <1>5
<1>7. QED
  BY <1>2, <1>4, <1>5, <1>6

\* A frame is some bytes long.
LEMMA WholeIsSome ==
    ASSUME EmitterTypeOK
    PROVE  /\ Whole \in Nat \ {0}
           /\ sink.repr = "i16" => Whole = 4 * sink.frame_samples
<1>1. PICK fs \in Nat \ {0}, b \in {2, 3} :
        /\ sink.frame_samples = fs /\ Bytes(sink.repr) = b
        /\ sink.repr = "i16" => b = 2
  BY DEF EmitterTypeOK, Bytes
<1>2. fs * 2 * b \in Nat \ {0} /\ fs * 2 * 2 = 4 * fs
  BY <1>1
<1>3. QED
  BY <1>1, <1>2 DEF Whole

\* What is cut from an accumulator, and what it holds then.
LEMMA CutFacts ==
    ASSUME EmitterTypeOK, NEW a \in Seq(Byte), NEW i \in 0..CutAll(a)
    PROVE  /\ CutAll(a) \in Nat /\ i * Whole \in 0..Len(a)
           /\ Rest(a, i) \in Seq(Byte) /\ Len(Rest(a, i)) = Len(a) - i * Whole
           /\ \A j \in 1..Len(Rest(a, i)) : Rest(a, i)[j] = a[i * Whole + j]
           /\ SubSeq(a, 1, i * Whole) \in Seq(Byte)
           /\ Len(SubSeq(a, 1, i * Whole)) = i * Whole
           /\ \A j \in 1..(i * Whole) : SubSeq(a, 1, i * Whole)[j] = a[j]
           /\ SubSeq(a, 1, i * Whole) \o Rest(a, i) = a
           /\ i = CutAll(a) => Len(Rest(a, i)) < Whole
<1>1. PICK w \in Nat \ {0}, n \in Nat : w = Whole /\ n = Len(a)
  BY WholeIsSome, LenProperties
<1>2. CutAll(a) = n \div w
  BY <1>1 DEF CutAll
<1>3. n \div w \in Nat /\ i * w \in 0..n /\ n - (n \div w) * w < w
  BY <1>2, WholeFrames
<1>4. PICK p \in 0..n : p = i * w
  BY <1>3
<1>5. /\ SubSeq(a, p + 1, n) \in Seq(Byte) /\ Len(SubSeq(a, p + 1, n)) = n - p
      /\ \A j \in 1..(n - p) : SubSeq(a, p + 1, n)[j] = a[p + j]
  <2>1. n \in 0..Len(a)
    BY <1>1
  <2>2. QED
    BY <2>1, Slice, ZenonT(30)
<1>6. /\ SubSeq(a, 1, p) \in Seq(Byte) /\ Len(SubSeq(a, 1, p)) = p
      /\ \A j \in 1..p : SubSeq(a, 1, p)[j] = a[j]
  <2>1. /\ SubSeq(a, 0 + 1, p) \in Seq(Byte) /\ Len(SubSeq(a, 0 + 1, p)) = p - 0
        /\ \A j \in 1..(p - 0) : SubSeq(a, 0 + 1, p)[j] = a[0 + j]
    BY <1>1, <1>4, Slice
  <2>2. 0 + 1 = 1 /\ p - 0 = p /\ \A j \in 1..p : 0 + j = j
    OBVIOUS
  <2>3. QED
    BY <2>1, <2>2
<1>7. Rest(a, i) = SubSeq(a, p + 1, n)
  BY <1>1, <1>4 DEF Rest
<1> DEFINE head == SubSeq(a, 1, p)
           tail == SubSeq(a, p + 1, n)
<1>8. head \o tail = a
  <2>1. head \in Seq(Byte) /\ tail \in Seq(Byte) /\ Len(head) = p /\ Len(tail) = n - p
    BY <1>5, <1>6
  <2>2. \A j \in 1..p : head[j] = a[j]
    BY <1>6
  <2>3. \A j \in 1..(n - p) : tail[j] = a[p + j]
    BY <1>5
  <2> HIDE DEF head, tail
  <2>4. /\ head \o tail \in Seq(Byte) /\ Len(head \o tail) = Len(head) + Len(tail)
        /\ \A j \in 1..(Len(head) + Len(tail)) :
             (head \o tail)[j] = IF j <= Len(head) THEN head[j] ELSE tail[j - Len(head)]
    BY <2>1, ConcatProperties
  <2>5. Len(head) + Len(tail) = n
    BY <2>1
  <2>6. \A j \in 1..n : (head \o tail)[j] = a[j]
    <3>1. SUFFICES ASSUME NEW j \in 1..n PROVE (head \o tail)[j] = a[j]
      OBVIOUS
    <3>2. CASE j <= p
      BY <2>1, <2>2, <2>4, <2>5, <3>2
    <3>3. CASE ~(j <= p)
      <4>1. PICK d \in 1..(n - p) : j = p + d /\ d = j - p
        BY <3>3
      <4>2. (head \o tail)[j] = tail[d]
        BY <2>1, <2>4, <2>5, <3>3, <4>1
      <4>3. QED
        BY <2>3, <4>1, <4>2
    <3>4. QED
      BY <3>2, <3>3
  <2>7. QED
    BY <1>1, <2>4, <2>5, <2>6, SeqEqual
<1>9. i * Whole = p /\ Len(a) = n
  BY <1>1, <1>4
<1>10. i = CutAll(a) => n - p < Whole
  BY <1>1, <1>2, <1>3, <1>4
<1>11. QED
  BY <1>2, <1>3, <1>5, <1>6, <1>7, <1>8, <1>9, <1>10

LEMMA FormatFacts ==
    ASSUME NEW f \in SinkFormats
    PROVE  f.rate \in Nat \ {0} /\ f.repr \in {"i16", "i24"}
<1>1. f \in Formats \/ f = [rate |-> 48, repr |-> "i16"]
  BY DEF SinkFormats, Canonical
<1>2. CASE f \in Formats
  <2>1. f.rate \in Rates /\ f.repr \in Reprs
    BY <1>2 DEF Formats
  <2>2. QED
    BY <2>1, SinkAssumption DEF SinkAssumption
<1>3. CASE f = [rate |-> 48, repr |-> "i16"]
  BY <1>3
<1>4. QED
  BY <1>1, <1>2, <1>3

\* The plan for a format that is not refused.
PlanFor(c, f, p) ==
    /\ p.wire_rate \in Nat \ {0} /\ p.frame_samples \in Nat \ {0}
    /\ p.resampler \in 0..48 /\ p.repr \in {"i16", "i24"}
    /\ p.repr = f.repr
    /\ p.wire_rate = IF c = "opus" /\ f.rate \notin {44, 48} THEN 48 ELSE f.rate
    /\ p.resampler # 0 => c = "opus" /\ p.wire_rate = 48 /\ p.repr = "i16"
    /\ c = "opus" => p.repr = "i16"
    /\ p.resampler = 0 => f.rate = p.wire_rate

LEMMA PlanFacts ==
    ASSUME NEW c \in {"flac", "pcm", "opus"}, NEW f \in SinkFormats, ~Refused(c, f)
    PROVE  PlanFor(c, f, wire_plan(c, f))
<1> DEFINE p == wire_plan(c, f)
<1> SUFFICES PlanFor(c, f, p)
  OBVIOUS
<1>1. f.rate \in Nat \ {0} /\ f.repr \in {"i16", "i24"}
  BY FormatFacts
<1>2. c = "opus" => f.rate <= 48 /\ f.repr = "i16"
  BY <1>1 DEF Refused
<1>3. LosslessSamples \in Nat \ {0} /\ OpusSamples48 \in Nat \ {0} /\ OpusSamples44 \in Nat \ {0}
  BY SinkAssumption DEF SinkAssumption
<1>4. CASE c # "opus"
  <2>1. p = [wire_rate |-> f.rate, frame_samples |-> LosslessSamples, resampler |-> 0,
             repr |-> f.repr]
    BY <1>4 DEF wire_plan
  <2>2. QED
    BY <1>1, <1>3, <1>4, <2>1 DEF PlanFor
<1>5. CASE c = "opus" /\ f.rate = 48
  <2>1. p = [wire_rate |-> 48, frame_samples |-> OpusSamples48, resampler |-> 0,
             repr |-> f.repr]
    BY <1>5 DEF wire_plan
  <2>2. QED
    BY <1>1, <1>2, <1>3, <1>5, <2>1 DEF PlanFor
<1>6. CASE c = "opus" /\ f.rate = 44
  <2>1. p = [wire_rate |-> 44, frame_samples |-> OpusSamples44, resampler |-> 0,
             repr |-> f.repr]
    BY <1>6 DEF wire_plan
  <2>2. QED
    BY <1>1, <1>2, <1>3, <1>6, <2>1 DEF PlanFor
<1>7. CASE c = "opus" /\ f.rate \notin {44, 48}
  <2>1. p = [wire_rate |-> 48, frame_samples |-> OpusSamples48, resampler |-> f.rate,
             repr |-> f.repr]
    BY <1>7 DEF wire_plan
  <2>2. QED
    BY <1>1, <1>2, <1>3, <1>7, <2>1 DEF PlanFor
<1>8. QED
  BY <1>4, <1>5, <1>6, <1>7

\* The captured bytes of one block.
Block(n) == [i \in 1..n |-> [n |-> Len(captured) + i, fmt |-> source]]

LEMMA BlockFacts ==
    ASSUME EmitterTypeOK, NEW n \in BlockSizes
    PROVE  /\ n \in Nat \ {0} /\ Block(n) \in Seq(Byte) /\ Len(Block(n)) = n
           /\ \A i \in 1..n : Block(n)[i].n = Len(captured) + i /\ Block(n)[i].fmt = source
<1>1. n \in Nat \ {0}
  BY SinkAssumption DEF SinkAssumption
<1>2. Len(captured) \in Nat /\ source \in SinkFormats
  BY LenProperties DEF EmitterTypeOK
<1>3. \A i \in 1..n : [n |-> Len(captured) + i, fmt |-> source] \in Byte
  BY <1>1, <1>2 DEF Byte
<1>4. Block(n) \in [1..n -> Byte]
  BY <1>3 DEF Block
<1>5. Block(n) \in Seq(Byte) /\ Len(Block(n)) = n
  BY <1>1, <1>4, Tabulated
<1>6. QED
  BY <1>1, <1>5 DEF Block

\* Where the jth byte that is resampled by a factor of n comes from.
From(j, n) == 4 * ((j - 1) \div (4 * n)) + ((j - 1) % 4) + 1

LEMMA FromFacts ==
    ASSUME NEW n \in Nat, NEW len \in Nat, NEW j \in 1..(4 * n * (len \div 4))
    PROVE  /\ From(j, n) \in 1..len
           /\ (From(j, n) - j) % 4 = 0
           /\ j % 4 # 0 => From(j + 1, n) = From(j, n) + 1
<1>1. PICK L \in Nat : L = len \div 4 /\ 4 * L <= len
  <2>1. /\ len \div 4 \in Nat /\ (len \div 4) * 4 <= len
    BY WholeFrames
  <2>2. QED
    BY <2>1
<1>2. n # 0
  <2>1. SUFFICES ASSUME n = 0 PROVE FALSE
    OBVIOUS
  <2>2. 4 * n * L = 0
    BY <2>1
  <2>3. QED
    BY <1>1, <2>2
<1>3. PICK w \in Nat \ {0} : w = 4 * n
  BY <1>2
<1>4. PICK q \in Int, r \in 0..(w - 1) : j - 1 = w * q + r /\ (j - 1) \div w = q
  <2>1. j - 1 \in Int
    OBVIOUS
  <2>2. (j - 1) \div w \in Int /\ (j - 1) % w \in 0..(w - 1)
        /\ j - 1 = w * ((j - 1) \div w) + ((j - 1) % w)
    BY <2>1, DivMod
  <2>3. QED
    BY <2>2
<1>5. PICK t \in Int, s \in 0..3 : j - 1 = 4 * t + s /\ (j - 1) % 4 = s
  <2>1. j - 1 \in Int /\ 4 \in Nat \ {0}
    OBVIOUS
  <2>2. \E t \in Int : \E s \in 0..(4 - 1) : j - 1 = 4 * t + s /\ (j - 1) % 4 = s
    BY <2>1, Decompose
  <2>3. QED
    BY <2>2
<1>6. q \in 0..(L - 1)
  <2>1. j - 1 < w * L /\ j - 1 >= 0
    BY <1>1, <1>3
  <2>2. q >= 0
    <3>1. SUFFICES ASSUME q <= -1 PROVE FALSE
      BY <1>4
    <3>2. w * q <= w * (-1)
      BY <3>1, <1>3, <1>4
    <3>3. QED
      BY <3>2, <2>1, <1>4
  <2>3. q < L
    <3>1. SUFFICES ASSUME q >= L PROVE FALSE
      BY <1>4, <1>1
    <3>2. w * q >= w * L
      BY <3>1, <1>1, <1>3, <1>4
    <3>3. QED
      BY <3>2, <2>1, <1>4
  <2>4. QED
    BY <2>2, <2>3, <1>1, <1>4
<1>7. From(j, n) = 4 * q + s + 1
  BY <1>3, <1>4, <1>5 DEF From
<1>8. From(j, n) \in 1..len
  BY <1>1, <1>5, <1>6, <1>7
<1>9. (From(j, n) - j) % 4 = 0
  <2>1. From(j, n) - j = 4 * (q - t) + 0
    BY <1>5, <1>6, <1>7
  <2>2. PICK d \in Int, k \in Int : d = From(j, n) - j /\ k = q - t /\ d = 4 * k + 0
    BY <1>6, <1>5, <1>8, <2>1
  <2>3. 0 \in 0..(4 - 1) /\ 4 \in Nat \ {0}
    OBVIOUS
  <2>4. d % 4 = 0
    BY <2>2, <2>3, ModUnique
  <2>5. QED
    BY <2>2, <2>4
<1>10. ASSUME j % 4 # 0
       PROVE  From(j + 1, n) = From(j, n) + 1
  <2>1. s # 3
    <3>1. SUFFICES ASSUME s = 3 PROVE FALSE
      OBVIOUS
    <3>2. j = 4 * (t + 1) + 0
      BY <3>1, <1>5
    <3>3. j % 4 = 0
      BY <3>2, <1>5
    <3>4. QED
      BY <3>3, <1>10
  <2>2. j = 4 * t + (s + 1) /\ s + 1 \in 0..3
    BY <2>1, <1>5
  <2>3. j % 4 = s + 1
    BY <2>2, <1>5, ModUnique
  <2>4. r + 1 \in 0..(w - 1)
    <3>1. SUFFICES ASSUME r = w - 1 PROVE FALSE
      BY <1>3, <1>4
    <3>2. PICK x \in Int : x = n * q
      BY <1>6
    <3>3. w * q = 4 * x
      BY <3>2, <1>3, <1>6
    <3>4. j - 1 = 4 * x + (4 * n - 1)
      BY <3>1, <3>3, <1>3, <1>4
    <3>5. 4 * (x + n - 1 - t) = s - 3
      BY <3>4, <3>2, <1>5
    <3>6. QED
      BY <3>5, <3>2, <2>1, <1>5
  <2>5. j = w * q + (r + 1)
    BY <1>4, <1>3
  <2>6. j \div w = q
    BY <2>4, <2>5, <1>3, <1>4, DivModUnique
  <2>7. (j + 1) - 1 = j
    OBVIOUS
  <2>8. From(j + 1, n) = 4 * q + (s + 1) + 1
    BY <2>3, <2>6, <2>7, <1>3 DEF From
  <2>9. QED
    BY <2>8, <1>7, <1>5, <1>6
<1>11. QED
  BY <1>8, <1>9, <1>10

LEMMA ResampleFacts ==
    ASSUME EmitterTypeOK, sink.resampler # 0, NEW b \in Seq(Byte)
    PROVE  \E n \in Nat \ {0} : \E len \in Nat :
             /\ n = 48 \div sink.resampler /\ len = 4 * n * (Len(b) \div 4)
             /\ Resample(b) \in Seq(Byte) /\ Len(Resample(b)) = len
             /\ \A j \in 1..len : Resample(b)[j] = b[From(j, n)] /\ From(j, n) \in 1..Len(b)
<1>1. sink.resampler \in 1..48
  BY DEF EmitterTypeOK
<1>2. PICK n \in Nat \ {0} : n = 48 \div sink.resampler
  <2>1. PICK r \in 1..48 : r = sink.resampler
    BY <1>1
  <2>2. 48 \div r \in Int /\ 48 % r \in 0..(r - 1) /\ 48 = r * (48 \div r) + (48 % r)
    <3>1. 48 \in Int /\ r \in Nat \ {0}
      OBVIOUS
    <3>2. QED
      BY <3>1, DivMod, Zenon
  <2>3. PICK d \in Int, m \in 0..(r - 1) : d = 48 \div r /\ 48 = r * d + m
    BY <2>2
  <2>4. d >= 1
    <3>1. SUFFICES ASSUME d <= 0 PROVE FALSE
      BY <2>3
    <3>2. PICK x \in Int : x = r * d
      BY <2>3
    <3>3. x <= 0
      BY <3>1, <3>2, <2>3
    <3>4. 48 = x + m
      BY <3>2, <2>3
    <3>5. QED
      BY <3>3, <3>4
  <2>5. QED
    BY <2>1, <2>3, <2>4
<1>3. PICK L \in Nat : L = Len(b) \div 4
  <2>1. Len(b) \in Nat
    BY LenProperties
  <2>2. QED
    BY <2>1, WholeFrames
<1>4. PICK len \in Nat : len = 4 * n * L
  BY <1>2, <1>3
<1>5. \A j \in 1..len : From(j, n) \in 1..Len(b)
  <2>1. Len(b) \in Nat
    BY LenProperties
  <2>2. QED
    BY <1>2, <1>3, <1>4, <2>1, FromFacts
<1>6. Resample(b) = [j \in 1..len |-> b[From(j, n)]]
  BY <1>2, <1>3, <1>4 DEF Resample, From
<1>7. \A j \in 1..len : b[From(j, n)] \in Byte
  BY <1>5, ElementOfSeq
<1>8. Resample(b) \in [1..len -> Byte]
  BY <1>6, <1>7
<1>9. Resample(b) \in Seq(Byte) /\ Len(Resample(b)) = len
  BY <1>8, Tabulated
<1>10. len = 4 * n * (Len(b) \div 4)
  BY <1>3, <1>4
<1>11. QED
  BY <1>2, <1>5, <1>6, <1>9, <1>10

\* What a block adds to the accumulator, and the accumulator with it.
Added(n) == IF sink.resampler = 0 THEN Block(n) ELSE Resample(Block(n))
All(n)   == sink.acc \o Added(n)

LEMMA AllFacts ==
    ASSUME EmitterTypeOK, NEW n \in BlockSizes
    PROVE  /\ Added(n) \in Seq(Byte) /\ All(n) \in Seq(Byte)
           /\ Len(sink.acc) \in Nat /\ Len(Added(n)) \in Nat
           /\ Len(All(n)) = Len(sink.acc) + Len(Added(n))
           /\ \A i \in 1..Len(sink.acc) : All(n)[i] = sink.acc[i]
           /\ \A i \in 1..Len(Added(n)) : All(n)[Len(sink.acc) + i] = Added(n)[i]
           /\ \A i \in 1..Len(Added(n)) : \E j \in 1..n : Added(n)[i] = Block(n)[j]
           /\ sink.resampler = 0 => Added(n) = Block(n)
<1>1. /\ Block(n) \in Seq(Byte) /\ Len(Block(n)) = n /\ n \in Nat \ {0}
      /\ sink.acc \in Seq(Byte)
  BY BlockFacts DEF EmitterTypeOK
<1>2. /\ Added(n) \in Seq(Byte)
      /\ \A i \in 1..Len(Added(n)) : \E j \in 1..n : Added(n)[i] = Block(n)[j]
  <2>1. CASE sink.resampler = 0
    BY <1>1, <2>1 DEF Added
  <2>2. CASE sink.resampler # 0
    <3>1. PICK f \in Nat \ {0}, len \in Nat :
            /\ Resample(Block(n)) \in Seq(Byte) /\ Len(Resample(Block(n))) = len
            /\ \A j \in 1..len : /\ Resample(Block(n))[j] = Block(n)[From(j, f)]
                                 /\ From(j, f) \in 1..Len(Block(n))
      BY <1>1, <2>2, ResampleFacts
    <3>2. QED
      BY <1>1, <2>2, <3>1 DEF Added
  <2>3. QED
    BY <2>1, <2>2
<1>3. PICK a \in Nat, d \in Nat : a = Len(sink.acc) /\ d = Len(Added(n))
  BY <1>1, <1>2, LenProperties
<1>4. /\ All(n) \in Seq(Byte) /\ Len(All(n)) = a + d
      /\ \A i \in 1..(a + d) :
           All(n)[i] = IF i <= a THEN sink.acc[i] ELSE Added(n)[i - a]
  BY <1>1, <1>2, <1>3, ConcatProperties DEF All
<1>5. \A i \in 1..a : All(n)[i] = sink.acc[i]
  BY <1>4
<1>6. \A i \in 1..d : All(n)[a + i] = Added(n)[i]
  <2>1. SUFFICES ASSUME NEW i \in 1..d PROVE All(n)[a + i] = Added(n)[i]
    OBVIOUS
  <2>2. a + i \in 1..(a + d) /\ ~(a + i <= a) /\ (a + i) - a = i
    BY <1>3
  <2>3. QED
    BY <1>4, <2>2
<1>7. QED
  BY <1>2, <1>3, <1>4, <1>5, <1>6 DEF Added

\* A frame holds its share of the accumulator.
LEMMA FrameFacts ==
    ASSUME EmitterTypeOK, NEW a \in Seq(Byte), NEW i \in 1..CutAll(a)
    PROVE  /\ Frame(a, i) \in AudioItem
           /\ Frame(a, i).kind = "audio"
           /\ Frame(a, i).seq = emitter.seq + i - 1
           /\ Frame(a, i).index = IF emitter.session = NoSession THEN NoSession
                                  ELSE emitter.session + i - 1
           /\ Frame(a, i).rate = sink.wire_rate /\ Frame(a, i).repr = sink.repr
           /\ Frame(a, i).bytes = Cut(a, i)
           /\ Cut(a, i) \in Seq(Byte) /\ Len(Cut(a, i)) = Whole
           /\ \A j \in 1..Whole : /\ Cut(a, i)[j] = a[(i - 1) * Whole + j]
                                  /\ (i - 1) * Whole + j \in 1..Len(a)
<1>1. PICK w \in Nat \ {0}, n \in Nat : w = Whole /\ n = Len(a)
  BY WholeIsSome, LenProperties
<1>2. i \in 0..CutAll(a) /\ i - 1 \in 0..CutAll(a) /\ CutAll(a) \in Nat
  <2>1. CutAll(a) \in Nat
    BY <1>1, WholeFrames DEF CutAll
  <2>2. QED
    BY <2>1
<1>3. i * w \in 0..n /\ (i - 1) * w \in 0..n
  BY <1>1, <1>2, CutFacts
<1>4. PICK p \in 0..n, q \in 0..n : p = (i - 1) * w /\ q = i * w
  BY <1>3
<1>5. q = p + w
  BY <1>1, <1>4
<1>6. /\ SubSeq(a, p + 1, q) \in Seq(Byte) /\ Len(SubSeq(a, p + 1, q)) = q - p
      /\ \A j \in 1..(q - p) : SubSeq(a, p + 1, q)[j] = a[p + j]
  <2>1. q \in 0..Len(a)
    BY <1>1, <1>4
  <2>2. p \in 0..q
    BY <1>1, <1>4, <1>5
  <2>3. QED
    BY <2>1, <2>2, Slice, ZenonT(30)
<1>7. Cut(a, i) = SubSeq(a, p + 1, q)
  BY <1>1, <1>4 DEF Cut
<1>8. q - p = w /\ \A j \in 1..w : p + j \in 1..n
  BY <1>1, <1>4, <1>5
<1>9. /\ Cut(a, i) \in Seq(Byte) /\ Len(Cut(a, i)) = w
      /\ \A j \in 1..w : Cut(a, i)[j] = a[p + j]
  BY <1>6, <1>7, <1>8
<1>10. /\ emitter.seq \in Nat /\ emitter.session \in Nat \cup {NoSession}
       /\ sink.wire_rate \in Nat /\ sink.repr \in {"i16", "i24"}
  BY DEF EmitterTypeOK
<1>11. emitter.session # NoSession => emitter.session \in Nat
  BY <1>10
<1>12. PICK s \in Nat, x \in Nat \cup {NoSession} :
         /\ s = emitter.seq + i - 1
         /\ x = IF emitter.session = NoSession THEN NoSession ELSE emitter.session + i - 1
  <2>1. i - 1 \in Nat /\ i \in Nat
    BY <1>2
  <2>2. emitter.seq + i - 1 \in Nat
    BY <2>1, <1>10
  <2>3. emitter.session \in Nat => emitter.session + i - 1 \in Nat
    BY <2>1
  <2>4. QED
    BY <2>2, <2>3, <1>11
<1>13. Frame(a, i) = [kind |-> "audio", seq |-> s, index |-> x, rate |-> sink.wire_rate,
                      repr |-> sink.repr, bytes |-> Cut(a, i)]
  BY <1>12 DEF Frame
<1>14. Frame(a, i) \in AudioItem
  BY <1>9, <1>10, <1>13 DEF AudioItem
<1>15. QED
  BY <1>1, <1>4, <1>8, <1>9, <1>12, <1>13, <1>14

\* The frames that are sent of what a block completes.
Sent(n, m) == [i \in 1..m |-> Frame(All(n), i)]

LEMMA SentFacts ==
    ASSUME EmitterTypeOK, NEW n \in BlockSizes, NEW m \in 0..CutAll(All(n))
    PROVE  /\ Sent(n, m) \in Seq(AudioItem) /\ Len(Sent(n, m)) = m
           /\ \A i \in 1..m : Sent(n, m)[i] = Frame(All(n), i) /\ i \in 1..CutAll(All(n))
           /\ CutAll(All(n)) \in Nat
<1>1. All(n) \in Seq(Byte)
  BY AllFacts
<1>2. CutAll(All(n)) \in Nat
  BY <1>1, WholeIsSome, LenProperties, WholeFrames DEF CutAll
<1>3. \A i \in 1..m : i \in 1..CutAll(All(n))
  BY <1>2
<1>4. \A i \in 1..m : Frame(All(n), i) \in AudioItem
  BY <1>1, <1>3, FrameFacts
<1>5. m \in Nat /\ Sent(n, m) \in [1..m -> AudioItem]
  BY <1>2, <1>4 DEF Sent
<1>6. Sent(n, m) \in Seq(AudioItem) /\ Len(Sent(n, m)) = m
  BY <1>5, Tabulated
<1>7. QED
  BY <1>2, <1>3, <1>6 DEF Sent

-----------------------------------------------------------------------------
\* Frames gone from the accumulator when m were sent.
Gone(n, m) == IF m = CutAll(All(n)) THEN m ELSE m + 1

LEMMA BlockStep ==
    ASSUME EmitterTypeOK, NEW n \in BlockSizes, OnBlock(n)
    PROVE  \E m \in 0..CutAll(All(n)) :
             /\ connection = "closed" \/ Diverged => m = 0
             /\ connection' = IF m < CutAll(All(n)) /\ ~Diverged THEN "closed" ELSE connection
             /\ wire' = wire \o Sent(n, m)
             /\ sink' = [sink EXCEPT !.acc = Rest(All(n), Gone(n, m))]
             /\ emitter' = [seq |-> emitter.seq + m,
                            session |-> IF emitter.session = NoSession \/ Diverged
                                        THEN emitter.session
                                        ELSE emitter.session + Gone(n, m)]
             /\ sealings' = IF emitter.session = NoSession \/ Diverged THEN sealings
                            ELSE sealings \cup
                                 {<<emitter.session + i - 1, Cut(All(n), i)>> : i \in 1..Gone(n, m)}
             /\ captured' = captured \o Block(n)
             /\ framed' = framed \o SubSeq(All(n), 1, m * Whole)
             /\ failed' = (failed \/ m < CutAll(All(n)))
             /\ Gone(n, m) \in 0..CutAll(All(n)) /\ m \in Nat /\ CutAll(All(n)) \in Nat
<1>1. \E m \in 0..CutAll(All(n)) :
        /\ connection = "closed" \/ Diverged => m = 0
        /\ connection' = IF m < CutAll(All(n)) /\ ~Diverged THEN "closed" ELSE connection
        /\ wire' = wire \o Sent(n, m)
        /\ sink' = [sink EXCEPT !.acc =
                      Rest(All(n), IF m = CutAll(All(n)) THEN CutAll(All(n)) ELSE m + 1)]
        /\ emitter' = [seq |-> emitter.seq + m,
                       session |-> IF emitter.session = NoSession \/ Diverged
                                   THEN emitter.session
                                   ELSE emitter.session + Used(m, CutAll(All(n)))]
        /\ sealings' = IF emitter.session = NoSession \/ Diverged THEN sealings
                       ELSE sealings \cup
                            {<<emitter.session + i - 1, Cut(All(n), i)>> :
                                i \in 1..(IF m = CutAll(All(n)) THEN m ELSE m + 1)}
        /\ captured' = captured \o Block(n)
        /\ framed' = framed \o SubSeq(All(n), 1, m * Whole)
        /\ failed' = (failed \/ m < CutAll(All(n)))
  BY Zenon DEF OnBlock, All, Added, Block, Sent
<1>2. CutAll(All(n)) \in Nat
  BY AllFacts, WholeIsSome, LenProperties, WholeFrames DEF CutAll
<1>3. ASSUME NEW m \in 0..CutAll(All(n))
      PROVE  Gone(n, m) \in 0..CutAll(All(n)) /\ m \in Nat
  BY <1>2 DEF Gone
<1>4. ASSUME NEW m
      PROVE  /\ (IF m = CutAll(All(n)) THEN CutAll(All(n)) ELSE m + 1) = Gone(n, m)
             /\ Used(m, CutAll(All(n))) = Gone(n, m)
             /\ (IF m = CutAll(All(n)) THEN m ELSE m + 1) = Gone(n, m)
  BY DEF Gone, Used
<1>5. QED
  BY <1>1, <1>2, <1>3, <1>4, Zenon

\* What a block leaves alone, and what it counts.
LEMMA BlockKeeps ==
    ASSUME EmitterTypeOK, NEW n \in BlockSizes, OnBlock(n)
    PROVE  /\ phase = "live" /\ UNCHANGED <<phase, codec, secure, rx, source>>
           /\ taken' = taken + n /\ taken + n <= MaxBytes
           /\ ragged' = (ragged \/ (sink.resampler # 0 /\ n % 4 # 0))
           /\ sink'.wire_rate = sink.wire_rate /\ sink'.frame_samples = sink.frame_samples
           /\ sink'.resampler = sink.resampler /\ sink'.repr = sink.repr
           /\ Whole' = Whole
<1>1. PICK m : sink' = [sink EXCEPT !.acc = Rest(All(n), Gone(n, m))]
  BY BlockStep
<1>2. /\ sink'.wire_rate = sink.wire_rate /\ sink'.frame_samples = sink.frame_samples
      /\ sink'.resampler = sink.resampler /\ sink'.repr = sink.repr
  BY <1>1 DEF EmitterTypeOK
<1>3. Whole' = Whole
  BY <1>2 DEF Whole, Bytes
<1>4. QED
  BY <1>2, <1>3 DEF OnBlock

\* What the sequences are after a block of which m frames were sent.
LEMMA BlockSequences ==
    ASSUME EmitterTypeOK, NEW n \in BlockSizes, NEW m \in 0..CutAll(All(n)),
           sink' = [sink EXCEPT !.acc = Rest(All(n), Gone(n, m))],
           wire' = wire \o Sent(n, m),
           captured' = captured \o Block(n),
           framed' = framed \o SubSeq(All(n), 1, m * Whole)
    PROVE  /\ sink'.acc = Rest(All(n), Gone(n, m)) /\ sink'.acc \in Seq(Byte)
           /\ Gone(n, m) * Whole \in 0..Len(All(n)) /\ m * Whole \in 0..Len(All(n))
           /\ Len(sink'.acc) = Len(All(n)) - Gone(n, m) * Whole
           /\ \A j \in 1..Len(sink'.acc) : sink'.acc[j] = All(n)[Gone(n, m) * Whole + j]
           /\ wire' \in Seq(AudioItem \cup EndItem) /\ Len(wire') = Len(wire) + m
           /\ Len(wire) \in Nat
           /\ \A j \in 1..Len(wire) : wire'[j] = wire[j]
           /\ \A i \in 1..m : /\ wire'[Len(wire) + i] = Frame(All(n), i)
                              /\ i \in 1..CutAll(All(n))
           /\ captured' \in Seq(Byte) /\ Len(captured') = Len(captured) + n
           /\ Len(captured) \in Nat
           /\ \A j \in 1..Len(captured) : captured'[j] = captured[j]
           /\ \A j \in 1..n : captured'[Len(captured) + j] = Block(n)[j]
           /\ framed' \in Seq(Byte) /\ Len(framed') = Len(framed) + m * Whole
           /\ Len(framed) \in Nat
           /\ \A j \in 1..Len(framed) : framed'[j] = framed[j]
           /\ \A j \in 1..(m * Whole) : framed'[Len(framed) + j] = All(n)[j]
<1> DEFINE all == All(n)
           g == Gone(n, m)
<1>1. all \in Seq(Byte) /\ CutAll(all) \in Nat /\ g \in 0..CutAll(all) /\ m \in Nat
      /\ m \in 0..CutAll(all)
  <2>1. All(n) \in Seq(Byte) /\ CutAll(All(n)) \in Nat
    BY AllFacts, SentFacts, Zenon
  <2>2. PICK k \in Nat : k = CutAll(All(n))
    BY <2>1
  <2>3. m \in 0..k /\ g = IF m = k THEN m ELSE m + 1
    BY <2>2 DEF Gone
  <2>4. g \in 0..k /\ m \in Nat
    BY <2>2, <2>3
  <2>5. QED
    BY <2>1, <2>2, <2>3, <2>4
<1> HIDE DEF all
<1>2. /\ Rest(all, g) \in Seq(Byte) /\ Len(Rest(all, g)) = Len(all) - g * Whole
      /\ g * Whole \in 0..Len(all)
      /\ \A j \in 1..Len(Rest(all, g)) : Rest(all, g)[j] = all[g * Whole + j]
  BY <1>1, CutFacts
<1>3. /\ m * Whole \in 0..Len(all)
      /\ SubSeq(all, 1, m * Whole) \in Seq(Byte) /\ Len(SubSeq(all, 1, m * Whole)) = m * Whole
      /\ \A j \in 1..(m * Whole) : SubSeq(all, 1, m * Whole)[j] = all[j]
  BY <1>1, CutFacts DEF all
<1>4. sink'.acc = Rest(all, g)
  BY DEF EmitterTypeOK, all
<1>5. /\ wire' \in Seq(AudioItem \cup EndItem) /\ Len(wire') = Len(wire) + m /\ Len(wire) \in Nat
      /\ \A j \in 1..Len(wire) : wire'[j] = wire[j]
      /\ \A i \in 1..m : wire'[Len(wire) + i] = Frame(all, i)
  <2>1. Sent(n, m) \in Seq(AudioItem) /\ Len(Sent(n, m)) = m
        /\ \A i \in 1..m : Sent(n, m)[i] = Frame(all, i)
    BY SentFacts DEF all
  <2>2. wire \in Seq(AudioItem \cup EndItem) /\ Sent(n, m) \in Seq(AudioItem \cup EndItem)
    <3>1. Seq(AudioItem) \subseteq Seq(AudioItem \cup EndItem)
      BY SeqMonotonic
    <3>2. QED
      BY <2>1, <3>1 DEF EmitterTypeOK
  <2> DEFINE new == wire \o Sent(n, m)
  <2>3. /\ new \in Seq(AudioItem \cup EndItem) /\ Len(wire) \in Nat
        /\ Len(new) = Len(wire) + Len(Sent(n, m))
        /\ \A j \in 1..Len(wire) : new[j] = wire[j]
        /\ \A i \in 1..Len(Sent(n, m)) : new[Len(wire) + i] = Sent(n, m)[i]
    BY <2>2, Joined, SMT
  <2>4. wire' = new
    OBVIOUS
  <2> HIDE DEF new
  <2>5. QED
    BY <2>1, <2>3, <2>4
<1>6. /\ captured' \in Seq(Byte) /\ Len(captured') = Len(captured) + n /\ Len(captured) \in Nat
      /\ \A j \in 1..Len(captured) : captured'[j] = captured[j]
      /\ \A j \in 1..n : captured'[Len(captured) + j] = Block(n)[j]
  <2>1. captured \in Seq(Byte) /\ Block(n) \in Seq(Byte) /\ Len(Block(n)) = n
    BY BlockFacts DEF EmitterTypeOK
  <2> DEFINE new == captured \o Block(n)
  <2>2. /\ new \in Seq(Byte) /\ Len(captured) \in Nat
        /\ Len(new) = Len(captured) + Len(Block(n))
        /\ \A j \in 1..Len(captured) : new[j] = captured[j]
        /\ \A j \in 1..Len(Block(n)) : new[Len(captured) + j] = Block(n)[j]
    BY <2>1, Joined, SMT
  <2>3. captured' = new
    OBVIOUS
  <2> HIDE DEF new
  <2>4. QED
    BY <2>1, <2>2, <2>3
<1>7. /\ framed' \in Seq(Byte) /\ Len(framed') = Len(framed) + m * Whole /\ Len(framed) \in Nat
      /\ \A j \in 1..Len(framed) : framed'[j] = framed[j]
      /\ \A j \in 1..(m * Whole) : framed'[Len(framed) + j] = all[j]
  <2>1. framed \in Seq(Byte) /\ framed' = framed \o SubSeq(all, 1, m * Whole)
    BY DEF EmitterTypeOK, all
  <2>2. PICK p : p = m * Whole
    OBVIOUS
  <2>3. SubSeq(all, 1, p) \in Seq(Byte) /\ Len(SubSeq(all, 1, p)) = p
        /\ \A j \in 1..p : SubSeq(all, 1, p)[j] = all[j]
    BY <1>3, <2>2
  <2>4. /\ framed' \in Seq(Byte) /\ Len(framed') = Len(framed) + p /\ Len(framed) \in Nat
        /\ \A j \in 1..Len(framed) : framed'[j] = framed[j]
        /\ \A j \in 1..p : framed'[Len(framed) + j] = SubSeq(all, 1, p)[j]
    <3>1. PICK h \in Seq(Byte) :
            /\ h = SubSeq(all, 1, p) /\ Len(h) = p /\ framed' = framed \o h
            /\ \A j \in 1..p : h[j] = all[j]
      BY <2>1, <2>2, <2>3
    <3>2. /\ framed \o h \in Seq(Byte) /\ Len(framed) \in Nat
          /\ Len(framed \o h) = Len(framed) + Len(h)
          /\ \A j \in 1..Len(framed) : (framed \o h)[j] = framed[j]
          /\ \A j \in 1..Len(h) : (framed \o h)[Len(framed) + j] = h[j]
      BY <2>1, Joined, SMTT(30)
    <3>3. PICK new, l : new = framed \o h /\ l = Len(framed)
      OBVIOUS
    <3>4. /\ new \in Seq(Byte) /\ l \in Nat /\ Len(new) = l + p
          /\ \A j \in 1..l : new[j] = framed[j]
          /\ \A j \in 1..p : new[l + j] = h[j]
      BY <3>1, <3>2, <3>3
    <3>5. framed' = new /\ h = SubSeq(all, 1, p)
      BY <3>1, <3>3
    <3>6. QED
      BY <3>3, <3>4, <3>5, Zenon
  <2>5. QED
    BY <2>2, <2>3, <2>4
<1>8. \A i \in 1..m : i \in 1..CutAll(all)
  BY <1>1
<1>9. QED
  BY <1>2, <1>3, <1>4, <1>5, <1>6, <1>7, <1>8, ZenonT(30) DEF all

-----------------------------------------------------------------------------
\* A connected sink.
LEMMA SinkInitInv == SinkInit => SinkInv
<1> SUFFICES ASSUME SinkInit PROVE SinkInv
  OBVIOUS
<1> DEFINE p == wire_plan(codec, source)
<1>1. codec \in {"flac", "pcm", "opus"} /\ source \in SinkFormats /\ ~Refused(codec, source)
  <2>1. codec \in {"flac", "pcm", "opus"} /\ (secure => codec # "opus")
    BY SinkAssumption DEF SinkInit, SinkAssumption, Lossless
  <2>2. CASE secure
    <3>1. source = [rate |-> 48, repr |-> "i16"]
      BY <2>2 DEF SinkInit, Canonical
    <3>2. ~Refused(codec, source)
      BY <2>1, <2>2, <3>1 DEF Refused
    <3>3. QED
      BY <2>1, <3>1, <3>2 DEF SinkFormats, Canonical
  <2>3. CASE ~secure
    <3>1. source \in {f \in Formats : ~Refused(codec, f)}
      BY <2>3 DEF SinkInit
    <3>2. QED
      BY <2>1, <3>1 DEF SinkFormats
  <2>4. QED
    BY <2>2, <2>3
<1>2. PlanFor(codec, source, p)
  BY <1>1, PlanFacts
<1>3. sink = [wire_rate |-> p.wire_rate, frame_samples |-> p.frame_samples,
              resampler |-> p.resampler, repr |-> p.repr, acc |-> << >>]
  BY DEF SinkInit, WithAcc
<1> HIDE DEF p
<1>4. /\ captured = << >> /\ framed = << >> /\ sink.acc = << >> /\ wire = << >>
      /\ taken = 0 /\ phase = "live"
      /\ emitter \in [seq : Nat, session : Nat \cup {NoSession}]
  BY <1>3 DEF SinkInit, NoSession
<1>5. /\ << >> \in Seq(Byte) /\ << >> \in Seq(AudioItem \cup EndItem) /\ Len(<< >>) = 0
      /\ DOMAIN << >> = {} /\ << >> \o << >> = << >>
  OBVIOUS
<1>6. EmitterTypeOK
  <2>1. sink \in [wire_rate : Nat \ {0}, frame_samples : Nat \ {0}, resampler : 0..48,
                  repr : {"i16", "i24"}, acc : Seq(Byte)]
    BY <1>2, <1>3, <1>5 DEF PlanFor
  <2>2. taken \in 0..MaxBytes /\ Len(captured) <= taken
    BY <1>4, <1>5, SinkAssumption DEF SinkAssumption
  <2>3. QED
    BY <1>1, <1>4, <1>5, <2>1, <2>2 DEF EmitterTypeOK
<1>7. PlanFollows
  BY <1>2, <1>3, <1>4, <1>5 DEF PlanFollows, Declares, PlanFor
<1>8. Copied
  <2>1. Len(captured) = 0 /\ Len(framed) = 0 /\ Len(sink.acc) = 0
    BY <1>4, <1>5
  <2>2. sink.resampler # 0 => 48 \div sink.resampler \in Int
    <3>1. sink.resampler \in 0..48
      BY <1>6 DEF EmitterTypeOK
    <3>2. QED
      BY <3>1, DivMod
  <2>3. sink.resampler # 0 => 0 + 0 = (48 \div sink.resampler) * 0
    BY <2>2
  <2>4. QED
    BY <1>4, <1>5, <2>1, <2>3 DEF Copied
<1>9. FramesAligned
  <2>1. Len(captured) = 0 /\ Len(framed) = 0 /\ Len(sink.acc) = 0 /\ Len(framed \o sink.acc) = 0
    BY <1>4, <1>5
  <2>2. Aligned(framed \o sink.acc, Len(captured))
    BY <2>1 DEF Aligned
  <2>3. 0 % 4 = 0 /\ (0 - 0 - 0) % 4 = 0
    OBVIOUS
  <2>4. QED
    BY <2>1, <2>2, <2>3 DEF FramesAligned
<1>10. QED
  BY <1>6, <1>7, <1>8, <1>9 DEF SinkInv

\* Steps that leave the emitting end alone.
LEMMA SinkQuiet ==
    SinkInv /\ UNCHANGED <<phase, codec, sink, emitter, wire, source, captured, framed,
                           ragged, failed, taken>>
    => SinkInv'
<1> SUFFICES ASSUME SinkInv, UNCHANGED <<phase, codec, sink, emitter, wire, source, captured,
                                         framed, ragged, failed, taken>>
             PROVE  SinkInv'
  OBVIOUS
<1>1. EmitterTypeOK'
  BY DEF SinkInv, EmitterTypeOK
<1>2. PlanFollows'
  BY DEF SinkInv, PlanFollows, Declares
<1>3. Copied'
  BY DEF SinkInv, Copied
<1>4. FramesAligned'
  BY DEF SinkInv, FramesAligned, Aligned
<1>5. QED
  BY <1>1, <1>2, <1>3, <1>4 DEF SinkInv

\* A new format is announced.
LEMMA OnFormatInv ==
    ASSUME SinkInv, NEW f \in Formats, OnFormat(f)
    PROVE  SinkInv'
<1> DEFINE p == wire_plan(codec, f)
<1>1. /\ EmitterTypeOK /\ PlanFollows /\ Copied /\ FramesAligned
      /\ codec \in {"flac", "pcm", "opus"} /\ f \in SinkFormats
  BY DEF SinkInv, EmitterTypeOK, SinkFormats
<1>2. UNCHANGED <<phase, codec, wire, failed, taken>>
  BY DEF OnFormat
<1>3. CASE UNCHANGED <<sink, emitter, source, captured, framed, ragged>>
  BY <1>2, <1>3, SinkQuiet
<1>4. ~Refused(codec, f) => PlanFor(codec, f, p)
  BY <1>1, PlanFacts
<1>5. CASE /\ ~Refused(codec, f) /\ SamePlan(p) /\ source' = f
           /\ UNCHANGED <<sink, emitter, captured, framed, ragged>>
  <2>1. /\ p.wire_rate = sink.wire_rate /\ (p.resampler # 0) = (sink.resampler # 0)
        /\ p.repr = sink.repr
    BY <1>5 DEF SamePlan
  <2> HIDE DEF p
  <2>2. EmitterTypeOK'
    BY <1>1, <1>2, <1>5 DEF EmitterTypeOK
  <2>3. PlanFollows'
    <3>1. /\ sink.repr = f.repr
          /\ sink.wire_rate = IF codec = "opus" /\ f.rate \notin {44, 48} THEN 48 ELSE f.rate
          /\ sink.resampler = 0 => f.rate = sink.wire_rate
      BY <1>4, <1>5, <2>1 DEF PlanFor
    <3>2. QED
      BY <1>1, <1>2, <1>5, <3>1 DEF PlanFollows, Declares
  <2>4. Copied' /\ FramesAligned'
    BY <1>1, <1>2, <1>5 DEF Copied, FramesAligned, Aligned
  <2>5. QED
    BY <2>2, <2>3, <2>4 DEF SinkInv
<1>6. CASE ~Refused(codec, f) /\ source' = f /\ Rebuild(f)
  <2>1. /\ sink' = [wire_rate |-> p.wire_rate, frame_samples |-> p.frame_samples,
                    resampler |-> p.resampler, repr |-> p.repr, acc |-> << >>]
        /\ emitter' = [seq |-> 0, session |-> NoSession]
        /\ captured' = << >> /\ framed' = << >>
    BY <1>6 DEF Rebuild, WithAcc
  <2> HIDE DEF p
  <2>2. /\ << >> \in Seq(Byte) /\ Len(<< >>) = 0
        /\ DOMAIN << >> = {} /\ << >> \o << >> = << >>
    OBVIOUS
  <2>3. EmitterTypeOK'
    <3>1. sink' \in [wire_rate : Nat \ {0}, frame_samples : Nat \ {0}, resampler : 0..48,
                     repr : {"i16", "i24"}, acc : Seq(Byte)]
      BY <1>4, <1>6, <2>1, <2>2 DEF PlanFor
    <3>2. emitter' \in [seq : Nat, session : Nat \cup {NoSession}]
      BY <2>1
    <3>3. taken \in 0..MaxBytes => Len(captured') <= taken
      BY <2>1, <2>2
    <3>4. QED
      BY <1>1, <1>2, <1>6, <2>1, <2>2, <3>1, <3>2, <3>3 DEF EmitterTypeOK
  <2>4. PlanFollows'
    <3>1. /\ sink'.wire_rate = p.wire_rate /\ sink'.resampler = p.resampler
          /\ sink'.repr = p.repr /\ sink'.acc = << >>
      BY <2>1
    <3>2. QED
      BY <1>1, <1>2, <1>4, <1>6, <2>1, <2>2, <3>1 DEF PlanFollows, Declares, PlanFor
  <2>5. Copied'
    <3>1. /\ sink'.acc = << >> /\ sink'.resampler = p.resampler
          /\ Len(captured') = 0 /\ Len(framed') = 0 /\ Len(sink'.acc) = 0
      BY <2>1, <2>2
    <3>2. p.resampler # 0 => 48 \div p.resampler \in Int
      BY <1>4, <1>6 DEF PlanFor
    <3>3. p.resampler # 0 => 0 + 0 = (48 \div p.resampler) * 0
      BY <3>2
    <3>4. QED
      BY <2>1, <2>2, <3>1, <3>3 DEF Copied
  <2>6. FramesAligned'
    <3>1. /\ sink'.acc = << >> /\ sink'.repr = p.repr /\ sink'.resampler = p.resampler
          /\ Len(captured') = 0 /\ Len(framed') = 0 /\ Len(sink'.acc) = 0
          /\ framed' \o sink'.acc = << >>
      BY <2>1, <2>2
    <3>2. Aligned(framed \o sink.acc, Len(captured))'
      BY <3>1, <2>2 DEF Aligned
    <3>3. 0 % 4 = 0 /\ (0 - 0 - 0) % 4 = 0
      OBVIOUS
    <3>4. QED
      BY <3>1, <3>2, <3>3 DEF FramesAligned
  <2>7. QED
    BY <2>3, <2>4, <2>5, <2>6 DEF SinkInv
<1>7. QED
  BY <1>3, <1>5, <1>6 DEF OnFormat

-----------------------------------------------------------------------------
LEMMA ByteFacts ==
    ASSUME NEW s \in Seq(Byte), NEW i \in 1..Len(s)
    PROVE  s[i] \in Byte /\ s[i].n \in Nat \ {0} /\ s[i].fmt \in SinkFormats
<1>1. s[i] \in Byte
  BY ElementOfSeq
<1>2. QED
  BY <1>1 DEF Byte

LEMMA FoursShift ==
    ASSUME NEW i \in Int, NEW d \in Int, NEW v \in Int, d % 4 = 0, (v - (i + d)) % 4 = 0
    PROVE  (v - i) % 4 = 0 /\ ((i + d) % 4 = 0 <=> i % 4 = 0)
<1>1. PICK a \in Int, b \in Int : d = 4 * a /\ v - (i + d) = 4 * b
  <2>1. d = 4 * (d \div 4) + (d % 4) /\ d \div 4 \in Int
    OBVIOUS
  <2>2. \A x \in Int : x % 4 = 0 => \E k \in Int : x = 4 * k
    OBVIOUS
  <2>3. QED
    BY <2>2
<1>2. v - i = 4 * (a + b)
  BY <1>1
<1>3. QED
  BY <1>1, <1>2

LEMMA FoursAdd ==
    ASSUME NEW a \in Nat, NEW b \in Nat, NEW c \in Nat, NEW j \in Nat, NEW k \in Nat,
           a % 4 = 0, b % 4 = 0
    PROVE  /\ (a + b) % 4 = 0 /\ ((a + b + j) % 4 # 0 => j % 4 # 0)
           /\ c % 4 = 0 /\ (k - j) % 4 = 0 => ((c + k) - (a + b + j)) % 4 = 0
<1>1. \A x \in Int : x % 4 = 0 => \E q \in Int : x = 4 * q
  OBVIOUS
<1>2. PICK p \in Int, q \in Int : a = 4 * p /\ b = 4 * q
  BY <1>1
<1>3. (a + b) % 4 = 0 /\ ((a + b + j) % 4 # 0 => j % 4 # 0)
  BY <1>2
<1>4. ASSUME c % 4 = 0, (k - j) % 4 = 0
      PROVE  ((c + k) - (a + b + j)) % 4 = 0
  <2>1. k - j \in Int
    OBVIOUS
  <2>2. PICK r \in Int, s \in Int : c = 4 * r /\ k - j = 4 * s
    BY <1>1, <1>4, <2>1
  <2>3. (c + k) - (a + b + j) = 4 * (r + s - p - q)
    BY <1>2, <2>2
  <2>4. QED
    BY <2>2, <2>3, <1>2
<1>5. QED
  BY <1>3, <1>4

\* Putting three sequences together.
LEMMA ThreeJoined ==
    ASSUME NEW s \in Seq(Byte), NEW t \in Seq(Byte), NEW u \in Seq(Byte)
    PROVE  (s \o t) \o u = s \o (t \o u)
BY ConcatAssociative

LEMMA Beyond ==
    ASSUME NEW x \in Nat, NEW y \in Nat, NEW i \in 1..(x + y), ~(i <= x)
    PROVE  \E j \in 1..y : i = x + j /\ i + 1 = x + (j + 1) /\ (i < x + y <=> j < y)
<1>1. i - x \in 1..y
  OBVIOUS
<1>2. i = x + (i - x) /\ i + 1 = x + ((i - x) + 1) /\ (i < x + y <=> i - x < y)
  OBVIOUS
<1>3. QED
  BY <1>1, <1>2

\* Sequences whose quads are stereo frames stay so when one is appended that
\* continues them, and when whole quads are taken out of them.
LEMMA JoinAligned ==
    ASSUME NEW s \in Seq(Byte), NEW u \in Seq(Byte), NEW b \in Nat, NEW c \in Nat, b <= c,
           Aligned(s, b),
           \A j \in 1..Len(u) :
             /\ (u[j].n - (Len(s) + j)) % 4 = 0 /\ u[j].n <= c
             /\ (Len(s) + j) % 4 # 0 /\ j < Len(u) => u[j + 1].n = u[j].n + 1,
           Len(s) % 4 # 0 /\ Len(u) # 0 => u[1].n = s[Len(s)].n + 1
    PROVE  Aligned(s \o u, c)
<1>1. PICK x \in Nat, y \in Nat : x = Len(s) /\ y = Len(u)
  BY LenProperties
<1>2. /\ Len(s \o u) = x + y
      /\ \A i \in 1..x : (s \o u)[i] = s[i]
      /\ \A i \in 1..y : (s \o u)[x + i] = u[i]
  BY <1>1, Joined
<1>3. PICK t : t = s \o u
  OBVIOUS
<1>4. \A i \in 1..x : s[i].n \in Nat
  BY <1>1, ByteFacts
<1>5. SUFFICES ASSUME NEW i \in 1..(x + y)
               PROVE  /\ (t[i].n - i) % 4 = 0 /\ t[i].n <= c
                      /\ i % 4 # 0 /\ i < x + y => t[i + 1].n = t[i].n + 1
  BY <1>2, <1>3 DEF Aligned
<1>6. CASE i <= x
  <2>1. (s[i].n - i) % 4 = 0 /\ s[i].n <= b /\ (i % 4 # 0 /\ i < x => s[i + 1].n = s[i].n + 1)
    BY <1>1, <1>6 DEF Aligned
  <2>2. t[i] = s[i] /\ (i < x => t[i + 1] = s[i + 1])
    BY <1>2, <1>3, <1>6
  <2>3. ASSUME i = x, i % 4 # 0, i < x + y
        PROVE  t[i + 1].n = t[i].n + 1
    <3>1. 1 \in 1..y
      BY <1>1, <2>3
    <3>2. t[x + 1] = u[1]
      BY <3>1, <1>2, <1>3
    <3>3. u[1].n = s[x].n + 1
      BY <1>1, <2>3
    <3>4. QED
      BY <2>2, <2>3, <3>2, <3>3
  <2>4. s[i].n <= c
    BY <2>1, <1>4, <1>6
  <2>5. i < x \/ i = x
    BY <1>1, <1>6
  <2>6. QED
    BY <2>1, <2>2, <2>3, <2>4, <2>5
<1>7. CASE ~(i <= x)
  <2>1. PICK j \in 1..y : i = x + j /\ i + 1 = x + (j + 1) /\ (i < x + y <=> j < y)
    BY <1>1, <1>7, Beyond, ZenonT(30)
  <2>2. t[i] = u[j] /\ (j < y => t[i + 1] = u[j + 1])
    BY <1>1, <1>2, <1>3, <2>1, SMTT(20)
  <2>3. /\ (u[j].n - (x + j)) % 4 = 0 /\ u[j].n <= c
        /\ (x + j) % 4 # 0 /\ j < y => u[j + 1].n = u[j].n + 1
    BY <1>1
  <2>4. i < x + y => j < y
    BY <1>1, <2>1
  <2>5. QED
    BY <2>1, <2>2, <2>3, <2>4
<1>8. QED
  BY <1>6, <1>7

LEMMA DropAligned ==
    ASSUME NEW s \in Seq(Byte), NEW t \in Seq(Byte), NEW b \in Nat, Aligned(s, b),
           NEW p \in Nat, NEW d \in Nat, p % 4 = 0, d % 4 = 0, p + d <= Len(s),
           Len(t) = Len(s) - d,
           \A i \in 1..Len(t) : t[i] = IF i <= p THEN s[i] ELSE s[i + d]
    PROVE  Aligned(t, b)
<1>1. PICK x \in Nat, y \in Nat : x = Len(s) /\ y = Len(t) /\ y = x - d /\ p <= y
  BY LenProperties
<1>2. \A i \in 1..x : s[i].n \in Nat
  BY <1>1, ByteFacts
<1>3. SUFFICES ASSUME NEW i \in 1..y
               PROVE  /\ (t[i].n - i) % 4 = 0 /\ t[i].n <= b
                      /\ i % 4 # 0 /\ i < y => t[i + 1].n = t[i].n + 1
  BY <1>1 DEF Aligned
<1>4. CASE i <= p
  <2>1. i \in 1..x
    BY <1>1
  <2>2. (s[i].n - i) % 4 = 0 /\ s[i].n <= b /\ (i % 4 # 0 /\ i < x => s[i + 1].n = s[i].n + 1)
    BY <1>1, <2>1 DEF Aligned
  <2>3. i % 4 # 0 => i < p /\ i + 1 <= p
    <3>1. i % 4 # 0 => i # p
      OBVIOUS
    <3>2. QED
      BY <3>1, <1>4
  <2>4. t[i] = s[i] /\ (i % 4 # 0 /\ i < y => t[i + 1] = s[i + 1] /\ i < x)
    <3>1. t[i] = s[i]
      BY <1>1, <1>4
    <3>2. ASSUME i + 1 <= p, i < y
          PROVE  t[i + 1] = s[i + 1] /\ i < x
      <4>1. i + 1 \in 1..y /\ i < x
        BY <1>1, <3>2
      <4>2. QED
        BY <4>1, <1>1, <3>2
    <3>3. QED
      BY <3>1, <3>2, <2>3
  <2>5. QED
    BY <2>2, <2>4
<1>5. CASE ~(i <= p)
  <2>1. PICK k \in 1..x : k = i + d /\ k + 1 = (i + 1) + d /\ (k < x <=> i < y)
    <3>1. i + d \in 1..x /\ (i + d) + 1 = (i + 1) + d /\ (i + d < x <=> i < y)
      BY <1>1
    <3>2. QED
      BY <3>1
  <2>2. (s[k].n - k) % 4 = 0 /\ s[k].n <= b /\ (k % 4 # 0 /\ k < x => s[k + 1].n = s[k].n + 1)
    BY <1>1, <2>1 DEF Aligned
  <2>3. t[i] = s[k] /\ (i < y => t[i + 1] = s[k + 1])
    <3>1. \A j \in 1..y : j <= p \/ t[j] = s[j + d]
      BY <1>1
    <3>2. t[i] = s[i + d]
      BY <1>5, <3>1
    <3>3. ASSUME i < y PROVE t[i + 1] = s[(i + 1) + d]
      <4>1. i + 1 \in 1..y /\ ~(i + 1 <= p)
        BY <1>5, <3>3
      <4>2. QED
        BY <3>1, <4>1
    <3>4. QED
      BY <2>1, <3>2, <3>3
  <2>4. PICK v \in Nat : v = s[k].n
    BY <1>2
  <2>5. (v - k) % 4 = 0
    BY <2>2, <2>4
  <2>6. (v - i) % 4 = 0 /\ (k % 4 = 0 <=> i % 4 = 0)
    <3>1. (v - (i + d)) % 4 = 0
      BY <2>1, <2>5
    <3>2. i \in Int /\ d \in Int /\ v \in Int
      OBVIOUS
    <3>3. (v - i) % 4 = 0 /\ ((i + d) % 4 = 0 <=> i % 4 = 0)
      BY <3>1, <3>2, FoursShift, Zenon
    <3>4. QED
      BY <2>1, <3>3, Zenon
  <2>7. QED
    BY <2>1, <2>2, <2>3, <2>4, <2>6
<1>6. QED
  BY <1>4, <1>5

\* What a block adds continues the frames and the accumulator.
LEMMA AddedAligned ==
    ASSUME SinkInv, NEW n \in BlockSizes, sink.repr = "i16", ~ragged,
           ~(sink.resampler # 0 /\ n % 4 # 0)
    PROVE  Aligned((framed \o sink.acc) \o Added(n), Len(captured) + n)
<1> DEFINE s == framed \o sink.acc
           u == Added(n)
<1>1. EmitterTypeOK /\ FramesAligned /\ Aligned(s, Len(captured))
  BY DEF SinkInv, FramesAligned
<1>2. /\ n \in Nat \ {0} /\ Block(n) \in Seq(Byte) /\ Len(Block(n)) = n
      /\ \A i \in 1..n : Block(n)[i].n = Len(captured) + i
  BY <1>1, BlockFacts
<1>3. u \in Seq(Byte) /\ (sink.resampler = 0 => u = Block(n))
  BY <1>1, AllFacts
<1>4. PICK F \in Nat, A \in Nat, C \in Nat :
        F = Len(framed) /\ A = Len(sink.acc) /\ C = Len(captured)
  <2>1. framed \in Seq(Byte) /\ sink.acc \in Seq(Byte) /\ captured \in Seq(Byte)
    BY <1>1 DEF EmitterTypeOK
  <2>2. QED
    BY <2>1, LenProperties
<1>5. /\ s \in Seq(Byte) /\ Len(s) = F + A
      /\ \A i \in 1..A : s[F + i] = sink.acc[i]
  <2>1. framed \in Seq(Byte) /\ sink.acc \in Seq(Byte)
    BY <1>1 DEF EmitterTypeOK
  <2>2. QED
    BY <1>4, <2>1, Joined
<1>6. F % 4 = 0
  BY <1>1, <1>4 DEF FramesAligned
<1>7. PICK c \in Nat : c = C + n /\ C <= c
  BY <1>2
<1> HIDE DEF s, u
<1>8. CASE sink.resampler = 0
  <2>1. (C - F - A) % 4 = 0 /\ (A % 4 # 0 => sink.acc[A].n = C)
    BY <1>1, <1>4, <1>8 DEF FramesAligned
  <2>2. Len(u) = n /\ \A j \in 1..n : u[j].n = C + j
    BY <1>2, <1>3, <1>4, <1>8
  <2>3. ASSUME NEW j \in 1..Len(u)
        PROVE  /\ (u[j].n - (Len(s) + j)) % 4 = 0 /\ u[j].n <= c
               /\ (Len(s) + j) % 4 # 0 /\ j < Len(u) => u[j + 1].n = u[j].n + 1
    <3>1. u[j].n = C + j /\ (j < n => u[j + 1].n = C + (j + 1)) /\ j \in 1..n
      <4>1. j \in 1..n /\ (j < n => j + 1 \in 1..n)
        <5>1. n \in Nat /\ Len(u) = n
          BY <1>2, <2>2
        <5>2. QED
          BY <5>1
      <4>2. QED
        BY <4>1, <2>2
    <3>2. (C + j) - (F + A + j) = C - F - A
      BY <3>1
    <3>3. C + j <= c /\ C + (j + 1) = (C + j) + 1
      BY <1>2, <1>7, <3>1
    <3>4. (u[j].n - (Len(s) + j)) % 4 = 0 /\ u[j].n <= c
      <4>1. u[j].n - (Len(s) + j) = C - F - A
        BY <1>5, <3>1, <3>2
      <4>2. (u[j].n - (Len(s) + j)) % 4 = 0
        BY <2>1, <4>1
      <4>3. QED
        BY <3>1, <3>3, <4>2
    <3>5. QED
      BY <2>2, <3>1, <3>3, <3>4
  <2>4. Len(s) % 4 # 0 /\ Len(u) # 0 => u[1].n = s[Len(s)].n + 1
    <3>1. SUFFICES ASSUME (F + A) % 4 # 0 PROVE u[1].n = s[F + A].n + 1
      BY <1>5
    <3>2. A % 4 # 0 /\ A \in 1..A
      BY <1>6, <3>1
    <3>3. s[F + A].n = C
      BY <1>5, <2>1, <3>2
    <3>4. u[1].n = C + 1
      BY <1>2, <2>2
    <3>5. QED
      BY <3>3, <3>4
  <2>5. Aligned(s \o u, c)
    BY <1>1, <1>3, <1>4, <1>5, <1>7, <2>3, <2>4, JoinAligned
  <2>6. QED
    BY <2>5, <1>4, <1>7 DEF s, u
<1>9. CASE sink.resampler # 0
  <2>1. A % 4 = 0 /\ C % 4 = 0 /\ n % 4 = 0
    BY <1>1, <1>4, <1>9, <1>2 DEF FramesAligned
  <2>2. PICK f \in Nat \ {0}, len \in Nat :
          /\ len = 4 * f * (n \div 4) /\ u \in Seq(Byte) /\ Len(u) = len
          /\ \A j \in 1..len : u[j] = Block(n)[From(j, f)] /\ From(j, f) \in 1..n
    BY <1>1, <1>2, <1>9, ResampleFacts DEF u, Added
  <2>3. ASSUME NEW j \in 1..len
        PROVE  /\ u[j].n = C + From(j, f) /\ From(j, f) \in 1..n
               /\ (From(j, f) - j) % 4 = 0
               /\ j % 4 # 0 => From(j + 1, f) = From(j, f) + 1
    <3>1. u[j].n = C + From(j, f) /\ From(j, f) \in 1..n
      BY <1>2, <1>4, <2>2
    <3>2. n \in Nat /\ f \in Nat /\ j \in 1..(4 * f * (n \div 4))
      BY <1>2, <2>2
    <3>3. QED
      BY <3>1, <3>2, FromFacts
  <2>4. ASSUME NEW j \in 1..Len(u)
        PROVE  /\ (u[j].n - (Len(s) + j)) % 4 = 0 /\ u[j].n <= c
               /\ (Len(s) + j) % 4 # 0 /\ j < Len(u) => u[j + 1].n = u[j].n + 1
    <3>1. PICK k \in 1..n :
            /\ k = From(j, f) /\ u[j].n = C + k /\ (k - j) % 4 = 0 /\ j \in 1..len
            /\ j % 4 # 0 => From(j + 1, f) = k + 1
      BY <2>2, <2>3
    <3>2. (F + A + j) % 4 # 0 => j % 4 # 0
      <4>1. F % 4 = 0 /\ A % 4 = 0 /\ j \in Nat
        BY <1>6, <2>1, <3>1
      <4>2. QED
        BY <4>1, FoursAdd
    <3>3. ((C + k) - (F + A + j)) % 4 = 0
      <4>1. F % 4 = 0 /\ A % 4 = 0 /\ C % 4 = 0 /\ (k - j) % 4 = 0 /\ j \in Nat /\ k \in Nat
        BY <1>2, <1>6, <2>1, <3>1
      <4>2. QED
        BY <4>1, FoursAdd
    <3>4. C + k <= c
      BY <1>2, <1>7, <3>1
    <3>5. ASSUME j < len, j % 4 # 0 PROVE u[j + 1].n = u[j].n + 1
      <4>1. j + 1 \in 1..len
        BY <2>2, <3>1, <3>5
      <4>2. u[j + 1].n = C + (k + 1)
        BY <4>1, <2>3, <3>1, <3>5
      <4>3. QED
        BY <4>2, <3>1
    <3>6. QED
      BY <1>5, <2>2, <3>1, <3>2, <3>3, <3>4, <3>5, Zenon
  <2>5. Len(s) % 4 = 0
    BY <1>5, <1>6, <2>1
  <2>6. Aligned(s \o u, c)
    BY <1>1, <1>3, <1>4, <1>5, <1>7, <2>4, <2>5, JoinAligned
  <2>7. QED
    BY <2>6, <1>4, <1>7 DEF s, u
<1>10. QED
  BY <1>8, <1>9

-----------------------------------------------------------------------------
\* What a block leaves of each part of the invariant.
LEMMA OnBlockTypes ==
    ASSUME SinkInv, NEW n \in BlockSizes, OnBlock(n)
    PROVE  EmitterTypeOK'
<1>1. EmitterTypeOK /\ n \in Nat \ {0}
  BY BlockFacts DEF SinkInv
<1>2. PICK m \in 0..CutAll(All(n)) :
        /\ wire' = wire \o Sent(n, m)
        /\ sink' = [sink EXCEPT !.acc = Rest(All(n), Gone(n, m))]
        /\ emitter' = [seq |-> emitter.seq + m,
                       session |-> IF emitter.session = NoSession \/ Diverged
                                   THEN emitter.session
                                   ELSE emitter.session + Gone(n, m)]
        /\ captured' = captured \o Block(n)
        /\ framed' = framed \o SubSeq(All(n), 1, m * Whole)
        /\ m \in Nat /\ Gone(n, m) \in 0..CutAll(All(n)) /\ CutAll(All(n)) \in Nat
  BY <1>1, BlockStep, Zenon
<1>3. /\ sink'.acc = Rest(All(n), Gone(n, m)) /\ sink'.acc \in Seq(Byte)
      /\ wire' \in Seq(AudioItem \cup EndItem)
      /\ captured' \in Seq(Byte) /\ Len(captured') = Len(captured) + n /\ Len(captured) \in Nat
      /\ framed' \in Seq(Byte)
  BY <1>1, <1>2, BlockSequences
<1>4. sink' \in [wire_rate : Nat \ {0}, frame_samples : Nat \ {0}, resampler : 0..48,
                 repr : {"i16", "i24"}, acc : Seq(Byte)]
  <2>1. sink \in [wire_rate : Nat \ {0}, frame_samples : Nat \ {0}, resampler : 0..48,
                  repr : {"i16", "i24"}, acc : Seq(Byte)]
    BY <1>1 DEF EmitterTypeOK
  <2>2. PICK a \in Seq(Byte) : a = Rest(All(n), Gone(n, m))
    BY <1>3
  <2>3. sink' = [sink EXCEPT !.acc = a]
    BY <1>2, <2>2
  <2>4. QED
    BY <2>1, <2>3
<1>5. emitter' \in [seq : Nat, session : Nat \cup {NoSession}]
  <2>1. emitter.seq \in Nat /\ emitter.session \in Nat \cup {NoSession}
    BY <1>1 DEF EmitterTypeOK
  <2>2. PICK g \in Nat, k \in Nat : g = Gone(n, m) /\ k = m
    BY <1>2
  <2>3. emitter.seq + m \in Nat
    BY <2>1, <2>2
  <2>4. emitter.session # NoSession => emitter.session + Gone(n, m) \in Nat
    BY <2>1, <2>2
  <2>5. (IF emitter.session = NoSession \/ Diverged THEN emitter.session
         ELSE emitter.session + Gone(n, m)) \in Nat \cup {NoSession}
    BY <2>1, <2>4
  <2>6. QED
    BY <1>2, <2>3, <2>5
<1>6. taken' \in 0..MaxBytes /\ Len(captured') <= taken'
  <2>1. taken \in 0..MaxBytes /\ Len(captured) <= taken /\ MaxBytes \in Nat
    BY <1>1, SinkAssumption DEF EmitterTypeOK, SinkAssumption
  <2>2. taken' = taken + n /\ taken + n <= MaxBytes
    BY <1>1, BlockKeeps
  <2>3. QED
    BY <1>1, <1>3, <2>1, <2>2
<1>7. UNCHANGED <<phase, codec, source>>
  BY <1>1, BlockKeeps
<1>8. QED
  BY <1>1, <1>3, <1>4, <1>5, <1>6, <1>7 DEF EmitterTypeOK

LEMMA OnBlockPlan ==
    ASSUME SinkInv, NEW n \in BlockSizes, OnBlock(n)
    PROVE  PlanFollows'
<1>1. EmitterTypeOK /\ PlanFollows
  BY DEF SinkInv
<1>2. PICK m \in 0..CutAll(All(n)) :
        /\ wire' = wire \o Sent(n, m)
        /\ sink' = [sink EXCEPT !.acc = Rest(All(n), Gone(n, m))]
        /\ captured' = captured \o Block(n)
        /\ framed' = framed \o SubSeq(All(n), 1, m * Whole)
  BY <1>1, BlockStep, Zenon
<1>3. /\ sink'.acc \in Seq(Byte)
      /\ Gone(n, m) * Whole \in 0..Len(All(n))
      /\ Len(sink'.acc) = Len(All(n)) - Gone(n, m) * Whole
      /\ \A j \in 1..Len(sink'.acc) : sink'.acc[j] = All(n)[Gone(n, m) * Whole + j]
  BY <1>1, <1>2, BlockSequences
<1>4. /\ wire' \in Seq(AudioItem \cup EndItem) /\ Len(wire') = Len(wire) + m
      /\ Len(wire) \in Nat /\ m \in Nat
      /\ \A j \in 1..Len(wire) : wire'[j] = wire[j]
      /\ \A i \in 1..m : wire'[Len(wire) + i] = Frame(All(n), i) /\ i \in 1..CutAll(All(n))
  <2>1. m \in Nat
    BY <1>1, SentFacts
  <2>2. QED
    BY <1>1, <1>2, <2>1, BlockSequences
<1>5. /\ captured' \in Seq(Byte) /\ Len(captured') = Len(captured) + n /\ Len(captured) \in Nat
      /\ \A j \in 1..Len(captured) : captured'[j] = captured[j]
      /\ \A j \in 1..n : captured'[Len(captured) + j] = Block(n)[j]
  BY <1>1, <1>2, BlockSequences
<1>6. /\ UNCHANGED <<codec, source>>
      /\ sink'.wire_rate = sink.wire_rate /\ sink'.resampler = sink.resampler
      /\ sink'.repr = sink.repr
  BY <1>1, BlockKeeps
<1>7. n \in Nat /\ \A j \in 1..n : Block(n)[j].fmt = source
  BY <1>1, BlockFacts
<1>8. \A i \in 1..Len(All(n)) : Declares(sink.wire_rate, sink.repr, All(n)[i].fmt)
  <2>1. SUFFICES ASSUME NEW i \in 1..Len(All(n))
                 PROVE  Declares(sink.wire_rate, sink.repr, All(n)[i].fmt)
    OBVIOUS
  <2>2. PICK A \in Nat, d \in Nat :
          /\ A = Len(sink.acc) /\ d = Len(Added(n)) /\ Len(All(n)) = A + d
          /\ \A j \in 1..A : All(n)[j] = sink.acc[j]
          /\ \A j \in 1..d : All(n)[A + j] = Added(n)[j]
          /\ \A j \in 1..d : \E k \in 1..n : Added(n)[j] = Block(n)[k]
    BY <1>1, AllFacts
  <2>3. CASE i <= A
    <3>1. i \in 1..A
      BY <2>3, <2>2
    <3>2. DOMAIN sink.acc = 1..A
      BY <1>1, <2>2, LenProperties DEF EmitterTypeOK
    <3>3. QED
      BY <1>1, <2>2, <3>1, <3>2 DEF PlanFollows
  <2>4. CASE ~(i <= A)
    <3>1. i \in 1..(A + d)
      BY <2>2
    <3>2. PICK j \in 1..d : i = A + j
      BY <2>4, <3>1, Beyond
    <3>3. PICK k \in 1..n : All(n)[i] = Block(n)[k]
      BY <2>2, <3>2
    <3>4. All(n)[i].fmt = source
      BY <1>7, <3>3
    <3>5. QED
      BY <1>1, <3>4 DEF PlanFollows
  <2>5. QED
    BY <2>3, <2>4
<1>9. \A i \in DOMAIN captured' :
        /\ Declares(sink.wire_rate, sink.repr, captured'[i].fmt)
        /\ sink.resampler = 0 => captured'[i].fmt.rate = sink.wire_rate
  <2>1. DOMAIN captured' = 1..(Len(captured) + n) /\ DOMAIN captured = 1..Len(captured)
    BY <1>1, <1>5, LenProperties DEF EmitterTypeOK
  <2>2. SUFFICES ASSUME NEW i \in 1..(Len(captured) + n)
                 PROVE  /\ Declares(sink.wire_rate, sink.repr, captured'[i].fmt)
                        /\ sink.resampler = 0 => captured'[i].fmt.rate = sink.wire_rate
    BY <2>1
  <2>3. CASE i <= Len(captured)
    <3>1. i \in 1..Len(captured) /\ captured'[i] = captured[i]
      BY <1>5, <2>3
    <3>2. QED
      BY <1>1, <2>1, <3>1 DEF PlanFollows
  <2>4. CASE ~(i <= Len(captured))
    <3>1. PICK j \in 1..n : i = Len(captured) + j
      BY <1>5, <1>7, <2>4, Beyond
    <3>2. captured'[i].fmt = source
      BY <1>5, <1>7, <3>1
    <3>3. QED
      BY <1>1, <3>2 DEF PlanFollows
  <2>5. QED
    BY <2>3, <2>4
<1>10. \A i \in DOMAIN sink'.acc : Declares(sink.wire_rate, sink.repr, sink'.acc[i].fmt)
  <2>1. SUFFICES ASSUME NEW i \in 1..Len(sink'.acc)
                 PROVE  Declares(sink.wire_rate, sink.repr, sink'.acc[i].fmt)
    BY <1>3, LenProperties
  <2>2. PICK g \in Nat, len \in Nat : g = Gone(n, m) * Whole /\ len = Len(All(n)) /\ g <= len
    <3>1. Len(All(n)) \in Nat
      BY <1>1, AllFacts, LenProperties
    <3>2. QED
      BY <1>3, <3>1
  <2>3. i \in Nat \ {0} /\ i <= len - g
    <3>1. Len(sink'.acc) = len - g
      BY <1>3, <2>2
    <3>2. QED
      BY <2>2, <3>1
  <2>4. g + i \in 1..len
    BY <2>2, <2>3
  <2>5. sink'.acc[i] = All(n)[g + i]
    BY <1>3, <2>2
  <2>6. QED
    BY <1>8, <2>2, <2>4, <2>5
<1>11. \A i \in DOMAIN wire' : wire'[i].kind = "audio" =>
         \A j \in DOMAIN wire'[i].bytes :
           Declares(wire'[i].rate, wire'[i].repr, wire'[i].bytes[j].fmt)
  <2>1. DOMAIN wire' = 1..(Len(wire) + m) /\ DOMAIN wire = 1..Len(wire)
    BY <1>1, <1>4, LenProperties DEF EmitterTypeOK
  <2>2. SUFFICES ASSUME NEW i \in 1..(Len(wire) + m), wire'[i].kind = "audio",
                        NEW j \in DOMAIN wire'[i].bytes
                 PROVE  Declares(wire'[i].rate, wire'[i].repr, wire'[i].bytes[j].fmt)
    BY <2>1
  <2>3. CASE i <= Len(wire)
    <3>1. i \in 1..Len(wire) /\ wire'[i] = wire[i]
      BY <1>4, <2>3
    <3>2. QED
      BY <1>1, <2>1, <2>2, <3>1 DEF PlanFollows
  <2>4. CASE ~(i <= Len(wire))
    <3>1. PICK k \in 1..m : i = Len(wire) + k
      BY <1>4, <2>4, Beyond
    <3>2. wire'[i] = Frame(All(n), k) /\ k \in 1..CutAll(All(n)) /\ All(n) \in Seq(Byte)
      BY <1>1, <1>4, <3>1, AllFacts
    <3>3. /\ wire'[i].rate = sink.wire_rate /\ wire'[i].repr = sink.repr
          /\ wire'[i].bytes = Cut(All(n), k)
          /\ Cut(All(n), k) \in Seq(Byte) /\ Len(Cut(All(n), k)) = Whole
          /\ \A b \in 1..Whole : /\ Cut(All(n), k)[b] = All(n)[(k - 1) * Whole + b]
                                 /\ (k - 1) * Whole + b \in 1..Len(All(n))
      BY <1>1, <3>2, FrameFacts
    <3>4. j \in 1..Whole
      BY <2>2, <3>3, LenProperties
    <3>5. QED
      BY <1>8, <3>3, <3>4
  <2>5. QED
    BY <2>3, <2>4
<1>12. QED
  BY <1>1, <1>6, <1>9, <1>10, <1>11 DEF PlanFollows, Declares

LEMMA OnBlockCopied ==
    ASSUME SinkInv, NEW n \in BlockSizes, OnBlock(n)
    PROVE  Copied'
<1>1. EmitterTypeOK /\ PlanFollows /\ Copied
  BY DEF SinkInv
<1>2. PICK m \in 0..CutAll(All(n)) :
        /\ wire' = wire \o Sent(n, m)
        /\ sink' = [sink EXCEPT !.acc = Rest(All(n), Gone(n, m))]
        /\ captured' = captured \o Block(n)
        /\ framed' = framed \o SubSeq(All(n), 1, m * Whole)
        /\ failed' = (failed \/ m < CutAll(All(n)))
  BY <1>1, BlockStep, Zenon
<1>3. /\ sink'.acc = Rest(All(n), Gone(n, m)) /\ sink'.acc \in Seq(Byte)
      /\ Gone(n, m) * Whole \in 0..Len(All(n)) /\ m * Whole \in 0..Len(All(n))
      /\ Len(sink'.acc) = Len(All(n)) - Gone(n, m) * Whole
      /\ framed' \in Seq(Byte) /\ Len(framed') = Len(framed) + m * Whole
      /\ Len(framed) \in Nat
  BY <1>1, <1>2, BlockSequences
<1>4. /\ captured' \in Seq(Byte) /\ Len(captured') = Len(captured) + n /\ Len(captured) \in Nat
      /\ \A j \in 1..Len(captured) : captured'[j] = captured[j]
      /\ \A j \in 1..n : captured'[Len(captured) + j] = Block(n)[j]
  BY <1>1, <1>2, BlockSequences
<1>5. /\ n \in Nat \ {0} /\ Block(n) \in Seq(Byte) /\ Len(Block(n)) = n
      /\ \A j \in 1..n : Block(n)[j].n = Len(captured) + j
  BY <1>1, BlockFacts
<1>6. /\ sink'.resampler = sink.resampler
      /\ ragged' = (ragged \/ (sink.resampler # 0 /\ n % 4 # 0))
  BY <1>1, BlockKeeps
<1>7. \A i \in DOMAIN captured' : captured'[i].n = i
  <2>1. DOMAIN captured' = 1..(Len(captured) + n) /\ DOMAIN captured = 1..Len(captured)
    BY <1>1, <1>4, LenProperties DEF EmitterTypeOK
  <2>2. SUFFICES ASSUME NEW i \in 1..(Len(captured) + n) PROVE captured'[i].n = i
    BY <2>1
  <2>3. CASE i <= Len(captured)
    <3>1. i \in 1..Len(captured) /\ captured'[i] = captured[i]
      BY <1>4, <2>3
    <3>2. QED
      BY <1>1, <2>1, <3>1 DEF Copied
  <2>4. CASE ~(i <= Len(captured))
    <3>1. PICK j \in 1..n : i = Len(captured) + j
      <4>1. n \in Nat /\ Len(captured) \in Nat
        BY <1>4, <1>5
      <4>2. QED
        BY <2>4, <4>1, Beyond
    <3>2. QED
      BY <1>4, <1>5, <3>1
  <2>5. QED
    BY <2>3, <2>4
<1>8. ASSUME ~failed'
      PROVE  ~failed /\ m = CutAll(All(n)) /\ Gone(n, m) = m
  <2>1. CutAll(All(n)) \in Nat
    BY <1>1, SentFacts
  <2>2. ~failed /\ m = CutAll(All(n))
    <3>1. ~failed /\ ~(m < CutAll(All(n)))
      BY <1>2, <1>8, Zenon
    <3>2. PICK k \in Nat : k = CutAll(All(n))
      BY <2>1
    <3>3. m = k
      BY <3>1, <3>2
    <3>4. QED
      BY <3>1, <3>2, <3>3
  <2>3. QED
    BY <2>2 DEF Gone
<1>9. ASSUME sink.resampler = 0, ~failed'
      PROVE  captured' = framed' \o sink'.acc
  <2>1. captured = framed \o sink.acc
    BY <1>1, <1>8, <1>9 DEF Copied
  <2>2. framed \in Seq(Byte) /\ sink.acc \in Seq(Byte) /\ All(n) \in Seq(Byte)
        /\ All(n) = sink.acc \o Block(n)
    <3>1. framed \in Seq(Byte) /\ sink.acc \in Seq(Byte)
      BY <1>1 DEF EmitterTypeOK
    <3>2. All(n) \in Seq(Byte) /\ Added(n) = Block(n)
      BY <1>1, <1>9, AllFacts
    <3>3. QED
      BY <3>1, <3>2 DEF All
  <2>3. captured' = framed \o All(n)
    <3>1. (framed \o sink.acc) \o Block(n) = framed \o (sink.acc \o Block(n))
      BY <1>5, <2>2, ThreeJoined, ZenonT(30)
    <3>2. QED
      BY <1>2, <2>1, <2>2, <3>1
  <2> DEFINE head == SubSeq(All(n), 1, m * Whole)
             tail == Rest(All(n), m)
  <2>4. head \in Seq(Byte) /\ tail \in Seq(Byte) /\ head \o tail = All(n)
    BY <1>1, <2>2, CutFacts
  <2>5. framed' = framed \o head /\ sink'.acc = tail
    BY <1>2, <1>3, <1>8, <1>9
  <2> HIDE DEF head, tail
  <2>6. (framed \o head) \o tail = framed \o (head \o tail)
    BY <2>2, <2>4, ThreeJoined
  <2>7. QED
    BY <2>3, <2>4, <2>5, <2>6
<1>10. ASSUME sink.resampler # 0, ~ragged', ~failed'
       PROVE  Len(framed') + Len(sink'.acc) = (48 \div sink.resampler) * Len(captured')
  <2>1. Len(framed) + Len(sink.acc) = (48 \div sink.resampler) * Len(captured) /\ n % 4 = 0
    BY <1>1, <1>5, <1>6, <1>8, <1>10 DEF Copied
  <2>2. PICK f \in Nat \ {0}, len \in Nat :
          /\ f = 48 \div sink.resampler /\ len = 4 * f * (n \div 4)
          /\ Len(Added(n)) = len
    BY <1>1, <1>5, <1>10, ResampleFacts DEF Added
  <2>3. len = f * n
    <3>1. PICK q \in Int : q = n \div 4 /\ n = 4 * q
      BY <1>5, <2>1
    <3>2. len = 4 * f * q
      BY <2>2, <3>1
    <3>3. 4 * f * q = f * (4 * q)
      BY <3>1
    <3>4. QED
      BY <3>1, <3>2, <3>3
  <2>4. PICK A \in Nat, F \in Nat, C \in Nat :
          A = Len(sink.acc) /\ F = Len(framed) /\ C = Len(captured) /\ Len(All(n)) = A + len
    BY <1>1, <1>3, <1>4, <2>2, AllFacts
  <2>5. PICK p \in Nat : p = m * Whole /\ p <= A + len
    BY <1>3, <2>4
  <2>6. Len(framed') = F + p /\ Len(sink'.acc) = A + len - p
    BY <1>3, <1>8, <1>10, <2>4, <2>5
  <2>7. F + A = f * C
    BY <2>1, <2>2, <2>4
  <2>8. f * (C + n) = f * C + f * n
    BY <2>2, <2>4, <1>5
  <2>9. Len(captured') = C + n
    BY <1>4, <2>4
  <2>10. PICK y \in Int, z \in Int : y = f * C /\ z = f * n
    <3>1. n \in Int
      BY <1>5
    <3>2. f * C \in Int /\ f * n \in Int
      BY <3>1
    <3>3. QED
      BY <3>2
  <2>11. Len(framed') + Len(sink'.acc) = y + z
    <3>1. F + A = y /\ len = z
      BY <2>3, <2>7, <2>10
    <3>2. (F + p) + (A + len - p) = (F + A) + len
      OBVIOUS
    <3>3. QED
      BY <2>6, <3>1, <3>2
  <2>12. f * Len(captured') = y + z
    BY <2>8, <2>9, <2>10
  <2>13. QED
    BY <2>2, <2>11, <2>12
<1>11. QED
  BY <1>6, <1>7, <1>8, <1>9, <1>10 DEF Copied

LEMMA OnBlockAligned ==
    ASSUME SinkInv, NEW n \in BlockSizes, OnBlock(n)
    PROVE  FramesAligned'
<1>1. EmitterTypeOK /\ PlanFollows /\ FramesAligned
  BY DEF SinkInv
<1>2. PICK m \in 0..CutAll(All(n)) :
        /\ wire' = wire \o Sent(n, m)
        /\ sink' = [sink EXCEPT !.acc = Rest(All(n), Gone(n, m))]
        /\ captured' = captured \o Block(n)
        /\ framed' = framed \o SubSeq(All(n), 1, m * Whole)
  BY <1>1, BlockStep, Zenon
<1>3. /\ Gone(n, m) * Whole \in 0..Len(All(n)) /\ m * Whole \in 0..Len(All(n))
      /\ sink'.acc \in Seq(Byte) /\ Len(sink'.acc) = Len(All(n)) - Gone(n, m) * Whole
      /\ \A j \in 1..Len(sink'.acc) : sink'.acc[j] = All(n)[Gone(n, m) * Whole + j]
      /\ framed' \in Seq(Byte) /\ Len(framed') = Len(framed) + m * Whole
      /\ \A j \in 1..Len(framed) : framed'[j] = framed[j]
      /\ \A j \in 1..(m * Whole) : framed'[Len(framed) + j] = All(n)[j]
      /\ Len(captured') = Len(captured) + n
  BY <1>1, <1>2, BlockSequences
<1>4. /\ n \in Nat \ {0} /\ Len(Block(n)) = n
      /\ \A j \in 1..n : Block(n)[j].n = Len(captured) + j
  BY <1>1, BlockFacts
<1>5. /\ sink'.resampler = sink.resampler /\ sink'.repr = sink.repr
      /\ ragged' = (ragged \/ (sink.resampler # 0 /\ n % 4 # 0))
  BY <1>1, BlockKeeps
<1>6. PICK F \in Nat, A \in Nat, C \in Nat, d \in Nat :
        /\ F = Len(framed) /\ A = Len(sink.acc) /\ C = Len(captured) /\ d = Len(Added(n))
        /\ framed \in Seq(Byte) /\ sink.acc \in Seq(Byte) /\ Added(n) \in Seq(Byte)
        /\ All(n) \in Seq(Byte) /\ Len(All(n)) = A + d
        /\ \A j \in 1..d : All(n)[A + j] = Added(n)[j]
  <2>1. framed \in Seq(Byte) /\ sink.acc \in Seq(Byte) /\ captured \in Seq(Byte)
    BY <1>1 DEF EmitterTypeOK
  <2>2. QED
    BY <1>1, <2>1, AllFacts, LenProperties
<1>7. PICK p \in 0..(A + d), g \in 0..(A + d) :
        /\ p = m * Whole /\ g = Gone(n, m) * Whole /\ p <= g
        /\ sink.repr = "i16" => p % 4 = 0 /\ (g - p) % 4 = 0 /\ g % 4 = 0
  <2>1. PICK w \in Nat \ {0} : w = Whole /\ (sink.repr = "i16" => w = 4 * sink.frame_samples)
    BY <1>1, WholeIsSome
  <2>2. m \in Nat /\ (Gone(n, m) = m \/ Gone(n, m) = m + 1)
    BY <1>1, SentFacts DEF Gone
  <2>3. PICK p \in 0..(A + d), g \in 0..(A + d) : p = m * w /\ g = Gone(n, m) * w
    BY <1>3, <1>6, <2>1
  <2>4. (m + 1) * w = m * w + w
    BY <2>1, <2>2
  <2>5. g = p \/ g = p + w
    BY <2>2, <2>3, <2>4
  <2>6. ASSUME sink.repr = "i16"
        PROVE  p % 4 = 0 /\ (g - p) % 4 = 0 /\ g % 4 = 0
    <3>1. PICK fs \in Nat : fs = sink.frame_samples /\ w = 4 * fs
      BY <1>1, <2>1, <2>6 DEF EmitterTypeOK
    <3>2. PICK x \in Nat : x = m * fs
      BY <2>2, <3>1
    <3>3. p = 4 * x
      BY <2>2, <2>3, <3>1, <3>2
    <3>4. g - p = 4 * 0 \/ g - p = 4 * fs
      BY <2>1, <2>5, <3>1
    <3>5. (g - p) % 4 = 0 /\ p % 4 = 0
      BY <3>1, <3>2, <3>3, <3>4
    <3>6. g = 4 * x \/ g = 4 * (x + fs)
      BY <2>5, <3>1, <3>2, <3>3
    <3>7. QED
      BY <3>1, <3>2, <3>5, <3>6
  <2>7. QED
    BY <2>1, <2>3, <2>5, <2>6
<1>8. Len(framed') = F + p /\ Len(sink'.acc) = A + d - g /\ Len(captured') = C + n
  BY <1>3, <1>6, <1>7, SMTT(30)
<1>9. ASSUME sink.repr = "i16", ~ragged'
      PROVE  Aligned(framed' \o sink'.acc, C + n)
  <2>1. Aligned((framed \o sink.acc) \o Added(n), C + n)
    <3>1. ~ragged /\ ~(sink.resampler # 0 /\ n % 4 # 0)
      BY <1>5, <1>9
    <3>2. Aligned((framed \o sink.acc) \o Added(n), Len(captured) + n)
      BY <1>9, <3>1, AddedAligned
    <3>3. QED
      BY <1>6, <3>2
  <2>2. (framed \o sink.acc) \o Added(n) = framed \o All(n)
    BY <1>6, ThreeJoined, ZenonT(30) DEF All
  <2> DEFINE s == framed \o All(n)
             t == framed' \o sink'.acc
  <2>3. /\ s \in Seq(Byte) /\ Len(s) = F + (A + d)
        /\ \A j \in 1..F : s[j] = framed[j]
        /\ \A j \in 1..(A + d) : s[F + j] = All(n)[j]
    <3>1. A + d \in Nat /\ Len(framed) = F /\ Len(All(n)) = A + d
          /\ framed \in Seq(Byte) /\ All(n) \in Seq(Byte)
      BY <1>6
    <3>2. PICK x \in Nat : x = A + d
      BY <3>1
    <3>3. /\ s \in Seq(Byte) /\ Len(s) = Len(framed) + Len(All(n))
          /\ \A j \in 1..Len(framed) : s[j] = framed[j]
          /\ \A j \in 1..Len(All(n)) : s[Len(framed) + j] = All(n)[j]
      <4>1. framed \in Seq(Byte)
        BY <3>1
      <4>2. PICK h \in Seq(Byte) : h = All(n)
        BY <3>1
      <4> DEFINE u == framed \o h
      <4>3. /\ u \in Seq(Byte) /\ Len(u) = Len(framed) + Len(h)
            /\ \A j \in 1..Len(framed) : u[j] = framed[j]
            /\ \A j \in 1..Len(h) : u[Len(framed) + j] = h[j]
        BY <4>1, Joined, SMT
      <4>4. s = u
        BY <4>2
      <4> HIDE DEF u, s
      <4>5. QED
        BY <4>2, <4>3, <4>4
    <3> HIDE DEF s
    <3>4. /\ s \in Seq(Byte) /\ Len(s) = F + x
          /\ \A j \in 1..F : s[j] = framed[j]
          /\ \A j \in 1..x : s[F + j] = All(n)[j]
      BY <3>1, <3>2, <3>3
    <3>5. QED
      BY <3>2, <3>4
  <2>4. /\ t \in Seq(Byte) /\ Len(t) = (F + p) + (A + d - g)
        /\ \A j \in 1..(F + p) : t[j] = framed'[j]
        /\ \A j \in 1..(A + d - g) : t[F + p + j] = sink'.acc[j]
    <3>1. PICK x \in Nat, y \in Nat : x = F + p /\ y = A + d - g
      BY <1>7
    <3>2. /\ framed' \in Seq(Byte) /\ sink'.acc \in Seq(Byte)
          /\ Len(framed') = x /\ Len(sink'.acc) = y
      BY <1>3, <1>8, <3>1
    <3>3. /\ t \in Seq(Byte) /\ Len(t) = Len(framed') + Len(sink'.acc)
          /\ \A j \in 1..Len(framed') : t[j] = framed'[j]
          /\ \A j \in 1..Len(sink'.acc) : t[Len(framed') + j] = sink'.acc[j]
      <4>1. PICK h1 \in Seq(Byte), h2 \in Seq(Byte) : h1 = framed' /\ h2 = sink'.acc
        BY <3>2
      <4> DEFINE u == h1 \o h2
      <4>2. /\ u \in Seq(Byte) /\ Len(u) = Len(h1) + Len(h2)
            /\ \A j \in 1..Len(h1) : u[j] = h1[j]
            /\ \A j \in 1..Len(h2) : u[Len(h1) + j] = h2[j]
        BY Joined, SMT
      <4>3. t = u
        BY <4>1
      <4> HIDE DEF u, t
      <4>4. QED
        BY <4>1, <4>2, <4>3
    <3> HIDE DEF t
    <3>4. /\ t \in Seq(Byte) /\ Len(t) = x + y
          /\ \A j \in 1..x : t[j] = framed'[j]
          /\ \A j \in 1..y : t[x + j] = sink'.acc[j]
      BY <3>2, <3>3
    <3>5. QED
      BY <3>1, <3>4
  <2> HIDE DEF s, t
  <2>5. PICK e \in Nat : e = g - p /\ e % 4 = 0 /\ g = p + e
    BY <1>7, <1>9
  <2>6. (F + p) % 4 = 0
    <3>1. F % 4 = 0 /\ p % 4 = 0
      BY <1>1, <1>6, <1>7, <1>9 DEF FramesAligned
    <3>2. QED
      BY <3>1, FoursAdd
  <2>7. ASSUME NEW i \in 1..Len(t)
        PROVE  t[i] = IF i <= F + p THEN s[i] ELSE s[i + e]
    <3>1. CASE i <= F
      <4>1. i \in 1..F /\ i \in 1..(F + p)
        BY <2>4, <3>1
      <4>2. t[i] = framed'[i] /\ framed'[i] = framed[i] /\ s[i] = framed[i]
        BY <1>3, <1>6, <2>3, <2>4, <4>1
      <4>3. QED
        BY <4>1, <4>2
    <3>2. CASE ~(i <= F) /\ i <= F + p
      <4>1. PICK j \in 1..p : i = F + j
        <5>1. i \in 1..(F + p) /\ p \in Nat
          BY <3>2, <2>4
        <5>2. QED
          BY <5>1, <3>2, Beyond
      <4>2. i \in 1..(F + p) /\ j \in 1..(A + d)
        BY <1>7, <4>1
      <4>3. t[i] = framed'[i] /\ framed'[i] = All(n)[j] /\ s[i] = All(n)[j]
        BY <1>3, <1>6, <1>7, <2>3, <2>4, <4>1, <4>2
      <4>4. QED
        BY <3>2, <4>3
    <3>3. CASE ~(i <= F + p)
      <4>1. PICK x \in Nat : x = A + d - g
        BY <1>7
      <4>2. i \in 1..((F + p) + x)
        BY <2>4, <4>1
      <4>3. PICK j \in 1..x : i = (F + p) + j
        BY <3>3, <4>2, Beyond
      <4>4. t[i] = All(n)[g + j]
        <5>1. t[i] = sink'.acc[j]
          BY <2>4, <4>1, <4>3
        <5>2. j \in 1..Len(sink'.acc)
          BY <1>8, <4>1, <4>3
        <5>3. sink'.acc[j] = All(n)[g + j]
          BY <1>3, <1>7, <5>2
        <5>4. QED
          BY <5>1, <5>3
      <4>5. g + j \in 1..(A + d) /\ F + (g + j) = i + e
        <5>1. g = p + e
          BY <2>5
        <5>2. QED
          BY <4>1, <4>3, <5>1
      <4>6. s[i + e] = All(n)[g + j]
        BY <2>3, <4>5
      <4>7. QED
        BY <3>3, <4>4, <4>6
    <3>4. QED
      BY <3>1, <3>2, <3>3
  <2>8. C + n \in Nat /\ F + p \in Nat /\ F + p + e <= Len(s) /\ Len(t) = Len(s) - e
    <3>1. F + p + e <= F + (A + d) /\ (F + p) + (A + d - g) = (F + (A + d)) - e
      BY <2>5
    <3>2. C + n \in Nat /\ F + p \in Nat
      BY <1>4
    <3>3. QED
      BY <2>3, <2>4, <3>1, <3>2
  <2>9. Aligned(s, C + n)
    BY <2>1, <2>2 DEF s
  <2>10. Aligned(t, C + n)
    <3>1. /\ s \in Seq(Byte) /\ t \in Seq(Byte) /\ e % 4 = 0
      BY <2>3, <2>4, <2>5
    <3>2. PICK q \in Nat, b \in Nat : q = F + p /\ b = C + n
      BY <2>8
    <3>3. /\ Aligned(s, b) /\ q % 4 = 0 /\ q + e <= Len(s) /\ Len(t) = Len(s) - e
          /\ \A i \in 1..Len(t) : t[i] = IF i <= q THEN s[i] ELSE s[i + e]
      BY <2>6, <2>7, <2>8, <2>9, <3>2
    <3>4. Aligned(t, b)
      BY <3>1, <3>3, DropAligned
    <3>5. QED
      BY <3>2, <3>4
  <2>11. QED
    BY <2>10 DEF t
<1>10. ASSUME sink.repr = "i16" PROVE (F + p) % 4 = 0
  <2>1. F % 4 = 0 /\ p % 4 = 0
    BY <1>1, <1>6, <1>7, <1>10 DEF FramesAligned
  <2>2. QED
    BY <2>1, FoursAdd
<1>11. ASSUME sink.resampler # 0, ~ragged'
       PROVE  (A + d - g) % 4 = 0 /\ (C + n) % 4 = 0
  <2>1. A % 4 = 0 /\ C % 4 = 0 /\ n % 4 = 0 /\ g % 4 = 0
    <3>1. sink.repr = "i16" /\ ~ragged /\ n % 4 = 0
      BY <1>1, <1>5, <1>11 DEF PlanFollows
    <3>2. Len(sink.acc) % 4 = 0 /\ Len(captured) % 4 = 0
      BY <1>1, <1>11, <3>1 DEF FramesAligned
    <3>3. QED
      BY <1>6, <1>7, <3>1, <3>2
  <2>2. PICK f \in Nat \ {0}, len \in Nat : len = 4 * f * (n \div 4) /\ len = d
    <3>1. Block(n) \in Seq(Byte) /\ Len(Block(n)) = n /\ Added(n) = Resample(Block(n))
      BY <1>1, <1>11, BlockFacts DEF Added
    <3>2. PICK f \in Nat \ {0}, len \in Nat :
            len = 4 * f * (Len(Block(n)) \div 4) /\ Len(Resample(Block(n))) = len
      BY <1>1, <1>11, <3>1, ResampleFacts
    <3>3. QED
      BY <1>6, <3>1, <3>2
  <2>3. PICK x \in Nat : d = 4 * x
    <3>1. n \div 4 \in Nat
      BY <1>4, WholeFrames
    <3>2. PICK x \in Nat : x = f * (n \div 4)
      BY <2>2, <3>1
    <3>3. 4 * f * (n \div 4) = 4 * (f * (n \div 4))
      BY <2>2, <3>1
    <3>4. QED
      BY <2>2, <3>2, <3>3
  <2>4. d % 4 = 0
    BY <2>3
  <2>5. (A + d) % 4 = 0 /\ (C + n) % 4 = 0
    <3>1. n \in Nat
      BY <1>4
    <3>2. QED
      BY <2>1, <2>4, <3>1, FoursAdd
  <2>6. PICK a \in Nat : a = A + d
    OBVIOUS
  <2>7. (a - g) % 4 = 0
    BY <2>1, <2>5, <2>6, <1>7
  <2>8. QED
    BY <2>5, <2>6, <2>7
<1>12. ASSUME sink.resampler = 0, sink.repr = "i16"
       PROVE  /\ ((C + n) - (F + p) - (A + d - g)) % 4 = 0
              /\ (A + d - g) % 4 # 0 => sink'.acc[A + d - g].n = C + n
  <2>1. d = n /\ Added(n) = Block(n)
    BY <1>4, <1>6, <1>12 DEF Added
  <2>2. (C - F - A) % 4 = 0 /\ (g - p) % 4 = 0
    BY <1>1, <1>6, <1>7, <1>12 DEF FramesAligned
  <2>3. (C + n) - (F + p) - (A + d - g) = (C - F - A) + (g - p)
    BY <1>4, <1>7, <2>1, SMTT(30)
  <2>4. PICK x \in Int, y \in Int : x = C - F - A /\ y = g - p
    BY <1>7
  <2>5. (x + y) % 4 = 0
    BY <2>2, <2>4
  <2>6. ASSUME (A + d - g) % 4 # 0
        PROVE  sink'.acc[A + d - g].n = C + n
    <3>1. PICK k \in Nat : k = A + d - g
      BY <1>7
    <3>2. k # 0
      BY <2>6, <3>1
    <3>3. k \in 1..Len(sink'.acc) /\ g + k = A + d
      <4>1. g + k = A + d /\ k \in 1..k
        BY <3>1, <3>2
      <4>2. QED
        BY <1>8, <3>1, <4>1
    <3>4. sink'.acc[k] = All(n)[A + d]
      BY <1>3, <1>7, <3>3
    <3>5. All(n)[A + d] = Block(n)[n]
      BY <1>4, <1>6, <2>1
    <3>6. n \in 1..n
      BY <1>4
    <3>7. Block(n)[n].n = C + n
      BY <1>4, <1>6, <3>6
    <3>8. QED
      BY <3>1, <3>4, <3>5, <3>7
  <2>7. QED
    BY <2>3, <2>4, <2>5, <2>6
<1>13. QED
  BY <1>5, <1>8, <1>9, <1>10, <1>11, <1>12 DEF FramesAligned

LEMMA OnBlockInv ==
    ASSUME SinkInv, NEW n \in BlockSizes, OnBlock(n)
    PROVE  SinkInv'
BY OnBlockTypes, OnBlockPlan, OnBlockCopied, OnBlockAligned DEF SinkInv

-----------------------------------------------------------------------------
\* An item appended to what was sent.
LEMMA Sends ==
    ASSUME EmitterTypeOK, NEW item \in AudioItem \cup EndItem
    PROVE  /\ Append(wire, item) \in Seq(AudioItem \cup EndItem)
           /\ Len(wire) \in Nat /\ Len(Append(wire, item)) = Len(wire) + 1
           /\ \A j \in 1..Len(wire) : Append(wire, item)[j] = wire[j]
           /\ Append(wire, item)[Len(wire) + 1] = item
<1>1. wire \in Seq(AudioItem \cup EndItem) /\ Len(wire) \in Nat
  BY LenProperties DEF EmitterTypeOK
<1>2. QED
  BY <1>1, AppendProperties

LEMMA FinishInv == SinkInv /\ Finish => SinkInv'
<1> SUFFICES ASSUME SinkInv, Finish PROVE SinkInv'
  OBVIOUS
<1>1. /\ EmitterTypeOK /\ PlanFollows /\ Copied /\ FramesAligned
      /\ UNCHANGED <<codec, secure, sink, emitter, connection, rx, source, captured,
                     framed, ragged, sealings, failed, taken, formats>>
      /\ phase' = "finished"
  BY DEF SinkInv, Finish, history
<1> DEFINE item == [kind |-> "end", total |-> emitter.seq]
<1>2. item \in EndItem /\ item.kind = "end"
  BY <1>1 DEF EmitterTypeOK, EndItem
<1> HIDE DEF item
<1>3. \/ wire' = wire
      \/ /\ wire' \in Seq(AudioItem \cup EndItem) /\ Len(wire') = Len(wire) + 1
         /\ Len(wire) \in Nat /\ \A j \in 1..Len(wire) : wire'[j] = wire[j]
         /\ wire'[Len(wire) + 1] = item
  <2>1. wire' = wire \/ wire' = Append(wire, item)
    BY DEF Finish, item
  <2>2. QED
    BY <1>1, <1>2, <2>1, Sends
<1>4. EmitterTypeOK'
  BY <1>1, <1>3 DEF EmitterTypeOK
<1>5. PlanFollows'
  <2>1. ASSUME NEW i \in DOMAIN wire', wire'[i].kind = "audio"
        PROVE  i \in DOMAIN wire /\ wire'[i] = wire[i]
    <3>1. CASE wire' = wire
      BY <2>1, <3>1
    <3>2. CASE wire' # wire
      <4>1. i \in 1..(Len(wire) + 1) /\ Len(wire) \in Nat
        BY <1>3, <1>4, <2>1, <3>2 DEF EmitterTypeOK
      <4>2. i # Len(wire) + 1
        BY <1>2, <1>3, <2>1, <3>2
      <4>3. i \in 1..Len(wire)
        BY <4>1, <4>2
      <4>4. QED
        BY <1>1, <1>3, <3>2, <4>3 DEF EmitterTypeOK
    <3>3. QED
      BY <3>1, <3>2
  <2>2. QED
    BY <1>1, <2>1 DEF PlanFollows, Declares
<1>6. Copied' /\ FramesAligned'
  BY <1>1 DEF Copied, FramesAligned, Aligned
<1>7. QED
  BY <1>4, <1>5, <1>6 DEF SinkInv

LEMMA SinkNextInv == SinkInv /\ [SinkNext]_sinkVars => SinkInv'
<1> SUFFICES ASSUME SinkInv, [SinkNext]_sinkVars PROVE SinkInv'
  OBVIOUS
<1>1. ASSUME NEW f \in Formats, OnFormat(f) PROVE SinkInv'
  BY <1>1, OnFormatInv
<1>2. ASSUME NEW n \in BlockSizes, OnBlock(n) PROVE SinkInv'
  BY <1>2, OnBlockInv
<1>3. CASE Finish
  BY <1>3, FinishInv
<1>4. CASE ReadFirst
  BY <1>4, SinkQuiet DEF ReadFirst, history
<1>5. CASE ReadFrame
  BY <1>5, SinkQuiet DEF ReadFrame, history
<1>6. CASE ReadEnd
  BY <1>6, SinkQuiet DEF ReadEnd, history
<1>7. CASE ReadFails
  BY <1>7, SinkQuiet DEF ReadFails, history
<1>8. CASE Disconnect
  BY <1>8, SinkQuiet DEF Disconnect, history
<1>9. CASE UNCHANGED sinkVars
  BY <1>9, SinkQuiet DEF sinkVars, history
<1>10. QED
  BY <1>1, <1>2, <1>3, <1>4, <1>5, <1>6, <1>7, <1>8, <1>9 DEF SinkNext

\* The sink's plan is for the format announced last, every byte it holds or has
\* sent is in the format declared for it, and what it has framed is the capture
\* in whole stereo frames: in every state, for every set of formats and block
\* sizes, through every rebuild, failure and loss of the connection.
THEOREM SinkInvariance == SinkSpec => []SinkInv
<1>1. SinkInit => SinkInv
  BY SinkInitInv
<1>2. SinkInv /\ [SinkNext]_sinkVars => SinkInv'
  BY SinkNextInv
<1>3. QED
  BY <1>1, <1>2, PTL DEF SinkSpec

-----------------------------------------------------------------------------
LEMMA InvCaptureExact == SinkInv => CaptureExact
BY DEF SinkInv, PlanFollows, Copied, Declares, CaptureExact

\* What the emitter sends is what was captured: nothing is lost, repeated or
\* padded where one block ends and the next begins, and no frame declares a
\* format its own bytes were not captured in (on_block and on_format in sink.rs).
THEOREM CaptureIsExact == SinkSpec => []CaptureExact
BY SinkInvariance, InvCaptureExact, PTL

\* The quad that follows 4 * k bytes of frames is a stereo frame.
LEMMA QuadFacts ==
    ASSUME NEW s \in Seq(Byte), NEW c \in Nat, Aligned(s, c),
           NEW k \in Nat, 4 * k + 4 <= Len(s)
    PROVE  \E b \in 0..c : \A j \in 1..4 : s[4 * k + j].n = 4 * b + j
<1>1. PICK l \in Nat : l = Len(s)
  BY LenProperties
<1>2. \A j \in 1..4 : 4 * k + j \in 1..l /\ (j # 4 => (4 * k + j) % 4 # 0 /\ 4 * k + j < l)
  BY <1>1
<1>3. \A j \in 1..4 : s[4 * k + j].n \in Nat \ {0}
  BY <1>1, <1>2, ByteFacts
<1>4. \A j \in 1..4 : (s[4 * k + j].n - (4 * k + j)) % 4 = 0 /\ s[4 * k + j].n <= c
  BY <1>1, <1>2 DEF Aligned
<1>5. \A j \in 1..3 : s[(4 * k + j) + 1].n = s[4 * k + j].n + 1
  <2>1. SUFFICES ASSUME NEW j \in 1..3
                 PROVE  s[(4 * k + j) + 1].n = s[4 * k + j].n + 1
    OBVIOUS
  <2>2. PICK i \in 1..l : i = 4 * k + j /\ i % 4 # 0 /\ i < l
    BY <1>2
  <2>3. s[i + 1].n = s[i].n + 1
    BY <1>1, <2>2 DEF Aligned
  <2>4. QED
    BY <2>2, <2>3
<1>6. PICK n1 \in Nat \ {0}, n2 \in Nat, n3 \in Nat, n4 \in Nat :
        /\ n1 = s[4 * k + 1].n /\ n2 = s[4 * k + 2].n /\ n3 = s[4 * k + 3].n
        /\ n4 = s[4 * k + 4].n
  <2>1. /\ s[4 * k + 1].n \in Nat \ {0} /\ s[4 * k + 2].n \in Nat \ {0}
        /\ s[4 * k + 3].n \in Nat \ {0} /\ s[4 * k + 4].n \in Nat \ {0}
    BY <1>3
  <2>2. QED
    BY <2>1, Zenon
<1>7. (4 * k + 1) + 1 = 4 * k + 2 /\ (4 * k + 2) + 1 = 4 * k + 3 /\ (4 * k + 3) + 1 = 4 * k + 4
  OBVIOUS
<1>8. n2 = n1 + 1 /\ n3 = n2 + 1 /\ n4 = n3 + 1
  <2>1. s[4 * k + 2].n = s[4 * k + 1].n + 1
    BY <1>5, <1>7
  <2>2. s[4 * k + 3].n = s[4 * k + 2].n + 1
    BY <1>5, <1>7
  <2>3. s[4 * k + 4].n = s[4 * k + 3].n + 1
    BY <1>5, <1>7
  <2>4. QED
    BY <1>6, <2>1, <2>2, <2>3
<1>9. (n1 - (4 * k + 1)) % 4 = 0 /\ n4 <= c
  BY <1>4, <1>6
<1>10. PICK b \in Nat : n1 = 4 * b + 1
  <2>1. \A x \in Int : x % 4 = 0 => \E q \in Int : x = 4 * q
    OBVIOUS
  <2>2. PICK x \in Int : x = n1 - (4 * k + 1) /\ x % 4 = 0
    BY <1>9
  <2>3. PICK q \in Int : x = 4 * q
    BY <2>1, <2>2
  <2>4. n1 = 4 * (q + k) + 1 /\ q + k \in Nat
    BY <2>2, <2>3
  <2>5. QED
    BY <2>4
<1>11. b \in 0..c /\ n2 = 4 * b + 2 /\ n3 = 4 * b + 3 /\ n4 = 4 * b + 4
  BY <1>8, <1>9, <1>10
<1>12. \A j \in 1..4 : s[4 * k + j].n = 4 * b + j
  <2>1. SUFFICES ASSUME NEW j \in 1..4 PROVE s[4 * k + j].n = 4 * b + j
    OBVIOUS
  <2>2. j = 1 \/ j = 2 \/ j = 3 \/ j = 4
    OBVIOUS
  <2>3. QED
    BY <1>6, <1>10, <1>11, <2>2
<1>13. QED
  BY <1>11, <1>12

LEMMA InvTimePreserved == SinkInv => TimePreserved
<1> SUFFICES ASSUME SinkInv, ~ragged
             PROVE  /\ ~failed /\ (\/ sink.resampler = 0
                                   \/ \A i \in DOMAIN captured :
                                        captured[i].fmt.rate = sink.resampler)
                       => \A i \in DOMAIN captured :
                            Len(framed) + Len(sink.acc) =
                              Len(captured) * (sink.wire_rate \div captured[i].fmt.rate)
                    /\ sink.repr = "i16" =>
                         \A i \in 1..(Len(framed) \div 4) :
                           \E b \in 0..MaxBytes :
                             \A j \in 1..4 : framed[4 * (i - 1) + j].n = 4 * b + j
  BY DEF TimePreserved
<1>1. /\ EmitterTypeOK /\ PlanFollows /\ Copied /\ FramesAligned
      /\ framed \in Seq(Byte) /\ sink.acc \in Seq(Byte) /\ captured \in Seq(Byte)
  BY DEF SinkInv, EmitterTypeOK
<1> DEFINE s == framed \o sink.acc
<1>2. /\ s \in Seq(Byte) /\ Len(s) = Len(framed) + Len(sink.acc)
      /\ \A j \in 1..Len(framed) : s[j] = framed[j]
  <2>1. PICK a \in Seq(Byte) : a = sink.acc
    BY <1>1
  <2>2. framed \in Seq(Byte)
    BY <1>1
  <2> DEFINE u == framed \o a
  <2>3. u \in Seq(Byte) /\ Len(u) = Len(framed) + Len(a)
        /\ \A j \in 1..Len(framed) : u[j] = framed[j]
    BY <2>2, Joined, SMT
  <2>4. u = s
    BY <2>1
  <2> HIDE DEF u, s
  <2>5. QED
    BY <2>1, <2>3, <2>4
<1>3. PICK F \in Nat, A \in Nat, C \in Nat :
        F = Len(framed) /\ A = Len(sink.acc) /\ C = Len(captured)
  BY <1>1, LenProperties
<1>4. ASSUME NEW i \in DOMAIN captured, ~failed,
             \/ sink.resampler = 0
             \/ \A k \in DOMAIN captured : captured[k].fmt.rate = sink.resampler
      PROVE  Len(framed) + Len(sink.acc) =
               Len(captured) * (sink.wire_rate \div captured[i].fmt.rate)
  <2>1. CASE sink.resampler = 0
    <3>1. Len(captured) = Len(framed) + Len(sink.acc)
      BY <1>1, <1>2, <1>4, <2>1 DEF Copied
    <3>2. captured[i].fmt.rate = sink.wire_rate
      BY <1>1, <2>1 DEF PlanFollows
    <3>3. PICK w \in Nat \ {0} : w = sink.wire_rate
      BY <1>1 DEF EmitterTypeOK
    <3>4. w \div w = 1
      BY <3>3
    <3>5. QED
      BY <1>3, <3>1, <3>2, <3>3, <3>4
  <2>2. CASE sink.resampler # 0
    <3>1. captured[i].fmt.rate = sink.resampler /\ sink.wire_rate = 48
      BY <1>1, <1>4, <2>2 DEF PlanFollows
    <3>2. F + A = (48 \div sink.resampler) * C
      BY <1>1, <1>3, <1>4, <2>2 DEF Copied
    <3>3. PICK q \in Int : q = 48 \div sink.resampler
      <4>1. sink.resampler \in 0..48
        BY <1>1 DEF EmitterTypeOK
      <4>2. PICK r \in Nat \ {0} : r = sink.resampler
        BY <2>2, <4>1
      <4>3. 48 \div r \in Int
        BY DivMod
      <4>4. QED
        BY <4>2, <4>3
    <3>4. F + A = C * q
      BY <3>2, <3>3
    <3>5. QED
      BY <1>3, <3>1, <3>3, <3>4
  <2>3. QED
    BY <2>1, <2>2
<1>5. ASSUME sink.repr = "i16", NEW i \in 1..(Len(framed) \div 4)
      PROVE  \E b \in 0..MaxBytes : \A j \in 1..4 : framed[4 * (i - 1) + j].n = 4 * b + j
  <2>1. Aligned(s, C)
    BY <1>1, <1>3, <1>5 DEF FramesAligned
  <2>2. PICK k \in Nat : k = i - 1 /\ 4 * k + 4 <= F
    <3>1. F \div 4 \in Nat /\ (F \div 4) * 4 <= F
      BY WholeFrames
    <3>2. i \in 1..(F \div 4)
      BY <1>3
    <3>3. PICK q \in Nat : q = F \div 4
      BY <3>1
    <3>4. i - 1 \in Nat /\ 4 * (i - 1) + 4 <= F
      BY <3>1, <3>2, <3>3
    <3>5. QED
      BY <3>4
  <2> HIDE DEF s
  <2>3. 4 * k + 4 <= Len(s)
    BY <1>2, <1>3, <2>2
  <2>4. PICK b \in 0..C : \A j \in 1..4 : s[4 * k + j].n = 4 * b + j
    BY <1>2, <2>1, <2>3, QuadFacts
  <2>5. \A j \in 1..4 : s[4 * k + j] = framed[4 * k + j]
    <3>1. \A j \in 1..4 : 4 * k + j \in 1..Len(framed)
      BY <1>3, <2>2
    <3>2. \A j \in 1..4 : s[4 * k + j] = framed[4 * k + j]
      BY <1>2, <3>1, Zenon
    <3>3. QED
      BY <3>2
  <2>6. b \in 0..MaxBytes
    <3>1. C <= taken /\ taken \in 0..MaxBytes
      BY <1>1, <1>3 DEF EmitterTypeOK
    <3>2. QED
      BY <3>1, SinkAssumption DEF SinkAssumption
  <2>7. QED
    BY <2>2, <2>4, <2>5, <2>6
<1>6. QED
  BY <1>4, <1>5

\* As long as the capture keeps its rate, its time is kept, and every stereo
\* frame that reaches the encoder is one stereo frame of the capture, however
\* the capture is cut into blocks (ResamplerI16::process and on_block).
THEOREM TimeIsPreserved == SinkSpec => []TimePreserved
BY SinkInvariance, InvTimePreserved, PTL

-----------------------------------------------------------------------------
\* What a wire item is.
LEMMA ItemFacts ==
    ASSUME EmitterTypeOK, NEW j \in 1..Len(wire)
    PROVE  /\ Len(wire) \in Nat /\ DOMAIN wire = 1..Len(wire)
           /\ wire[j].kind = "audio" \/ wire[j].kind = "end"
           /\ wire[j].kind = "audio" =>
                /\ wire[j] \in AudioItem /\ wire[j].seq \in Nat
                /\ wire[j].index \in Nat \cup {NoSession}
           /\ wire[j].kind = "end" => wire[j] \in EndItem /\ wire[j].total \in Nat
<1>1. wire[j] \in AudioItem \cup EndItem /\ Len(wire) \in Nat /\ DOMAIN wire = 1..Len(wire)
  BY ElementOfSeq, LenProperties DEF EmitterTypeOK
<1>2. CASE wire[j] \in AudioItem
  BY <1>1, <1>2 DEF AudioItem
<1>3. CASE wire[j] \in EndItem
  BY <1>1, <1>3 DEF EndItem
<1>4. QED
  BY <1>1, <1>2, <1>3

LEMMA LaneInitInv == SinkInit => PairedLaneInv
<1> SUFFICES ASSUME SinkInit PROVE PairedLaneInv
  OBVIOUS
<1>1. /\ EmitterTypeOK /\ PlanFollows
      /\ wire = << >> /\ sealings = {} /\ captured = << >> /\ framed = << >>
      /\ sink.acc = << >> /\ emitter.seq = 0
      /\ emitter.session = IF secure THEN 0 ELSE NoSession
      /\ rx = [state |-> IF secure THEN "first" ELSE "none", next |-> 1,
               seen |-> {}, rendered |-> << >>, rejected |-> 0, loss |-> 0]
      /\ phase = "live" /\ secure \in BOOLEAN /\ failed = FALSE
      /\ secure => codec # "opus"
  BY SinkInitInv DEF SinkInit, SinkInv, WithAcc, Lossless
<1>2. Len(<< >>) = 0 /\ DOMAIN << >> = {} /\ << >> \in Seq(AudioItem)
  OBVIOUS
<1>3. ReceiverTypeOK
  BY <1>1, <1>2 DEF ReceiverTypeOK, Lossless
<1>4. SealedInPlace
  BY <1>1, <1>2 DEF SealedInPlace
<1>5. SessionKept
  <2>1. ASSUME emitter.session # NoSession
        PROVE  secure /\ sink.resampler = 0 /\ emitter.session = 0
    BY <1>1, <2>1 DEF PlanFollows
  <2>2. Whole \in Nat \ {0}
    BY <1>1, WholeIsSome
  <2>3. Len(framed) = 0 * Whole /\ Len(sink.acc) < Whole /\ Len(wire) = 0
    BY <1>1, <1>2, <2>2
  <2>4. \A j \in 1..0 : FALSE
    OBVIOUS
  <2>5. QED
    BY <1>1, <1>2, <2>1, <2>3, <2>4 DEF SessionKept
<1>6. Received
  <2>1. rx.state # "done" /\ rx.next = 1 /\ rx.seen = {} /\ Len(rx.rendered) = 0
        /\ rx.rejected = 0 /\ Len(wire) = 0
    BY <1>1, <1>2
  <2>2. \A i \in 1..0 : FALSE
    OBVIOUS
  <2>3. (0 + 1)..(1 - 1) = {}
    OBVIOUS
  <2>4. QED
    BY <2>1, <2>2, <2>3 DEF Received
<1>7. QED
  BY <1>3, <1>4, <1>5, <1>6 DEF PairedLaneInv

\* The receiver keeps its place when items are sent.
LEMMA WireGrows ==
    ASSUME ReceiverTypeOK, Received, UNCHANGED rx, Len(wire) \in Nat, Len(wire') \in Nat,
           Len(wire') >= Len(wire), \A j \in 1..Len(wire) : wire'[j] = wire[j]
    PROVE  Received'
<1>1. PICK L \in Nat, M \in Nat, N \in Nat \ {0}, R \in Nat :
        /\ L = Len(wire) /\ M = Len(wire') /\ N = rx.next /\ R = Len(rx.rendered)
  BY LenProperties DEF ReceiverTypeOK
<1>2. L <= M /\ N <= L + 1 /\ R < N
  BY <1>1 DEF Received
<1>3. rx' = rx /\ \A j \in 1..L : wire'[j] = wire[j] /\ (Sealed(j)' <=> Sealed(j))
  BY <1>1 DEF Sealed
<1>4. N <= M + 1
  BY <1>2
<1>5. \A i \in 1..R : i \in 1..L
  BY <1>2
<1>6. \A i \in 1..R : rx.rendered[i] = wire'[i] /\ Sealed(i)'
  BY <1>1, <1>3, <1>5 DEF Received
<1>7. \A i \in (R + 1)..(N - 1) : ~Sealed(i)'
  <2>1. \A i \in (R + 1)..(N - 1) : i \in 1..L
    BY <1>2
  <2>2. QED
    BY <1>1, <1>3, <2>1 DEF Received
<1>8. \A s \in rx.seen : \E i \in 1..(N - 1) : wire'[i].kind = "audio" /\ wire'[i].seq = s
  <2>1. \A i \in 1..(N - 1) : i \in 1..L
    BY <1>2
  <2>2. QED
    BY <1>1, <1>3, <2>1 DEF Received
<1>9. rx.state = "done" => wire'[N - 1] = wire[N - 1]
  <2>1. ASSUME rx.state = "done" PROVE N - 1 \in 1..L
    <3>1. PICK j \in Nat : j = rx.rejected
      BY DEF ReceiverTypeOK
    <3>2. R + j = N - 2
      BY <1>1, <2>1, <3>1 DEF Received
    <3>3. QED
      BY <1>2, <3>2
  <2>2. QED
    BY <1>3, <2>1
<1>10. /\ rx'.next <= Len(wire') + 1 /\ Len(rx'.rendered) < rx'.next
       /\ \A i \in 1..Len(rx'.rendered) : rx'.rendered[i] = wire'[i] /\ Sealed(i)'
       /\ \A i \in (Len(rx'.rendered) + 1)..(rx'.next - 1) : ~Sealed(i)'
       /\ \A s \in rx'.seen :
            \E i \in 1..(rx'.next - 1) : wire'[i].kind = "audio" /\ wire'[i].seq = s
  BY <1>1, <1>2, <1>3, <1>4, <1>6, <1>7, <1>8
<1>11. /\ rx'.state \in {"none", "first"} => rx'.next = 1
       /\ rx'.state # "done" => Len(rx'.rendered) + rx'.rejected = rx'.next - 1
  BY DEF Received
<1>12. ASSUME rx'.state = "done"
       PROVE  /\ Len(rx'.rendered) + rx'.rejected = rx'.next - 2
              /\ wire'[rx'.next - 1].kind = "end"
              /\ rx'.loss = IF wire'[rx'.next - 1].total > Len(rx'.rendered)
                            THEN wire'[rx'.next - 1].total - Len(rx'.rendered) ELSE 0
  <2>1. rx' = rx /\ wire'[rx.next - 1] = wire[rx.next - 1]
    BY <1>1, <1>9, <1>12
  <2>2. QED
    BY <1>12, <2>1 DEF Received
<1>13. QED
  BY <1>10, <1>11, <1>12 DEF Received

\* Steps of the receiver and of the connection.
LEMMA EmitterQuiet ==
    ASSUME EmitterTypeOK, SealedInPlace, SessionKept,
           UNCHANGED <<phase, codec, secure, sink, emitter, wire, framed, sealings, failed>>,
           connection' \in {connection, "closed"}
    PROVE  SealedInPlace' /\ SessionKept'
<1>1. Whole' = Whole /\ \A j : (Sealed(j)' <=> Sealed(j))
  BY DEF Whole, Sealed
<1>2. SealedInPlace'
  BY <1>1 DEF SealedInPlace, Sealed
<1>3. SessionKept'
  BY <1>1 DEF SessionKept
<1>4. QED
  BY <1>2, <1>3

\* When the next item is sealed, every item before it was rendered.
LEMMA NothingSkipped ==
    ASSUME EmitterTypeOK, ReceiverTypeOK, SealedInPlace, Received,
           rx.next <= Len(wire), Sealed(rx.next)
    PROVE  Len(rx.rendered) = rx.next - 1
<1>1. PICK N \in Nat \ {0}, R \in Nat, L \in Nat :
        N = rx.next /\ R = Len(rx.rendered) /\ L = Len(wire)
  BY LenProperties DEF ReceiverTypeOK, EmitterTypeOK
<1>2. N <= L /\ R < N /\ \A i \in (R + 1)..(N - 1) : ~Sealed(i)
  BY <1>1 DEF Received
<1>3. \A i \in 1..N : Sealed(i)
  <2>1. N \in DOMAIN wire
    BY <1>1, <1>2, LenProperties DEF EmitterTypeOK
  <2>2. QED
    BY <1>1, <2>1 DEF SealedInPlace
<1>4. ~(R < N - 1)
  <2>1. SUFFICES ASSUME R < N - 1 PROVE FALSE
    OBVIOUS
  <2>2. R + 1 \in 1..N /\ R + 1 \in (R + 1)..(N - 1)
    BY <2>1
  <2>3. QED
    BY <1>2, <1>3, <2>2
<1>5. QED
  BY <1>1, <1>2, <1>4

\* A frame that does not open was not sealed.
LEMMA Unopened ==
    ASSUME EmitterTypeOK, ReceiverTypeOK, SealedInPlace, Received,
           rx.next <= Len(wire), Item.kind = "audio", ~Opens(Item)
    PROVE  ~Sealed(rx.next)
<1> SUFFICES ASSUME Sealed(rx.next) PROVE FALSE
  OBVIOUS
<1>1. PICK N \in Nat \ {0} : N = rx.next /\ N \in 1..Len(wire) /\ N \in DOMAIN wire
  BY LenProperties DEF ReceiverTypeOK, EmitterTypeOK
<1>2. wire[N].index = N - 1 /\ wire[N].seq = N - 1 /\ \A i \in 1..N : Sealed(i)
  BY <1>1 DEF SealedInPlace
<1>3. N - 1 \in rx.seen
  BY <1>1, <1>2 DEF Opens, Fresh, Item
<1>4. PICK i \in 1..(N - 1) : wire[i].kind = "audio" /\ wire[i].seq = N - 1
  BY <1>1, <1>3 DEF Received
<1>5. i \in 1..N /\ i \in DOMAIN wire /\ i - 1 # N - 1
  BY <1>1, <1>4, LenProperties, SMTT(30) DEF EmitterTypeOK
<1>6. wire[i].seq = i - 1
  BY <1>2, <1>5 DEF SealedInPlace
<1>7. QED
  BY <1>4, <1>5, <1>6

\* The receiver gives up.
LEMMA GivesUp ==
    ASSUME EmitterTypeOK, ReceiverTypeOK, Received, UNCHANGED <<wire, secure, codec, emitter, sealings>>,
           rx.state \in {"first", "run"}, rx' = [rx EXCEPT !.state = "failed"]
    PROVE  ReceiverTypeOK' /\ Received'
<1>1. /\ rx' = [state |-> "failed", next |-> rx.next, seen |-> rx.seen,
                rendered |-> rx.rendered, rejected |-> rx.rejected, loss |-> rx.loss]
      /\ rx \in [state : {"none", "first", "run", "failed", "done"}, next : Nat \ {0},
                 seen : SUBSET Nat, rendered : Seq(AudioItem), rejected : Nat, loss : Nat]
  BY DEF ReceiverTypeOK
<1>2. ReceiverTypeOK'
  BY <1>1 DEF ReceiverTypeOK, Sealed, Lossless
<1>3. Received'
  BY <1>1 DEF Received, Sealed
<1>4. QED
  BY <1>2, <1>3

\* The next item becomes one of those that were read.
LEMMA ReadsOne ==
    ASSUME EmitterTypeOK, ReceiverTypeOK, Received, rx.next <= Len(wire),
           Item.kind = "audio"
    PROVE  /\ rx.next \in Nat \ {0} /\ rx.next \in 1..Len(wire) /\ rx.next \in DOMAIN wire
           /\ rx.next + 1 <= Len(wire) + 1
           /\ Item \in AudioItem /\ Recorded(Item) \subseteq Nat
           /\ \A s \in Recorded(Item) : \E i \in 1..((rx.next + 1) - 1) :
                wire[i].kind = "audio" /\ wire[i].seq = s
<1>1. PICK N \in Nat \ {0}, L \in Nat :
        N = rx.next /\ L = Len(wire) /\ N \in 1..L /\ N \in DOMAIN wire
  BY LenProperties DEF ReceiverTypeOK, EmitterTypeOK
<1>2. Item = wire[N] /\ Item \in AudioItem /\ Item.seq \in Nat
  BY <1>1, ItemFacts DEF Item
<1>3. Recorded(Item) \subseteq Nat
  BY <1>2 DEF Recorded, ReceiverTypeOK
<1>4. \A s \in Recorded(Item) : \E i \in 1..((N + 1) - 1) :
        wire[i].kind = "audio" /\ wire[i].seq = s
  <2>1. SUFFICES ASSUME NEW s \in Recorded(Item)
                 PROVE  \E i \in 1..((N + 1) - 1) : wire[i].kind = "audio" /\ wire[i].seq = s
    OBVIOUS
  <2>2. CASE s \in rx.seen
    <3>1. PICK i \in 1..(N - 1) : wire[i].kind = "audio" /\ wire[i].seq = s
      BY <1>1, <2>2 DEF Received
    <3>2. i \in 1..((N + 1) - 1)
      BY <1>1
    <3>3. QED
      BY <3>1, <3>2
  <2>3. CASE s = Item.seq
    <3>1. N \in 1..((N + 1) - 1)
      BY <1>1
    <3>2. QED
      BY <1>2, <2>3, <3>1
  <2>4. QED
    BY <2>2, <2>3 DEF Recorded
<1>5. QED
  BY <1>1, <1>2, <1>3, <1>4

\* The next item opens, and is rendered.
LEMMA Renders ==
    ASSUME EmitterTypeOK, ReceiverTypeOK, SealedInPlace, Received,
           UNCHANGED <<wire, secure, codec, emitter, sealings>>,
           rx.state \in {"first", "run"}, rx.next <= Len(wire), Item.kind = "audio", Opens(Item),
           rx' = [state |-> "run", next |-> rx.next + 1, seen |-> Recorded(Item),
                  rendered |-> Append(rx.rendered, Item), rejected |-> rx.rejected,
                  loss |-> rx.loss]
    PROVE  ReceiverTypeOK' /\ Received'
<1>1. PICK N \in Nat \ {0}, L \in Nat, R \in Nat, J \in Nat :
        /\ N = rx.next /\ L = Len(wire) /\ R = Len(rx.rendered) /\ J = rx.rejected
        /\ rx.rendered \in Seq(AudioItem) /\ rx.loss \in Nat
  BY LenProperties DEF ReceiverTypeOK, EmitterTypeOK
<1>2. /\ N \in 1..L /\ N + 1 <= L + 1 /\ Item \in AudioItem /\ Recorded(Item) \subseteq Nat
      /\ \A s \in Recorded(Item) : \E i \in 1..((N + 1) - 1) :
           wire[i].kind = "audio" /\ wire[i].seq = s
  BY <1>1, ReadsOne
<1>3. Sealed(N) /\ Item = wire[N]
  <2>1. wire[N].index = wire[N].seq /\ wire[N].seq \in Nat
    BY <1>1, <1>2, ItemFacts DEF Opens, Item
  <2>2. PICK x \in Nat : x = wire[N].seq /\ x = wire[N].index /\ x # NoSession
    BY <2>1 DEF NoSession
  <2>3. wire[N].kind = "audio" /\ Item = wire[N]
    BY <1>1 DEF Item
  <2>4. QED
    BY <2>2, <2>3 DEF Sealed
<1>4. R = N - 1
  BY <1>1, <1>2, <1>3, NothingSkipped
<1>5. /\ rx'.rendered \in Seq(AudioItem) /\ Len(rx'.rendered) = N
      /\ \A i \in 1..R : rx'.rendered[i] = rx.rendered[i]
      /\ rx'.rendered[N] = Item
  <2>1. /\ Append(rx.rendered, Item) \in Seq(AudioItem)
        /\ Len(Append(rx.rendered, Item)) = Len(rx.rendered) + 1
        /\ \A i \in 1..Len(rx.rendered) : Append(rx.rendered, Item)[i] = rx.rendered[i]
        /\ Append(rx.rendered, Item)[Len(rx.rendered) + 1] = Item
    BY <1>1, <1>2, AppendProperties
  <2>2. Len(rx.rendered) + 1 = N
    BY <1>1, <1>4
  <2>3. QED
    BY <1>1, <2>1, <2>2
<1>6. ReceiverTypeOK'
  BY <1>1, <1>2, <1>5 DEF ReceiverTypeOK, Sealed, Lossless
<1>7. \A i \in 1..N : rx'.rendered[i] = wire'[i] /\ Sealed(i)'
  <2>1. SUFFICES ASSUME NEW i \in 1..N PROVE rx'.rendered[i] = wire[i] /\ Sealed(i)
    BY DEF Sealed
  <2>2. CASE i = N
    BY <1>3, <1>5, <2>2
  <2>3. CASE i # N
    <3>1. i \in 1..R
      BY <1>4, <2>3
    <3>2. QED
      BY <1>1, <1>5, <3>1 DEF Received
  <2>4. QED
    BY <2>2, <2>3
<1>8. N + J = (N + 1) - 1
  <2>1. R + J = N - 1
    BY <1>1 DEF Received
  <2>2. QED
    BY <1>4, <2>1
<1>9. (N + 1)..((N + 1) - 1) = {} /\ N < N + 1
  BY <1>1
<1>10. QED
  BY <1>1, <1>2, <1>5, <1>6, <1>7, <1>8, <1>9 DEF Received

\* The next frame does not open, and is counted.
LEMMA Rejects ==
    ASSUME EmitterTypeOK, ReceiverTypeOK, SealedInPlace, Received,
           UNCHANGED <<wire, secure, codec, emitter, sealings>>,
           rx.state = "run", rx.next <= Len(wire), Item.kind = "audio", ~Opens(Item),
           rx' = [rx EXCEPT !.next = @ + 1, !.seen = Recorded(Item), !.rejected = @ + 1]
    PROVE  ReceiverTypeOK' /\ Received'
<1>1. PICK N \in Nat \ {0}, L \in Nat, R \in Nat, J \in Nat :
        /\ N = rx.next /\ L = Len(wire) /\ R = Len(rx.rendered) /\ J = rx.rejected
        /\ rx.rendered \in Seq(AudioItem) /\ rx.loss \in Nat
        /\ rx' = [state |-> "run", next |-> N + 1, seen |-> Recorded(Item),
                  rendered |-> rx.rendered, rejected |-> J + 1, loss |-> rx.loss]
  BY LenProperties DEF ReceiverTypeOK, EmitterTypeOK
<1>2. /\ N \in 1..L /\ N + 1 <= L + 1 /\ Item \in AudioItem /\ Recorded(Item) \subseteq Nat
      /\ \A s \in Recorded(Item) : \E i \in 1..((N + 1) - 1) :
           wire[i].kind = "audio" /\ wire[i].seq = s
  BY <1>1, ReadsOne
<1>3. ReceiverTypeOK'
  BY <1>1, <1>2 DEF ReceiverTypeOK, Sealed, Lossless
<1>4. R < N /\ R + J = N - 1
  BY <1>1 DEF Received
<1>5. R < N + 1 /\ R + (J + 1) = (N + 1) - 1
  BY <1>4
<1>6. \A i \in (R + 1)..((N + 1) - 1) : ~Sealed(i)'
  <2>1. SUFFICES ASSUME NEW i \in (R + 1)..((N + 1) - 1) PROVE ~Sealed(i)
    BY DEF Sealed
  <2>2. CASE i = N
    BY <1>1, <2>2, Unopened
  <2>3. CASE i # N
    <3>1. i \in (R + 1)..(N - 1)
      BY <2>3
    <3>2. QED
      BY <1>1, <3>1 DEF Received
  <2>4. QED
    BY <2>2, <2>3
<1>7. \A i \in 1..R : rx.rendered[i] = wire'[i] /\ Sealed(i)'
  BY <1>1 DEF Received, Sealed
<1>8. QED
  BY <1>1, <1>2, <1>3, <1>5, <1>6, <1>7 DEF Received

\* The marker is read.
LEMMA Ends ==
    ASSUME EmitterTypeOK, ReceiverTypeOK, SealedInPlace, Received,
           UNCHANGED <<wire, secure, codec, emitter, sealings>>,
           rx.state = "run", rx.next <= Len(wire), Item.kind = "end",
           rx' = [state |-> "done", next |-> rx.next + 1, seen |-> rx.seen,
                  rendered |-> rx.rendered, rejected |-> rx.rejected,
                  loss |-> IF Item.total > Len(rx.rendered)
                           THEN Item.total - Len(rx.rendered) ELSE 0]
    PROVE  ReceiverTypeOK' /\ Received'
<1>1. PICK N \in Nat \ {0}, L \in Nat, R \in Nat, J \in Nat :
        /\ N = rx.next /\ L = Len(wire) /\ R = Len(rx.rendered) /\ J = rx.rejected
        /\ rx.rendered \in Seq(AudioItem) /\ rx.seen \subseteq Nat
  BY LenProperties DEF ReceiverTypeOK, EmitterTypeOK
<1>2. PICK T \in Nat : T = wire[N].total
  BY <1>1, ItemFacts DEF Item
<1>3. rx' = [state |-> "done", next |-> N + 1, seen |-> rx.seen, rendered |-> rx.rendered,
             rejected |-> J, loss |-> IF T > R THEN T - R ELSE 0]
  BY <1>1, <1>2 DEF ReceiverTypeOK, Item
<1>4. (IF T > R THEN T - R ELSE 0) \in Nat
  BY <1>1, <1>2
<1>5. ReceiverTypeOK'
  BY <1>1, <1>3, <1>4 DEF ReceiverTypeOK, Sealed, Lossless
<1>6. /\ R < N /\ R + J = N - 1 /\ N <= L
      /\ \A i \in (R + 1)..(N - 1) : ~Sealed(i)
      /\ \A i \in 1..R : rx.rendered[i] = wire[i] /\ Sealed(i)
      /\ \A s \in rx.seen : \E i \in 1..(N - 1) : wire[i].kind = "audio" /\ wire[i].seq = s
  BY <1>1 DEF Received
<1>7. R < N + 1 /\ R + J = (N + 1) - 2 /\ N + 1 <= L + 1 /\ (N + 1) - 1 = N
  BY <1>6
<1>8. \A i \in (R + 1)..N : ~Sealed(i)'
  <2>1. SUFFICES ASSUME NEW i \in (R + 1)..N PROVE ~Sealed(i)
    BY DEF Sealed
  <2>2. CASE i = N
    BY <1>1, <2>2 DEF Sealed, Item
  <2>3. CASE i # N
    <3>1. i \in (R + 1)..(N - 1)
      BY <2>3
    <3>2. QED
      BY <1>6, <3>1
  <2>4. QED
    BY <2>2, <2>3
<1>9. \A i \in 1..R : rx.rendered[i] = wire'[i] /\ Sealed(i)'
  BY <1>6 DEF Sealed
<1>10. \A s \in rx.seen : \E i \in 1..N : wire[i].kind = "audio" /\ wire[i].seq = s
  <2>1. \A i \in 1..(N - 1) : i \in 1..N
    BY <1>1
  <2>2. QED
    BY <1>6, <2>1
<1>11. wire'[N].kind = "end" /\ wire'[N].total = T
  BY <1>1, <1>2 DEF Item
<1>12. /\ rx'.state = "done" /\ rx'.next = N + 1 /\ rx'.seen = rx.seen
       /\ rx'.rendered = rx.rendered /\ rx'.rejected = J
       /\ rx'.loss = IF T > R THEN T - R ELSE 0
  <2>1. /\ rx'.state = "done" /\ rx'.next = rx.next + 1 /\ rx'.seen = rx.seen
        /\ rx'.rendered = rx.rendered /\ rx'.rejected = rx.rejected
        /\ rx'.loss = IF Item.total > Len(rx.rendered)
                      THEN Item.total - Len(rx.rendered) ELSE 0
    OBVIOUS
  <2>2. QED
    BY <1>1, <1>2, <2>1 DEF Item
<1>13. /\ rx'.next <= Len(wire') + 1 /\ Len(rx'.rendered) < rx'.next
       /\ \A i \in 1..Len(rx'.rendered) : rx'.rendered[i] = wire'[i] /\ Sealed(i)'
       /\ Len(rx'.rendered) + rx'.rejected = rx'.next - 2
  BY <1>1, <1>7, <1>9, <1>12
<1>14. rx'.next - 1 = N
  BY <1>7, <1>12
<1>15. /\ \A i \in (Len(rx'.rendered) + 1)..(rx'.next - 1) : ~Sealed(i)'
       /\ \A s \in rx'.seen :
            \E i \in 1..(rx'.next - 1) : wire'[i].kind = "audio" /\ wire'[i].seq = s
  BY <1>1, <1>8, <1>10, <1>12, <1>14
<1>16. /\ wire'[rx'.next - 1].kind = "end"
       /\ rx'.loss = IF wire'[rx'.next - 1].total > Len(rx'.rendered)
                     THEN wire'[rx'.next - 1].total - Len(rx'.rendered) ELSE 0
  BY <1>1, <1>11, <1>12, <1>14
<1>17. QED
  BY <1>5, <1>12, <1>13, <1>15, <1>16 DEF Received

-----------------------------------------------------------------------------
LEMMA ReadsInv ==
    ASSUME SinkInv, PairedLaneInv, ReadFirst \/ ReadFrame \/ ReadEnd \/ ReadFails
    PROVE  PairedLaneInv'
<1>1. /\ EmitterTypeOK /\ ReceiverTypeOK /\ SealedInPlace /\ SessionKept /\ Received
      /\ UNCHANGED <<phase, codec, secure, sink, emitter, wire, framed, sealings, failed>>
      /\ connection' \in {connection, "closed"}
  BY DEF SinkInv, PairedLaneInv, ReadFirst, ReadFrame, ReadEnd, ReadFails, history
<1>2. SealedInPlace' /\ SessionKept'
  BY <1>1, EmitterQuiet
<1>3. rx \in [state : {"none", "first", "run", "failed", "done"}, next : Nat \ {0},
              seen : SUBSET Nat, rendered : Seq(AudioItem), rejected : Nat, loss : Nat]
  BY <1>1 DEF ReceiverTypeOK
<1>4. CASE rx.state \in {"first", "run"} /\ rx' = [rx EXCEPT !.state = "failed"]
  BY <1>1, <1>2, <1>4, GivesUp DEF PairedLaneInv
<1>5. CASE ReadFirst /\ Item.kind = "audio" /\ Opens(Item)
  <2>1. rx.rendered = << >>
    <3>1. PICK R \in Nat, J \in Nat : R = Len(rx.rendered) /\ J = rx.rejected
      BY <1>3, LenProperties
    <3>2. rx.next = 1 /\ R + J = rx.next - 1
      BY <1>1, <1>5, <3>1 DEF Received, ReadFirst
    <3>3. R = 0
      BY <3>2
    <3>4. QED
      BY <1>3, <3>1, <3>3, EmptySeq
  <2>2. Append(rx.rendered, Item) = <<Item>>
    BY <2>1
  <2>3. rx' = [rx EXCEPT !.state = "run", !.next = @ + 1, !.seen = Recorded(Item),
                         !.rendered = <<Item>>]
    BY <1>5 DEF ReadFirst
  <2>4. rx' = [state |-> "run", next |-> rx.next + 1, seen |-> Recorded(Item),
               rendered |-> Append(rx.rendered, Item), rejected |-> rx.rejected,
               loss |-> rx.loss]
    BY <1>3, <2>2, <2>3
  <2>5. rx.state = "first" /\ rx.next <= Len(wire)
    BY <1>5 DEF ReadFirst
  <2>6. QED
    BY <1>1, <1>2, <1>5, <2>4, <2>5, Renders DEF PairedLaneInv
<1>6. CASE ReadFrame /\ Opens(Item)
  <2>1. /\ rx.state = "run" /\ rx.next <= Len(wire) /\ Item.kind = "audio"
        /\ rx' = [rx EXCEPT !.next = @ + 1, !.seen = Recorded(Item),
                            !.rendered = Append(@, Item)]
    BY <1>6 DEF ReadFrame, ingest_secure
  <2>2. rx' = [state |-> "run", next |-> rx.next + 1, seen |-> Recorded(Item),
               rendered |-> Append(rx.rendered, Item), rejected |-> rx.rejected,
               loss |-> rx.loss]
    BY <1>3, <2>1
  <2>3. QED
    BY <1>1, <1>2, <1>6, <2>1, <2>2, Renders DEF PairedLaneInv
<1>7. CASE ReadFrame /\ ~Opens(Item)
  <2>1. /\ rx.state = "run" /\ rx.next <= Len(wire) /\ Item.kind = "audio"
        /\ rx' = [rx EXCEPT !.next = @ + 1, !.seen = Recorded(Item), !.rejected = @ + 1]
    BY <1>7 DEF ReadFrame, ingest_secure
  <2>2. QED
    BY <1>1, <1>2, <1>7, <2>1, Rejects DEF PairedLaneInv
<1>8. CASE ReadEnd
  <2>1. /\ rx.state = "run" /\ rx.next <= Len(wire) /\ Item.kind = "end"
        /\ rx' = [rx EXCEPT !.state = "done", !.next = @ + 1,
                            !.loss = IF Item.total > Len(rx.rendered)
                                     THEN Item.total - Len(rx.rendered) ELSE 0]
    BY <1>8 DEF ReadEnd
  <2>2. rx' = [state |-> "done", next |-> rx.next + 1, seen |-> rx.seen,
               rendered |-> rx.rendered, rejected |-> rx.rejected,
               loss |-> IF Item.total > Len(rx.rendered)
                        THEN Item.total - Len(rx.rendered) ELSE 0]
    BY <1>3, <2>1
  <2>3. QED
    BY <1>1, <1>2, <2>1, <2>2, Ends DEF PairedLaneInv
<1>9. QED
  BY <1>4, <1>5, <1>6, <1>7, <1>8 DEF ReadFirst, ReadFrame, ReadFails

LEMMA OnFormatLane ==
    ASSUME SinkInv, PairedLaneInv, NEW f \in Formats, OnFormat(f)
    PROVE  PairedLaneInv'
<1>1. /\ ReceiverTypeOK /\ SealedInPlace /\ SessionKept /\ Received /\ EmitterTypeOK
      /\ UNCHANGED <<phase, codec, secure, connection, wire, rx, sealings, failed>>
  BY DEF PairedLaneInv, OnFormat, SinkInv
<1>2. \/ UNCHANGED <<sink, emitter, framed>>
      \/ emitter' = [seq |-> 0, session |-> NoSession]
  BY DEF OnFormat, Rebuild
<1>3. Received'
  BY <1>1 DEF Received, Sealed
<1>4. ReceiverTypeOK'
  BY <1>1, <1>2 DEF ReceiverTypeOK, Sealed, Lossless
<1>5. CASE UNCHANGED <<sink, emitter, framed>>
  BY <1>1, <1>3, <1>4, <1>5, EmitterQuiet DEF PairedLaneInv
<1>6. CASE emitter' = [seq |-> 0, session |-> NoSession]
  <2>1. emitter'.session = NoSession
    BY <1>6
  <2>2. SealedInPlace' /\ SessionKept'
    BY <1>1, <2>1 DEF SealedInPlace, SessionKept, Sealed
  <2>3. QED
    BY <1>3, <1>4, <2>2 DEF PairedLaneInv
<1>7. QED
  BY <1>2, <1>5, <1>6

LEMMA FinishLane ==
    ASSUME SinkInv, PairedLaneInv, Finish
    PROVE  PairedLaneInv'
<1>1. /\ ReceiverTypeOK /\ SealedInPlace /\ SessionKept /\ Received /\ EmitterTypeOK
      /\ UNCHANGED <<codec, secure, sink, emitter, connection, rx, framed, sealings, failed>>
      /\ phase = "live" /\ phase' = "finished"
  BY DEF PairedLaneInv, SinkInv, Finish, history
<1> DEFINE item == [kind |-> "end", total |-> emitter.seq]
<1>2. item \in EndItem /\ item.kind = "end"
  BY <1>1 DEF EmitterTypeOK, EndItem
<1>3. \/ connection # "up" /\ wire' = wire
      \/ connection = "up" /\ wire' = Append(wire, item)
  BY DEF Finish
<1> HIDE DEF item
<1>4. PICK L \in Nat, M \in Nat :
        /\ L = Len(wire) /\ M = Len(wire') /\ DOMAIN wire = 1..L /\ DOMAIN wire' = 1..M
        /\ \/ connection # "up" /\ M = L
           \/ connection = "up" /\ M = L + 1 /\ wire'[M] = item
        /\ \A j \in 1..L : wire'[j] = wire[j]
  <2>1. wire' \in Seq(AudioItem \cup EndItem) /\ wire \in Seq(AudioItem \cup EndItem)
    <3>1. item \in AudioItem \cup EndItem
      BY <1>2
    <3>2. Append(wire, item) \in Seq(AudioItem \cup EndItem)
      BY <1>1, <3>1, Sends
    <3>3. wire \in Seq(AudioItem \cup EndItem)
      BY <1>1 DEF EmitterTypeOK
    <3>4. QED
      BY <1>3, <3>2, <3>3
  <2>2. PICK L \in Nat, M \in Nat : L = Len(wire) /\ M = Len(wire')
          /\ DOMAIN wire = 1..L /\ DOMAIN wire' = 1..M
    BY <2>1, LenProperties
  <2>3. CASE wire' = wire /\ connection # "up"
    BY <2>2, <2>3
  <2>4. CASE wire' = Append(wire, item) /\ connection = "up"
    <3>1. /\ Len(Append(wire, item)) = Len(wire) + 1
          /\ \A j \in 1..Len(wire) : Append(wire, item)[j] = wire[j]
          /\ Append(wire, item)[Len(wire) + 1] = item
      BY <1>1, <1>2, Sends
    <3>2. M = L + 1 /\ wire'[M] = item /\ \A j \in 1..L : wire'[j] = wire[j]
      BY <2>2, <2>4, <3>1
    <3>3. QED
      BY <2>2, <2>4, <3>2
  <2>5. QED
    BY <1>3, <2>3, <2>4
<1>5. \A j \in 1..M : Sealed(j)' => j \in 1..L
  <2>1. SUFFICES ASSUME NEW j \in 1..M, Sealed(j)', ~(j \in 1..L) PROVE FALSE
    OBVIOUS
  <2>2. j = M /\ M = L + 1
    BY <1>4, <2>1
  <2>3. wire'[j].kind = "end"
    BY <1>2, <1>4, <2>2
  <2>4. QED
    BY <2>1, <2>3 DEF Sealed
<1>6. \A j \in 1..L : (Sealed(j)' <=> Sealed(j)) /\ wire'[j] = wire[j]
  BY <1>4 DEF Sealed
<1>7. Received'
  <2>1. M >= L
    BY <1>4
  <2>2. QED
    BY <1>1, <1>4, <2>1, WireGrows
<1>8. ReceiverTypeOK'
  <2>1. ~secure => \A j \in DOMAIN wire' : ~Sealed(j)'
    BY <1>1, <1>4, <1>5, <1>6 DEF ReceiverTypeOK
  <2>2. QED
    BY <1>1, <2>1 DEF ReceiverTypeOK, Lossless
<1>9. SealedInPlace'
  <2>1. ASSUME NEW j \in DOMAIN wire', Sealed(j)'
        PROVE  wire'[j].index = j - 1 /\ wire'[j].seq = j - 1 /\ \A i \in 1..j : Sealed(i)'
    <3>1. j \in 1..L /\ Sealed(j) /\ wire'[j] = wire[j]
      BY <1>4, <1>5, <1>6, <2>1
    <3>2. wire[j].index = j - 1 /\ wire[j].seq = j - 1 /\ \A i \in 1..j : Sealed(i)
      BY <1>1, <1>4, <3>1 DEF SealedInPlace
    <3>3. \A i \in 1..j : i \in 1..L
      BY <3>1
    <3>4. QED
      BY <1>6, <3>1, <3>2, <3>3
  <2>2. QED
    BY <1>1, <2>1 DEF SealedInPlace
<1>10. SessionKept'
  <2>1. ASSUME emitter.session # NoSession
        PROVE  /\ secure /\ emitter.seq <= emitter.session
               /\ ~failed => emitter.session = emitter.seq
               /\ failed => connection = "closed" /\ M = emitter.seq
               /\ \A j \in 1..emitter.seq : Sealed(j)'
               /\ M = emitter.seq \/ (/\ M = emitter.seq + 1
                                      /\ wire'[M] = [kind |-> "end", total |-> emitter.seq])
               /\ sink.resampler = 0 /\ Len(framed) = emitter.seq * Whole
               /\ ~failed => Len(sink.acc) < Whole
               /\ \A j \in 1..emitter.seq :
                    wire'[j].bytes = SubSeq(framed, (j - 1) * Whole + 1, j * Whole)
    <3>1. L = emitter.seq
      <4>1. phase # "finished"
        BY <1>1
      <4>2. QED
        BY <1>1, <1>4, <2>1, <4>1 DEF SessionKept
    <3>2. /\ secure /\ emitter.seq <= emitter.session
          /\ ~failed => emitter.session = emitter.seq
          /\ failed => connection = "closed"
          /\ \A j \in 1..emitter.seq : Sealed(j)
          /\ sink.resampler = 0 /\ Len(framed) = emitter.seq * Whole
          /\ ~failed => Len(sink.acc) < Whole
          /\ \A j \in 1..emitter.seq :
               wire[j].bytes = SubSeq(framed, (j - 1) * Whole + 1, j * Whole)
      BY <1>1, <2>1 DEF SessionKept
    <3>3. M = emitter.seq \/ (/\ M = emitter.seq + 1 /\ connection = "up"
                              /\ wire'[M] = [kind |-> "end", total |-> emitter.seq])
      BY <1>4, <3>1 DEF item
    <3>4. QED
      BY <1>6, <3>1, <3>2, <3>3
  <2>2. Whole' = Whole /\ M = Len(wire')
    BY <1>1, <1>4 DEF Whole
  <2>3. QED
    BY <1>1, <2>1, <2>2 DEF SessionKept
<1>11. QED
  BY <1>7, <1>8, <1>9, <1>10 DEF PairedLaneInv
-----------------------------------------------------------------------------
\* Two equal parts of sequences of bytes.
LEMMA SamePart ==
    ASSUME NEW s \in Seq(Byte), NEW t \in Seq(Byte), NEW a \in Nat, NEW b \in Nat, NEW w \in Nat,
           a + w <= Len(s), b + w <= Len(t), \A i \in 1..w : s[a + i] = t[b + i]
    PROVE  SubSeq(s, a + 1, a + w) = SubSeq(t, b + 1, b + w)
<1>1. PICK m \in Nat, n \in Nat : m = Len(s) /\ n = Len(t)
  BY LenProperties
<1>2. PICK p \in Nat, q \in Nat : p = a + w /\ q = b + w
  OBVIOUS
<1>3. /\ p \in 0..Len(s) /\ a \in 0..p /\ q \in 0..Len(t) /\ b \in 0..q
      /\ p - a = w /\ q - b = w
  BY <1>1, <1>2
<1> DEFINE u == SubSeq(s, a + 1, p)
           v == SubSeq(t, b + 1, q)
<1>4. u \in Seq(Byte) /\ Len(u) = p - a /\ \A j \in 1..(p - a) : u[j] = s[a + j]
  BY <1>3, Slice
<1>5. v \in Seq(Byte) /\ Len(v) = q - b /\ \A j \in 1..(q - b) : v[j] = t[b + j]
  BY <1>3, Slice
<1> HIDE DEF u, v
<1>6. Len(u) = Len(v) /\ \A j \in 1..Len(u) : u[j] = v[j]
  BY <1>3, <1>4, <1>5
<1>7. u = v
  BY <1>4, <1>5, <1>6, SeqEqual
<1>8. QED
  BY <1>2, <1>7 DEF u, v

\* The items a block adds to what was sent.
LEMMA BlockItems ==
    ASSUME EmitterTypeOK, NEW n \in BlockSizes, NEW m \in 0..CutAll(All(n)),
           wire' = wire \o Sent(n, m)
    PROVE  /\ wire' \in Seq(AudioItem \cup EndItem) /\ Len(wire) \in Nat
           /\ Len(wire') = Len(wire) + m
           /\ DOMAIN wire = 1..Len(wire) /\ DOMAIN wire' = 1..Len(wire')
           /\ \A j \in 1..Len(wire) : wire'[j] = wire[j] /\ (Sealed(j)' <=> Sealed(j))
           /\ \A i \in 1..m :
                /\ wire'[Len(wire) + i].kind = "audio"
                /\ wire'[Len(wire) + i].seq = emitter.seq + i - 1
                /\ wire'[Len(wire) + i].index =
                     IF emitter.session = NoSession THEN NoSession ELSE emitter.session + i - 1
                /\ wire'[Len(wire) + i].bytes = Cut(All(n), i)
           /\ \A j \in 1..Len(wire') :
                j > Len(wire) => (Sealed(j)' <=> emitter.session # NoSession)
<1>1. /\ Sent(n, m) \in Seq(AudioItem) /\ Len(Sent(n, m)) = m
      /\ \A i \in 1..m : Sent(n, m)[i] = Frame(All(n), i) /\ i \in 1..CutAll(All(n))
      /\ All(n) \in Seq(Byte)
  <2>1. CutAll(All(n)) \in Nat
    BY SentFacts
  <2>2. \A i \in 1..m : i \in 1..CutAll(All(n))
    BY <2>1
  <2>3. QED
    BY <2>2, SentFacts, AllFacts
<1>2. wire \in Seq(AudioItem \cup EndItem) /\ Sent(n, m) \in Seq(AudioItem \cup EndItem)
  <2>1. Seq(AudioItem) \subseteq Seq(AudioItem \cup EndItem)
    BY SeqMonotonic
  <2>2. QED
    BY <1>1, <2>1 DEF EmitterTypeOK
<1> DEFINE new == wire \o Sent(n, m)
<1>3. /\ new \in Seq(AudioItem \cup EndItem) /\ Len(wire) \in Nat
      /\ Len(new) = Len(wire) + Len(Sent(n, m))
      /\ \A j \in 1..Len(wire) : new[j] = wire[j]
      /\ \A i \in 1..Len(Sent(n, m)) : new[Len(wire) + i] = Sent(n, m)[i]
  BY <1>2, Joined, SMT
<1>4. wire' = new
  OBVIOUS
<1> HIDE DEF new
<1>5. /\ wire' \in Seq(AudioItem \cup EndItem) /\ Len(wire) \in Nat
      /\ Len(wire') = Len(wire) + m
      /\ \A j \in 1..Len(wire) : wire'[j] = wire[j]
      /\ \A i \in 1..m : wire'[Len(wire) + i] = Frame(All(n), i)
  BY <1>1, <1>3, <1>4
<1>6. DOMAIN wire = 1..Len(wire) /\ DOMAIN wire' = 1..Len(wire')
  BY <1>2, <1>5, LenProperties
<1>7. \A j \in 1..Len(wire) : Sealed(j)' <=> Sealed(j)
  BY <1>5 DEF Sealed
<1>8. ASSUME NEW i \in 1..m
      PROVE  /\ wire'[Len(wire) + i].kind = "audio"
             /\ wire'[Len(wire) + i].seq = emitter.seq + i - 1
             /\ wire'[Len(wire) + i].index =
                  IF emitter.session = NoSession THEN NoSession ELSE emitter.session + i - 1
             /\ wire'[Len(wire) + i].bytes = Cut(All(n), i)
             /\ wire'[Len(wire) + i].index # NoSession <=> emitter.session # NoSession
  <2>1. wire'[Len(wire) + i] = Frame(All(n), i) /\ i \in 1..CutAll(All(n))
    BY <1>1, <1>5
  <2>2. /\ Frame(All(n), i).kind = "audio"
        /\ Frame(All(n), i).seq = emitter.seq + i - 1
        /\ Frame(All(n), i).index = IF emitter.session = NoSession THEN NoSession
                                    ELSE emitter.session + i - 1
        /\ Frame(All(n), i).bytes = Cut(All(n), i)
    BY <1>1, <2>1, FrameFacts
  <2>3. emitter.session # NoSession => emitter.session + i - 1 # NoSession
    <3>1. ASSUME emitter.session # NoSession PROVE emitter.session + i - 1 # NoSession
      <4>1. emitter.session \in Nat /\ i \in Nat \ {0}
        BY <3>1 DEF EmitterTypeOK
      <4>2. emitter.session + i - 1 \in Nat
        BY <4>1
      <4>3. QED
        BY <4>2 DEF NoSession
    <3>2. QED
      BY <3>1
  <2>4. QED
    BY <2>1, <2>2, <2>3
<1>9. ASSUME NEW j \in 1..Len(wire'), j > Len(wire)
      PROVE  Sealed(j)' <=> emitter.session # NoSession
  <2>1. PICK L \in Nat, k \in Nat : L = Len(wire) /\ k = m
    <3>1. m \in Nat
      BY SentFacts
    <3>2. QED
      BY <1>5, <3>1
  <2>2. PICK i \in 1..m : j = Len(wire) + i
    <3>1. j \in 1..(L + k) /\ j > L
      BY <1>5, <1>9, <2>1
    <3>2. PICK i \in 1..k : j = L + i
      BY <3>1
    <3>3. QED
      BY <2>1, <3>2
  <2>3. wire'[j].kind = "audio" /\ (wire'[j].index # NoSession <=> emitter.session # NoSession)
    BY <1>8, <2>2
  <2>4. QED
    BY <2>3 DEF Sealed
<1>10. QED
  BY <1>5, <1>6, <1>7, <1>8, <1>9

\* What a session that is kept says in mid-stream.
LEMMA LiveSession ==
    ASSUME EmitterTypeOK, SessionKept, phase = "live", emitter.session # NoSession
    PROVE  /\ secure /\ Len(wire) = emitter.seq /\ emitter.seq <= emitter.session
           /\ emitter.session \in Nat /\ emitter.seq \in Nat
           /\ \A j \in 1..emitter.seq : Sealed(j)
           /\ failed => connection = "closed"
           /\ ~failed => emitter.session = emitter.seq
           /\ Diverged <=> emitter.session # emitter.seq
<1>1. phase # "finished"
  OBVIOUS
<1>2. emitter.session \in Nat /\ emitter.seq \in Nat
  BY DEF EmitterTypeOK
<1>3. QED
  BY <1>1, <1>2 DEF SessionKept, Diverged
LEMMA BlockReceiver ==
    ASSUME SinkInv, PairedLaneInv, NEW n \in BlockSizes, OnBlock(n)
    PROVE  ReceiverTypeOK' /\ Received'
<1>1. /\ EmitterTypeOK /\ ReceiverTypeOK /\ SealedInPlace /\ SessionKept /\ Received
      /\ All(n) \in Seq(Byte)
  BY AllFacts DEF SinkInv, PairedLaneInv
<1>2. UNCHANGED <<codec, secure, rx>>
  BY <1>1, BlockKeeps
<1>3. PICK m \in 0..CutAll(All(n)) :
        /\ wire' = wire \o Sent(n, m) /\ m \in Nat /\ CutAll(All(n)) \in Nat
        /\ Gone(n, m) \in 0..CutAll(All(n))
        /\ emitter' = [seq |-> emitter.seq + m,
                       session |-> IF emitter.session = NoSession \/ Diverged
                                   THEN emitter.session
                                   ELSE emitter.session + Gone(n, m)]
        /\ sealings' = IF emitter.session = NoSession \/ Diverged THEN sealings
                       ELSE sealings \cup
                            {<<emitter.session + i - 1, Cut(All(n), i)>> : i \in 1..Gone(n, m)}
  BY <1>1, BlockStep, Zenon
<1>4. PICK L \in Nat, M \in Nat :
        /\ L = Len(wire) /\ M = Len(wire') /\ M = L + m
        /\ DOMAIN wire = 1..L /\ DOMAIN wire' = 1..M
        /\ \A j \in 1..L : wire'[j] = wire[j] /\ (Sealed(j)' <=> Sealed(j))
        /\ \A j \in 1..M : j > L => (Sealed(j)' <=> emitter.session # NoSession)
  <2>1. /\ Len(wire) \in Nat /\ Len(wire') = Len(wire) + m
        /\ DOMAIN wire = 1..Len(wire) /\ DOMAIN wire' = 1..Len(wire')
        /\ \A j \in 1..Len(wire) : wire'[j] = wire[j] /\ (Sealed(j)' <=> Sealed(j))
        /\ \A j \in 1..Len(wire') :
             j > Len(wire) => (Sealed(j)' <=> emitter.session # NoSession)
    BY <1>1, <1>3, BlockItems
  <2>2. PICK L \in Nat, M \in Nat : L = Len(wire) /\ M = Len(wire') /\ M = L + m
    <3>1. m \in Nat
      BY <1>3
    <3>2. Len(wire) \in Nat /\ Len(wire') = Len(wire) + m
      BY <2>1
    <3>3. QED
      BY <3>1, <3>2
  <2>3. /\ DOMAIN wire = 1..L /\ DOMAIN wire' = 1..M
        /\ \A j \in 1..L : wire'[j] = wire[j] /\ (Sealed(j)' <=> Sealed(j))
        /\ \A j \in 1..M : j > L => (Sealed(j)' <=> emitter.session # NoSession)
    BY <2>1, <2>2
  <2>4. QED
    BY <2>2, <2>3
<1>5. Received'
  <2>1. M >= L
    BY <1>3, <1>4
  <2>2. QED
    BY <1>1, <1>2, <1>4, <2>1, WireGrows
<1>6. sealings' \subseteq Nat \X Seq(Byte)
  <2>1. CASE emitter.session = NoSession \/ Diverged
    BY <1>1, <1>3, <2>1 DEF ReceiverTypeOK
  <2>2. CASE ~(emitter.session = NoSession \/ Diverged)
    <3>1. emitter.session \in Nat
      BY <1>1, <2>2 DEF EmitterTypeOK
    <3>2. ASSUME NEW i \in 1..Gone(n, m)
          PROVE  <<emitter.session + i - 1, Cut(All(n), i)>> \in Nat \X Seq(Byte)
      <4>1. i \in 1..CutAll(All(n)) /\ emitter.session + i - 1 \in Nat
        <5>1. PICK k \in Nat, g \in Nat, s \in Nat :
                k = CutAll(All(n)) /\ g = Gone(n, m) /\ s = emitter.session /\ g <= k
          BY <1>3, <3>1
        <5>2. i \in 1..g
          BY <5>1
        <5>3. i \in 1..k /\ s + i - 1 \in Nat
          <6>1. g <= k
            BY <5>1
          <6>2. QED
            BY <5>2, <6>1
        <5>4. QED
          BY <5>1, <5>3
      <4>2. Cut(All(n), i) \in Seq(Byte)
        BY <1>1, <4>1, FrameFacts
      <4>3. QED
        BY <4>1, <4>2
    <3>3. QED
      BY <1>1, <1>3, <2>2, <3>2 DEF ReceiverTypeOK
  <2>3. QED
    BY <2>1, <2>2
<1>7. ASSUME ~secure
      PROVE  /\ emitter'.session = NoSession /\ sealings' = {}
             /\ \A j \in DOMAIN wire' : ~Sealed(j)'
  <2>1. emitter.session = NoSession /\ sealings = {} /\ \A j \in DOMAIN wire : ~Sealed(j)
    BY <1>1, <1>7 DEF ReceiverTypeOK
  <2>2. \A j \in 1..M : ~Sealed(j)'
    <3>1. SUFFICES ASSUME NEW j \in 1..M PROVE ~Sealed(j)'
      OBVIOUS
    <3>2. CASE j > L
      BY <1>4, <2>1, <3>2
    <3>3. CASE ~(j > L)
      <4>1. j \in 1..L
        BY <3>3
      <4>2. QED
        BY <1>4, <2>1, <4>1
    <3>4. QED
      BY <3>2, <3>3
  <2>3. QED
    BY <1>3, <1>4, <2>1, <2>2
<1>8. ReceiverTypeOK'
  BY <1>1, <1>2, <1>6, <1>7 DEF ReceiverTypeOK, Lossless
<1>9. QED
  BY <1>5, <1>8

LEMMA BlockSealed ==
    ASSUME SinkInv, PairedLaneInv, NEW n \in BlockSizes, OnBlock(n)
    PROVE  SealedInPlace'
<1>1. /\ EmitterTypeOK /\ ReceiverTypeOK /\ SealedInPlace /\ SessionKept /\ Received
      /\ phase = "live"
  BY BlockKeeps DEF SinkInv, PairedLaneInv
<1>2. PICK m \in 0..CutAll(All(n)) :
        /\ connection = "closed" \/ Diverged => m = 0
        /\ wire' = wire \o Sent(n, m) /\ m \in Nat /\ CutAll(All(n)) \in Nat
        /\ Gone(n, m) \in 0..CutAll(All(n))
        /\ emitter' = [seq |-> emitter.seq + m,
                       session |-> IF emitter.session = NoSession \/ Diverged
                                   THEN emitter.session
                                   ELSE emitter.session + Gone(n, m)]
        /\ sealings' = IF emitter.session = NoSession \/ Diverged THEN sealings
                       ELSE sealings \cup
                            {<<emitter.session + i - 1, Cut(All(n), i)>> : i \in 1..Gone(n, m)}
  BY <1>1, BlockStep, Zenon
<1>3. PICK L \in Nat, M \in Nat :
        /\ L = Len(wire) /\ M = L + m
        /\ DOMAIN wire = 1..L /\ DOMAIN wire' = 1..M
        /\ \A j \in 1..L : wire'[j] = wire[j] /\ (Sealed(j)' <=> Sealed(j))
        /\ \A i \in 1..m :
             /\ wire'[L + i].seq = emitter.seq + i - 1
             /\ wire'[L + i].index =
                  IF emitter.session = NoSession THEN NoSession ELSE emitter.session + i - 1
        /\ \A j \in 1..M : j > L => (Sealed(j)' <=> emitter.session # NoSession)
  <2>1. /\ Len(wire) \in Nat /\ Len(wire') = Len(wire) + m
        /\ DOMAIN wire = 1..Len(wire) /\ DOMAIN wire' = 1..Len(wire')
        /\ \A j \in 1..Len(wire) : wire'[j] = wire[j] /\ (Sealed(j)' <=> Sealed(j))
        /\ \A i \in 1..m :
             /\ wire'[Len(wire) + i].seq = emitter.seq + i - 1
             /\ wire'[Len(wire) + i].index =
                  IF emitter.session = NoSession THEN NoSession ELSE emitter.session + i - 1
        /\ \A j \in 1..Len(wire') :
             j > Len(wire) => (Sealed(j)' <=> emitter.session # NoSession)
    <3>1. wire' = wire \o Sent(n, m)
      BY <1>2
    <3>2. QED
      BY <1>1, <3>1, BlockItems
  <2>2. PICK L \in Nat, M \in Nat : L = Len(wire) /\ M = Len(wire') /\ M = L + m
    <3>1. m \in Nat
      BY <1>2
    <3>2. Len(wire) \in Nat /\ Len(wire') = Len(wire) + m
      BY <2>1
    <3>3. QED
      BY <3>1, <3>2
  <2>3. /\ DOMAIN wire = 1..L /\ DOMAIN wire' = 1..M
        /\ \A j \in 1..L : wire'[j] = wire[j] /\ (Sealed(j)' <=> Sealed(j))
        /\ \A i \in 1..m :
             /\ wire'[L + i].seq = emitter.seq + i - 1
             /\ wire'[L + i].index =
                  IF emitter.session = NoSession THEN NoSession ELSE emitter.session + i - 1
        /\ \A j \in 1..M : j > L => (Sealed(j)' <=> emitter.session # NoSession)
    BY <2>1, <2>2
  <2>4. QED
    BY <2>2, <2>3
<1>4. ASSUME NEW j \in 1..M, Sealed(j)'
      PROVE  wire'[j].index = j - 1 /\ wire'[j].seq = j - 1 /\ \A i \in 1..j : Sealed(i)'
  <2>1. CASE j <= L
    <3>1. j \in 1..L /\ j \in DOMAIN wire /\ Sealed(j) /\ wire'[j] = wire[j]
      BY <1>3, <1>4, <2>1
    <3>2. wire[j].index = j - 1 /\ wire[j].seq = j - 1 /\ \A i \in 1..j : Sealed(i)
      BY <1>1, <3>1 DEF SealedInPlace
    <3>3. \A i \in 1..j : i \in 1..L
      BY <2>1
    <3>4. QED
      BY <1>3, <3>1, <3>2, <3>3
  <2>2. CASE ~(j <= L)
    <3>1. j > L /\ emitter.session # NoSession
      BY <1>3, <1>4, <2>2
    <3>2. PICK i \in 1..m : j = L + i
      <4>1. j - L \in 1..m /\ j = L + (j - L)
        BY <1>2, <1>3, <3>1
      <4>2. QED
        BY <4>1
    <3>3. /\ L = emitter.seq /\ emitter.session \in Nat /\ emitter.seq \in Nat
          /\ \A k \in 1..emitter.seq : Sealed(k) 
          /\ Diverged <=> emitter.session # emitter.seq
      BY <1>1, <1>3, <3>1, LiveSession
    <3>4. m # 0
      BY <3>2
    <3>5. emitter.session = emitter.seq
      BY <1>2, <3>3, <3>4
    <3>6. wire'[j].index = j - 1 /\ wire'[j].seq = j - 1
      <4>1. wire'[j].seq = emitter.seq + i - 1 /\ wire'[j].index = emitter.session + i - 1
        BY <1>3, <3>1, <3>2
      <4>2. QED
        BY <3>2, <3>3, <3>5, <4>1
    <3>7. ASSUME NEW k \in 1..j PROVE Sealed(k)'
      <4>1. CASE k <= L
        <5>1. k \in 1..L
          BY <4>1
        <5>2. QED
          BY <1>3, <3>3, <5>1
      <4>2. CASE ~(k <= L)
        <5>1. k \in 1..M /\ k > L
          BY <4>2
        <5>2. QED
          BY <1>3, <3>1, <5>1
      <4>3. QED
        BY <4>1, <4>2
    <3>8. QED
      BY <3>6, <3>7
  <2>3. QED
    BY <2>1, <2>2
<1>5. /\ \A a, b \in sealings' : a[1] = b[1] => a = b
      /\ emitter'.session # NoSession => \A a \in sealings' : a[1] < emitter'.session
  <2>1. CASE emitter.session = NoSession \/ Diverged
    <3>1. sealings' = sealings /\ emitter'.session = emitter.session
      BY <1>2, <2>1
    <3>2. QED
      BY <1>1, <3>1 DEF SealedInPlace
  <2>2. CASE ~(emitter.session = NoSession \/ Diverged)
    <3>1. PICK s \in Nat, g \in Nat :
            s = emitter.session /\ g = Gone(n, m) /\ emitter'.session = s + g
      BY <1>1, <1>2, <2>2 DEF EmitterTypeOK
    <3>2. sealings' = sealings \cup {<<s + i - 1, Cut(All(n), i)>> : i \in 1..g}
      BY <1>2, <2>2, <3>1
    <3>3. \A a \in sealings : a[1] < s /\ a[1] \in Nat
      BY <1>1, <2>2, <3>1 DEF SealedInPlace, ReceiverTypeOK
    <3>4. \A a \in sealings' : a \in sealings
                               \/ \E i \in 1..g : a = <<s + i - 1, Cut(All(n), i)>>
      BY <3>2
    <3>5. ASSUME NEW a \in sealings', NEW b \in sealings', a[1] = b[1]
          PROVE  a = b
      <4>1. CASE a \in sealings /\ b \in sealings
        BY <1>1, <3>5, <4>1 DEF SealedInPlace
      <4>2. ASSUME NEW c \in sealings, NEW i \in 1..g, NEW e, e = <<s + i - 1, Cut(All(n), i)>>
            PROVE  c[1] # e[1]
        <5>1. e[1] = s + i - 1 /\ c[1] < s /\ c[1] \in Nat
          BY <3>3, <4>2
        <5>2. QED
          BY <5>1
      <4>3. ASSUME NEW i \in 1..g, NEW k \in 1..g, a = <<s + i - 1, Cut(All(n), i)>>,
                   b = <<s + k - 1, Cut(All(n), k)>>
            PROVE  a = b
        <5>1. s + i - 1 = s + k - 1
          BY <3>5, <4>3
        <5>2. i = k
          BY <5>1
        <5>3. QED
          BY <4>3, <5>2
      <4>4. CASE a \in sealings /\ ~(b \in sealings)
        <5>1. PICK i \in 1..g : b = <<s + i - 1, Cut(All(n), i)>>
          BY <3>4, <4>4
        <5>2. QED
          BY <3>5, <4>2, <4>4, <5>1
      <4>5. CASE ~(a \in sealings) /\ b \in sealings
        <5>1. PICK i \in 1..g : a = <<s + i - 1, Cut(All(n), i)>>
          BY <3>4, <4>5
        <5>2. QED
          BY <3>5, <4>2, <4>5, <5>1
      <4>6. CASE ~(a \in sealings) /\ ~(b \in sealings)
        <5>1. PICK i \in 1..g, k \in 1..g :
                a = <<s + i - 1, Cut(All(n), i)>> /\ b = <<s + k - 1, Cut(All(n), k)>>
          BY <3>4, <4>6
        <5>2. QED
          BY <4>3, <5>1
      <4>7. QED
        BY <4>1, <4>4, <4>5, <4>6
    <3>6. ASSUME NEW a \in sealings'
          PROVE  a[1] < s + g
      <4>1. CASE a \in sealings
        <5>1. a[1] < s /\ a[1] \in Nat
          BY <3>3, <4>1
        <5>2. QED
          BY <5>1
      <4>2. ASSUME NEW i \in 1..g, a = <<s + i - 1, Cut(All(n), i)>>
            PROVE  a[1] < s + g
        <5>1. a[1] = s + i - 1
          BY <4>2
        <5>2. QED
          BY <5>1
      <4>3. QED
        BY <3>4, <4>1, <4>2
    <3>7. QED
      BY <3>1, <3>5, <3>6
  <2>3. QED
    BY <2>1, <2>2
<1>6. QED
  BY <1>3, <1>4, <1>5 DEF SealedInPlace
\* Frames before and after a place in a stream of frames of w bytes.
LEMMA FramePlaces ==
    ASSUME NEW w \in Nat, NEW q \in Nat, NEW m \in Nat, NEW i \in 1..m
    PROVE  /\ (i - 1) * w \in Nat /\ i * w = (i - 1) * w + w /\ i * w <= m * w /\ m * w \in Nat
           /\ ((q + i) - 1) * w = q * w + (i - 1) * w /\ (q + i) * w = q * w + i * w
           /\ q * w \in Nat /\ (q + m) * w = q * w + m * w /\ i * w \in Nat
<1>1. PICK j \in Nat : j = i - 1 /\ i = j + 1
  OBVIOUS
<1>2. j * w \in Nat /\ q * w \in Nat /\ m * w \in Nat /\ (j + 1) * w = j * w + w
  BY Multiples
<1>3. i <= m /\ i \in Nat
  OBVIOUS
<1>4. i * w <= m * w /\ i * w \in Nat
  BY <1>3, Multiples
<1>5. (q + i) - 1 = q + j
  BY <1>1
<1>6. (q + j) * w = q * w + j * w /\ (q + i) * w = q * w + i * w /\ (q + m) * w = q * w + m * w
  BY <1>3
<1>7. QED
  BY <1>1, <1>2, <1>4, <1>5, <1>6

LEMMA Products ==
    ASSUME NEW w \in Nat, NEW q \in Nat, NEW m \in Nat
    PROVE  q * w \in Nat /\ m * w \in Nat /\ (q + m) * w = q * w + m * w
OBVIOUS

\* A block of which m frames were sent.
Makes(n, m) ==
    /\ sink' = [sink EXCEPT !.acc = Rest(All(n), Gone(n, m))]
    /\ wire' = wire \o Sent(n, m)
    /\ captured' = captured \o Block(n)
    /\ framed' = framed \o SubSeq(All(n), 1, m * Whole)

\* The first q items sent are the frames cut from what was framed.
SentAsFramed(q) ==
    /\ Len(wire) >= q /\ Len(framed) = q * Whole
    /\ \A j \in 1..q : wire[j].bytes = SubSeq(framed, (j - 1) * Whole + 1, j * Whole)

\* What a session sent is what it framed, with the frames of a block too.
LEMMA BlockBytes ==
    ASSUME EmitterTypeOK, NEW n \in BlockSizes, NEW m \in 0..CutAll(All(n)),
           Makes(n, m), Whole' = Whole, NEW q \in Nat, Len(wire) = q, SentAsFramed(q)
    PROVE  SentAsFramed(q + m)'
<1>1. PICK w \in Nat \ {0} : w = Whole
  BY WholeIsSome
<1>2. m \in Nat /\ CutAll(All(n)) \in Nat
  BY SentFacts
<1>3. /\ framed \in Seq(Byte) /\ framed' \in Seq(Byte) /\ All(n) \in Seq(Byte)
      /\ Len(framed) = q * w /\ Len(framed') = Len(framed) + m * w
      /\ \A j \in 1..Len(framed) : framed'[j] = framed[j]
      /\ \A j \in 1..(m * w) : framed'[Len(framed) + j] = All(n)[j]
      /\ m * w \in 0..Len(All(n))
  <2>1. /\ framed' \in Seq(Byte) /\ Len(framed') = Len(framed) + m * Whole
        /\ \A j \in 1..Len(framed) : framed'[j] = framed[j]
        /\ \A j \in 1..(m * Whole) : framed'[Len(framed) + j] = All(n)[j]
        /\ m * Whole \in 0..Len(All(n))
    BY BlockSequences DEF Makes
  <2>2. framed \in Seq(Byte) /\ All(n) \in Seq(Byte)
    BY AllFacts DEF EmitterTypeOK
  <2>3. Len(framed) = q * Whole
    BY DEF SentAsFramed
  <2>4. QED
    BY <1>1, <2>1, <2>2, <2>3
<1>4. PICK f \in Nat, g \in Nat, a \in Nat :
        /\ f = q * w /\ g = m * w /\ a = Len(All(n)) /\ g <= a
        /\ (q + m) * w = f + g
  <2>1. q * w \in Nat /\ m * w \in Nat /\ (q + m) * w = q * w + m * w
    BY <1>2, Products
  <2>2. Len(All(n)) \in Nat
    BY <1>3, LenProperties
  <2>3. m * w <= Len(All(n))
    BY <1>3, <2>2
  <2>4. QED
    BY <2>1, <2>2, <2>3
<1>5. Len(framed') = (q + m) * Whole
  BY <1>1, <1>3, <1>4
<1>11. g <= a
  BY <1>4
<1>12. /\ Len(framed) = f /\ Len(framed') = f + g /\ Len(All(n)) = a
       /\ \A j \in 1..f : framed'[j] = framed[j]
       /\ \A j \in 1..g : framed'[f + j] = All(n)[j]
       /\ framed \in Seq(Byte) /\ framed' \in Seq(Byte) /\ All(n) \in Seq(Byte)
  BY <1>3, <1>4
<1>6. /\ \A j \in 1..q : wire'[j] = wire[j]
      /\ \A i \in 1..m : wire'[q + i].bytes = Cut(All(n), i)
  <2>1. /\ \A j \in 1..Len(wire) : wire'[j] = wire[j]
        /\ \A i \in 1..m : wire'[Len(wire) + i].bytes = Cut(All(n), i)
    BY BlockItems DEF Makes
  <2>2. QED
    BY <2>1
<1>7. ASSUME NEW j \in 1..q
      PROVE  wire'[j].bytes = SubSeq(framed', (j - 1) * Whole + 1, j * Whole)
  <2>1. PICK p \in Nat : p = (j - 1) * w /\ j * w = p + w /\ p + w <= f
    <3>1. (j - 1) * w \in Nat /\ j * w = (j - 1) * w + w /\ j * w <= q * w
      BY FramePlaces
    <3>2. QED
      BY <1>4, <3>1
  <2>8. p + w <= f
    BY <2>1
  <2>2. p + w <= Len(framed) /\ p + w <= Len(framed')
    BY <1>12, <2>8
  <2>3. \A i \in 1..w : framed[p + i] = framed'[p + i]
    <3>1. \A i \in 1..w : p + i \in 1..f
      BY <2>8
    <3>2. QED
      BY <1>12, <3>1
  <2>4. SubSeq(framed, p + 1, p + w) = SubSeq(framed', p + 1, p + w)
    BY <1>12, <2>2, <2>3, SamePart
  <2>5. wire'[j].bytes = SubSeq(framed, (j - 1) * Whole + 1, j * Whole)
    BY <1>6 DEF SentAsFramed
  <2>6. (j - 1) * Whole = p /\ j * Whole = p + w
    BY <1>1, <2>1
  <2>7. QED
    BY <2>4, <2>5, <2>6
<1>8. ASSUME NEW i \in 1..m
      PROVE  wire'[q + i].bytes =
               SubSeq(framed', ((q + i) - 1) * Whole + 1, (q + i) * Whole)
  <2>1. PICK p \in Nat : /\ p = (i - 1) * w /\ i * w = p + w /\ p + w <= g
                         /\ ((q + i) - 1) * w = f + p /\ (q + i) * w = f + (p + w)
    <3>1. /\ (i - 1) * w \in Nat /\ i * w = (i - 1) * w + w /\ i * w <= m * w
          /\ ((q + i) - 1) * w = q * w + (i - 1) * w /\ (q + i) * w = q * w + i * w
      BY <1>2, FramePlaces
    <3>2. QED
      BY <1>4, <3>1
  <2>8. p + w <= g
    BY <2>1
  <2>2. p + w <= Len(All(n)) /\ (f + p) + w <= Len(framed') /\ f + p \in Nat
    <3>1. p + w <= a /\ (f + p) + w <= f + g /\ f + p \in Nat
      BY <1>11, <2>8
    <3>2. Len(All(n)) = a /\ Len(framed') = f + g
      BY <1>12
    <3>3. QED
      BY <3>1, <3>2
  <2>3. \A x \in 1..w : All(n)[p + x] = framed'[(f + p) + x]
    <3>1. SUFFICES ASSUME NEW x \in 1..w PROVE All(n)[p + x] = framed'[(f + p) + x]
      OBVIOUS
    <3>2. p + x \in 1..g /\ (f + p) + x = f + (p + x)
      BY <2>8
    <3>3. framed'[f + (p + x)] = All(n)[p + x]
      BY <1>12, <3>2
    <3>4. QED
      BY <3>2, <3>3
  <2>4. SubSeq(All(n), p + 1, p + w) = SubSeq(framed', (f + p) + 1, (f + p) + w)
    BY <1>12, <2>2, <2>3, SamePart
  <2>5. Cut(All(n), i) = SubSeq(All(n), p + 1, p + w)
    BY <1>1, <2>1 DEF Cut
  <2>6. ((q + i) - 1) * Whole = f + p /\ (q + i) * Whole = (f + p) + w
    <3>1. (f + p) + w = f + (p + w)
      OBVIOUS
    <3>2. ((q + i) - 1) * w = f + p /\ (q + i) * w = f + (p + w)
      BY <2>1
    <3>3. QED
      BY <1>1, <3>1, <3>2
  <2>7. QED
    BY <1>6, <2>4, <2>5, <2>6
<1>9. ASSUME NEW j \in 1..(q + m)
      PROVE  wire'[j].bytes = SubSeq(framed', (j - 1) * Whole + 1, j * Whole)
  <2>1. CASE j <= q
    <3>1. j \in 1..q
      BY <2>1
    <3>2. QED
      BY <1>7, <3>1
  <2>2. CASE ~(j <= q)
    <3>1. PICK i \in 1..m : j = q + i
      BY <1>2, <2>2, Beyond
    <3>2. QED
      BY <1>8, <3>1
  <2>3. QED
    BY <2>1, <2>2
<1>10. Len(wire') >= q + m
  <2>1. Len(wire') = Len(wire) + m
    BY BlockItems DEF Makes
  <2>2. QED
    BY <1>2, <2>1
<1>13. QED
  BY <1>5, <1>9, <1>10 DEF SentAsFramed
LEMMA BlockSession ==
    ASSUME SinkInv, PairedLaneInv, NEW n \in BlockSizes, OnBlock(n)
    PROVE  SessionKept'
<1>1. /\ EmitterTypeOK /\ ReceiverTypeOK /\ SealedInPlace /\ SessionKept /\ Received
      /\ All(n) \in Seq(Byte)
  BY AllFacts DEF SinkInv, PairedLaneInv
<1>2. /\ phase = "live" /\ UNCHANGED <<phase, codec, secure, rx>>
      /\ sink'.resampler = sink.resampler /\ Whole' = Whole
  BY <1>1, BlockKeeps
<1>3. PICK m \in 0..CutAll(All(n)) :
        /\ connection = "closed" \/ Diverged => m = 0
        /\ connection' = IF m < CutAll(All(n)) /\ ~Diverged THEN "closed" ELSE connection
        /\ Makes(n, m) /\ m \in Nat /\ CutAll(All(n)) \in Nat
        /\ Gone(n, m) \in 0..CutAll(All(n))
        /\ emitter' = [seq |-> emitter.seq + m,
                       session |-> IF emitter.session = NoSession \/ Diverged
                                   THEN emitter.session
                                   ELSE emitter.session + Gone(n, m)]
        /\ failed' = (failed \/ m < CutAll(All(n)))
  BY <1>1, BlockStep, Zenon DEF Makes
<1>4. PICK L \in Nat, M \in Nat, k \in Nat, g \in Nat :
        /\ L = Len(wire) /\ M = Len(wire') /\ M = L + m /\ k = CutAll(All(n))
        /\ g = Gone(n, m) /\ DOMAIN wire' = 1..M
        /\ \A j \in 1..L : wire'[j] = wire[j] /\ (Sealed(j)' <=> Sealed(j))
        /\ \A i \in 1..m : wire'[L + i].kind = "audio"
        /\ \A j \in 1..M : j > L => (Sealed(j)' <=> emitter.session # NoSession)
  <2>1. /\ Len(wire) \in Nat /\ Len(wire') = Len(wire) + m /\ DOMAIN wire' = 1..Len(wire')
        /\ \A j \in 1..Len(wire) : wire'[j] = wire[j] /\ (Sealed(j)' <=> Sealed(j))
        /\ \A i \in 1..m : wire'[Len(wire) + i].kind = "audio"
        /\ \A j \in 1..Len(wire') :
             j > Len(wire) => (Sealed(j)' <=> emitter.session # NoSession)
    <3>1. wire' = wire \o Sent(n, m)
      BY <1>3 DEF Makes
    <3>2. QED
      BY <1>1, <3>1, BlockItems
  <2>2. PICK k \in Nat, g \in Nat : k = CutAll(All(n)) /\ g = Gone(n, m)
    BY <1>3
  <2>3. PICK L \in Nat, M \in Nat : L = Len(wire) /\ M = Len(wire') /\ M = L + m
    <3>1. m \in Nat
      BY <1>3
    <3>2. Len(wire) \in Nat /\ Len(wire') = Len(wire) + m
      BY <2>1
    <3>3. QED
      BY <3>1, <3>2
  <2>4. /\ DOMAIN wire' = 1..M
        /\ \A j \in 1..L : wire'[j] = wire[j] /\ (Sealed(j)' <=> Sealed(j))
        /\ \A i \in 1..m : wire'[L + i].kind = "audio"
        /\ \A j \in 1..M : j > L => (Sealed(j)' <=> emitter.session # NoSession)
    BY <2>1, <2>3
  <2>5. QED
    BY <2>2, <2>3, <2>4
<1>5. \A j \in DOMAIN wire' : wire'[j].kind = "audio"
  <2>1. SUFFICES ASSUME NEW j \in 1..M PROVE wire'[j].kind = "audio"
    BY <1>4
  <2>2. CASE j <= L
    <3>1. j \in 1..L /\ j \in DOMAIN wire
      BY <1>1, <1>4, <2>2, LenProperties DEF EmitterTypeOK
    <3>2. QED
      BY <1>1, <1>2, <1>4, <3>1 DEF SessionKept
  <2>3. CASE ~(j <= L)
    <3>1. M = L + m /\ m \in Nat
      BY <1>3, <1>4
    <3>2. PICK i \in 1..m : j = L + i
      BY <2>3, <3>1, Beyond
    <3>3. QED
      BY <1>4, <3>2
  <2>4. QED
    BY <2>2, <2>3
<1>6. ASSUME emitter'.session # NoSession
      PROVE  /\ secure' /\ emitter'.seq <= emitter'.session
             /\ ~failed' => emitter'.session = emitter'.seq
             /\ failed' => connection' = "closed" /\ M = emitter'.seq
             /\ \A j \in 1..emitter'.seq : Sealed(j)'
             /\ M = emitter'.seq
             /\ sink'.resampler = 0
             /\ \A x : x = emitter'.seq => SentAsFramed(x)'
             /\ ~failed' => Len(sink'.acc) < Whole'
  <2>1. emitter.session # NoSession
    BY <1>3, <1>6
  <2>2. /\ secure /\ L = emitter.seq /\ emitter.seq <= emitter.session
        /\ emitter.session \in Nat /\ emitter.seq \in Nat
        /\ \A j \in 1..emitter.seq : Sealed(j)
        /\ failed => connection = "closed"
        /\ ~failed => emitter.session = emitter.seq
        /\ Diverged <=> emitter.session # emitter.seq
    BY <1>1, <1>2, <1>4, <2>1, LiveSession
  <2>3. PICK q \in Nat, s \in Nat : q = emitter.seq /\ s = emitter.session /\ q <= s
    BY <2>2
  <2>4. emitter'.seq = q + m /\ M = q + m /\ m \in Nat
    BY <1>3, <1>4, <2>2, <2>3
  <2>5. emitter'.session = IF Diverged THEN s ELSE s + g
    BY <1>3, <1>4, <2>1, <2>3
  <2>6. g = (IF m = k THEN m ELSE m + 1) /\ (m = k \/ m < k)
    <3>1. m \in 0..k
      BY <1>3, <1>4
    <3>2. QED
      BY <1>4, <3>1 DEF Gone
  <2>7. emitter'.seq <= emitter'.session
    <3>1. CASE Diverged
      <4>1. m = 0
        BY <1>3, <3>1
      <4>2. QED
        BY <2>3, <2>4, <2>5, <3>1, <4>1
    <3>2. CASE ~Diverged
      <4>1. g >= m
        BY <2>4, <2>6
      <4>2. QED
        BY <2>3, <2>4, <2>5, <3>2, <4>1
    <3>3. QED
      BY <3>1, <3>2
  <2>8. ASSUME ~failed'
        PROVE  emitter'.session = emitter'.seq /\ Len(sink'.acc) < Whole'
    <3>1. ~failed /\ ~(m < k)
      BY <1>3, <1>4, <2>8
    <3>2. m = k /\ g = k /\ ~Diverged /\ s = q
      BY <2>2, <2>3, <2>6, <3>1
    <3>3. emitter'.session = emitter'.seq
      BY <2>4, <2>5, <3>2
    <3>4. sink'.acc = Rest(All(n), k)
      <4>1. sink' = [sink EXCEPT !.acc = Rest(All(n), k)]
        BY <1>3, <1>4, <3>2 DEF Makes
      <4>2. QED
        BY <1>1, <4>1 DEF EmitterTypeOK
    <3>5. Len(Rest(All(n), k)) < Whole
      <4>1. k \in 0..CutAll(All(n)) /\ k = CutAll(All(n))
        BY <1>4
      <4>2. QED
        BY <1>1, <4>1, CutFacts
    <3>6. QED
      BY <1>2, <3>3, <3>4, <3>5
  <2>9. ASSUME failed'
        PROVE  connection' = "closed"
    <3>1. CASE failed
      BY <1>3, <2>2, <3>1
    <3>2. CASE ~failed
      <4>1. m < CutAll(All(n)) /\ ~Diverged
        BY <1>3, <2>2, <2>9, <3>2
      <4>2. QED
        BY <1>3, <4>1
    <3>3. QED
      BY <3>1, <3>2
  <2>10. \A j \in 1..emitter'.seq : Sealed(j)'
    <3>1. SUFFICES ASSUME NEW j \in 1..M PROVE Sealed(j)'
      BY <2>4
    <3>2. CASE j <= L
      <4>1. j \in 1..L
        BY <3>2
      <4>2. QED
        BY <1>4, <2>2, <4>1
    <3>3. CASE ~(j <= L)
      <4>1. j > L
        BY <3>3
      <4>2. QED
        BY <1>4, <2>1, <4>1
    <3>4. QED
      BY <3>2, <3>3
  <2>11. \A x : x = emitter'.seq => SentAsFramed(x)'
    <3>1. SentAsFramed(q)
      <4>1. Len(wire) >= q
        BY <1>4, <2>2, <2>3
      <4>2. QED
        BY <1>1, <2>1, <2>3, <4>1 DEF SessionKept, SentAsFramed
    <3>2. Len(wire) = q
      BY <1>4, <2>2, <2>3
    <3>3. SentAsFramed(q + m)'
      BY <1>1, <1>2, <1>3, <3>1, <3>2, BlockBytes
    <3>4. QED
      BY <2>4, <3>3
  <2>12. sink'.resampler = 0
    BY <1>1, <1>2, <2>1 DEF SessionKept
  <2>13. QED
    BY <1>2, <2>2, <2>4, <2>7, <2>8, <2>9, <2>10, <2>11, <2>12
<1>7. ASSUME emitter'.session # NoSession
      PROVE  /\ Len(framed') = emitter'.seq * Whole'
             /\ \A j \in 1..emitter'.seq :
                  wire'[j].bytes = SubSeq(framed', (j - 1) * Whole' + 1, j * Whole')
  <2>1. PICK x : x = emitter'.seq
    OBVIOUS
  <2>2. SentAsFramed(x)'
    BY <1>6, <1>7, <2>1
  <2>3. QED
    BY <2>1, <2>2 DEF SentAsFramed
<1>8. QED
  BY <1>4, <1>5, <1>6, <1>7 DEF SessionKept

LEMMA BlockLane ==
    ASSUME SinkInv, PairedLaneInv, NEW n \in BlockSizes, OnBlock(n)
    PROVE  PairedLaneInv'
BY BlockReceiver, BlockSealed, BlockSession DEF PairedLaneInv

LEMMA LaneNextInv == SinkInv /\ PairedLaneInv /\ [SinkNext]_sinkVars => PairedLaneInv'
<1> SUFFICES ASSUME SinkInv, PairedLaneInv, [SinkNext]_sinkVars PROVE PairedLaneInv'
  OBVIOUS
<1>1. ASSUME NEW f \in Formats, OnFormat(f) PROVE PairedLaneInv'
  BY <1>1, OnFormatLane
<1>2. ASSUME NEW n \in BlockSizes, OnBlock(n) PROVE PairedLaneInv'
  BY <1>2, BlockLane
<1>3. CASE Finish
  BY <1>3, FinishLane
<1>4. CASE ReadFirst \/ ReadFrame \/ ReadEnd \/ ReadFails
  BY <1>4, ReadsInv
<1>5. CASE Disconnect \/ UNCHANGED sinkVars
  <2>1. /\ UNCHANGED <<phase, codec, secure, sink, emitter, wire, framed, sealings, failed, rx>>
        /\ connection' \in {connection, "closed"}
    BY <1>5 DEF Disconnect, sinkVars, history
  <2>2. EmitterTypeOK /\ ReceiverTypeOK /\ SealedInPlace /\ SessionKept /\ Received
    BY DEF SinkInv, PairedLaneInv
  <2>3. SealedInPlace' /\ SessionKept'
    BY <2>1, <2>2, EmitterQuiet
  <2>4. ReceiverTypeOK' /\ Received'
    BY <2>1, <2>2 DEF ReceiverTypeOK, Received, Sealed, Lossless
  <2>5. QED
    BY <2>3, <2>4 DEF PairedLaneInv
<1>6. QED
  BY <1>1, <1>2, <1>3, <1>4, <1>5 DEF SinkNext

\* A sealed frame carries its place in the stream and nothing in the clear goes
\* before it, and the receiver's record says exactly which of the frames it read
\* were sealed: for both ends of a paired lane (seal_frame, run_lane_secure).
THEOREM LaneInvariance == SinkSpec => [](SinkInv /\ PairedLaneInv)
<1>1. SinkInit => SinkInv /\ PairedLaneInv
  BY SinkInitInv, LaneInitInv
<1>2. SinkInv /\ PairedLaneInv /\ [SinkNext]_sinkVars => (SinkInv /\ PairedLaneInv)'
  BY SinkNextInv, LaneNextInv
<1>3. QED
  BY <1>1, <1>2, PTL DEF SinkSpec
-----------------------------------------------------------------------------
\* A paired stream that ended and kept its session: the marker stands right
\* behind its last frame, and nothing had failed.
LEMMA CompleteStream ==
    ASSUME SinkInv, PairedLaneInv, rx.state = "done", emitter.session # NoSession
    PROVE  /\ Len(rx.rendered) = emitter.seq /\ rx.rejected = 0 /\ rx.loss = 0 /\ ~failed
           /\ emitter.seq \in Nat
<1>1. /\ EmitterTypeOK /\ ReceiverTypeOK /\ SealedInPlace /\ SessionKept /\ Received
  BY DEF SinkInv, PairedLaneInv
<1>2. PICK N \in Nat \ {0}, L \in Nat, R \in Nat, J \in Nat, q \in Nat :
        /\ N = rx.next /\ L = Len(wire) /\ R = Len(rx.rendered) /\ J = rx.rejected
        /\ q = emitter.seq
  <2>1. rx.next \in Nat \ {0} /\ rx.rejected \in Nat /\ Len(rx.rendered) \in Nat
    BY <1>1, LenProperties DEF ReceiverTypeOK
  <2>2. Len(wire) \in Nat /\ emitter.seq \in Nat
    BY <1>1, LenProperties DEF EmitterTypeOK
  <2>3. QED
    BY <2>1, <2>2
<1>3. /\ N <= L + 1 /\ R < N /\ R + J = N - 2 /\ wire[N - 1].kind = "end"
      /\ \A i \in 1..R : Sealed(i)
      /\ \A i \in (R + 1)..(N - 1) : ~Sealed(i)
      /\ rx.loss = IF wire[N - 1].total > R THEN wire[N - 1].total - R ELSE 0
  BY <1>1, <1>2 DEF Received
<1>4. /\ \A j \in 1..q : Sealed(j)
      /\ failed => L = q
      /\ L = q \/ (L = q + 1 /\ wire[L] = [kind |-> "end", total |-> q])
  BY <1>1, <1>2 DEF SessionKept
<1>5. N - 1 \in 1..L
  BY <1>3
<1>6. ~(N - 1 \in 1..q)
  <2>1. ~Sealed(N - 1)
    BY <1>3 DEF Sealed
  <2>2. QED
    BY <1>4, <2>1
<1>7. N - 1 = q + 1 /\ L = q + 1 /\ wire[q + 1].total = q
  <2>1. L # q
    BY <1>5, <1>6
  <2>2. L = q + 1 /\ wire[q + 1] = [kind |-> "end", total |-> q]
    BY <1>4, <2>1
  <2>3. N - 1 = q + 1
    BY <1>5, <1>6, <2>2
  <2>4. QED
    BY <2>2, <2>3
<1>8. ~(R < q)
  <2>1. SUFFICES ASSUME R < q PROVE FALSE
    OBVIOUS
  <2>2. q \in 1..q /\ q \in (R + 1)..(N - 1)
    BY <1>7, <2>1
  <2>3. QED
    BY <1>3, <1>4, <2>2
<1>9. R <= q
  <2>1. R + J = N - 2
    BY <1>3
  <2>2. QED
    BY <1>7, <2>1
<1>10. R = q /\ J = 0
  <2>1. R + J = N - 2
    BY <1>3
  <2>2. QED
    BY <1>7, <1>8, <1>9, <2>1
<1>11. rx.loss = 0
  <2>1. wire[N - 1].total = q
    BY <1>7
  <2>2. ~(q > R)
    BY <1>10
  <2>3. QED
    BY <1>3, <2>1, <2>2
<1>12. ~failed
  BY <1>4, <1>7
<1>13. QED
  BY <1>2, <1>10, <1>11, <1>12

LEMMA InvRendersOnlySealed == SinkInv /\ PairedLaneInv => RendersOnlySealed
<1> SUFFICES ASSUME SinkInv, PairedLaneInv PROVE RendersOnlySealed
  OBVIOUS
<1>1. /\ EmitterTypeOK /\ ReceiverTypeOK /\ SealedInPlace /\ SessionKept /\ Received
      /\ Copied
  BY DEF SinkInv, PairedLaneInv
<1>2. ASSUME NEW i \in DOMAIN rx.rendered
      PROVE  rx.rendered[i].index = i - 1 /\ rx.rendered[i].seq = i - 1
  <2>1. PICK R \in Nat, N \in Nat, L \in Nat :
          /\ R = Len(rx.rendered) /\ N = rx.next /\ L = Len(wire) /\ i \in 1..R
          /\ DOMAIN wire = 1..L
    <3>1. Len(rx.rendered) \in Nat /\ DOMAIN rx.rendered = 1..Len(rx.rendered)
          /\ rx.next \in Nat
      BY <1>1, LenProperties DEF ReceiverTypeOK
    <3>2. Len(wire) \in Nat /\ DOMAIN wire = 1..Len(wire)
      BY <1>1, LenProperties DEF EmitterTypeOK
    <3>3. i \in 1..Len(rx.rendered)
      BY <3>1
    <3>4. QED
      BY <3>1, <3>2, <3>3, Zenon
  <2>2. R < N /\ N <= L + 1 /\ rx.rendered[i] = wire[i] /\ Sealed(i)
    BY <1>1, <2>1 DEF Received
  <2>3. i \in 1..L
    BY <2>1, <2>2
  <2>4. QED
    BY <1>1, <2>1, <2>2, <2>3 DEF SealedInPlace
<1>3. \A a, b \in sealings : a[1] = b[1] => a = b
  BY <1>1 DEF SealedInPlace
<1>4. ASSUME rx.state = "done", emitter.session # NoSession
      PROVE  /\ rx.rejected = 0 /\ rx.loss = 0
             /\ \A i \in DOMAIN rx.rendered :
                  rx.rendered[i].bytes = SubSeq(captured, (i - 1) * Whole + 1, i * Whole)
             /\ Len(captured) - Len(rx.rendered) * Whole \in 0..(Whole - 1)
  <2>1. /\ Len(rx.rendered) = emitter.seq /\ rx.rejected = 0 /\ rx.loss = 0 /\ ~failed
        /\ emitter.seq \in Nat
    BY <1>4, CompleteStream
  <2>2. PICK q \in Nat, w \in Nat \ {0} : q = emitter.seq /\ w = Whole
    BY <1>1, <2>1, WholeIsSome
  <2>3. /\ sink.resampler = 0 /\ Len(framed) = q * w /\ Len(sink.acc) < w
        /\ \A j \in 1..q : wire[j].bytes = SubSeq(framed, (j - 1) * w + 1, j * w)
    BY <1>1, <1>4, <2>1, <2>2 DEF SessionKept
  <2>4. framed \in Seq(Byte) /\ captured \in Seq(Byte)
        /\ Len(captured) = Len(framed) + Len(sink.acc)
        /\ \A j \in 1..Len(framed) : captured[j] = framed[j]
    <3>1. PICK a \in Seq(Byte), f \in Seq(Byte) :
            a = sink.acc /\ f = framed /\ captured = f \o a /\ captured \in Seq(Byte)
      BY <1>1, <2>1, <2>3 DEF EmitterTypeOK, Copied
    <3> DEFINE u == f \o a
    <3>2. u \in Seq(Byte) /\ Len(u) = Len(f) + Len(a) /\ \A j \in 1..Len(f) : u[j] = f[j]
      BY Joined, SMT
    <3>3. u = captured
      BY <3>1
    <3> HIDE DEF u
    <3>4. QED
      BY <3>1, <3>2, <3>3
  <2>5. PICK F \in Nat, A \in Nat, C \in Nat :
          F = Len(framed) /\ A = Len(sink.acc) /\ C = Len(captured) /\ C = F + A /\ A < w
          /\ F = q * w
    <3>1. Len(framed) \in Nat /\ Len(sink.acc) \in Nat /\ Len(captured) \in Nat
      BY <1>1, LenProperties DEF EmitterTypeOK
    <3>2. QED
      BY <2>3, <2>4, <3>1
  <2>6. Len(captured) - Len(rx.rendered) * Whole \in 0..(Whole - 1)
    <3>1. C - F \in 0..(w - 1)
      <4>1. C = F + A /\ A < w
        BY <2>5
      <4>2. QED
        BY <4>1
    <3>2. Len(rx.rendered) * Whole = F
      BY <2>1, <2>2, <2>5
    <3>3. QED
      BY <2>2, <2>5, <3>1, <3>2
  <2>7. ASSUME NEW i \in 1..q
        PROVE  rx.rendered[i].bytes = SubSeq(captured, (i - 1) * Whole + 1, i * Whole)
    <3>1. PICK p \in Nat : p = (i - 1) * w /\ i * w = p + w /\ p + w <= F
      <4>1. (i - 1) * w \in Nat /\ i * w = (i - 1) * w + w /\ i * w <= q * w
        BY FramePlaces
      <4>2. F = q * w
        BY <2>5
      <4>3. QED
        BY <4>1, <4>2
    <3>2. p + w <= F /\ F <= C
      <4>1. p + w <= F
        BY <3>1
      <4>2. C = F + A
        BY <2>5
      <4>3. QED
        BY <4>1, <4>2
    <3>3. \A x \in 1..w : p + x \in 1..F
      BY <3>2
    <3>4. \A x \in 1..w : framed[p + x] = captured[p + x]
      BY <2>4, <2>5, <3>3
    <3>5. p + w <= Len(framed) /\ p + w <= Len(captured)
      <4>1. p + w <= C
        BY <3>2
      <4>2. QED
        BY <2>5, <3>2, <4>1
    <3>6. SubSeq(framed, p + 1, p + w) = SubSeq(captured, p + 1, p + w)
      BY <2>4, <3>4, <3>5, SamePart
    <3>7. rx.rendered[i] = wire[i]
      BY <1>1, <2>1, <2>2 DEF Received
    <3>8. wire[i].bytes = SubSeq(framed, p + 1, p + w)
      BY <2>3, <3>1
    <3>9. (i - 1) * Whole = p /\ i * Whole = p + w
      BY <2>2, <3>1
    <3>10. QED
      BY <3>6, <3>7, <3>8, <3>9
  <2>8. DOMAIN rx.rendered = 1..q
    BY <1>1, <2>1, <2>2, LenProperties DEF ReceiverTypeOK
  <2>9. QED
    BY <2>1, <2>6, <2>7, <2>8
<1>5. QED
  BY <1>2, <1>3, <1>4 DEF RendersOnlySealed

\* What the receiver of a paired lane renders was sealed by the session, in the
\* order and at the place it was sealed, no index is sealed twice, and a stream
\* that ends with its session is the capture, complete up to a tail shorter than
\* a frame (seal_frame in secure.rs, run_lane_secure in receiver_server.rs).
THEOREM RendersOnlyWhatIsSealed == SinkSpec => []RendersOnlySealed
BY LaneInvariance, InvRendersOnlySealed, PTL
=============================================================================
