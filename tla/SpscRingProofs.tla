--------------------------- MODULE SpscRingProofs ---------------------------
(***************************************************************************)
(* The SPSC ring, for every capacity, every cursor range that is a larger   *)
(* multiple of it, every set of frame lengths and every interleaving: it    *)
(* never overwrites unread bytes, never hands out a torn frame, and         *)
(* implements the bounded byte queue of ByteFifo.                          *)
(***************************************************************************)
EXTENDS SpscRing, ModularArithmetic, TLAPS

-----------------------------------------------------------------------------
(***************************************************************************)
(* Slots and cursors.                                                      *)
(***************************************************************************)

\* Two byte numbers less than Cap apart live in different slots.
LEMMA SlotsDistinct ==
    ASSUME NEW a \in Int, NEW b \in Int, NEW m \in Nat \ {0},
           a < b, b < a + m
    PROVE  a % m # b % m
<1>1. SUFFICES ASSUME a % m = b % m PROVE FALSE
  OBVIOUS
<1> DEFINE j == a \div m
           k == b \div m
<1>2. j \in Int /\ k \in Int /\ a = m * j + (a % m) /\ b = m * k + (b % m)
      /\ a % m \in Int
  BY DivMod
<1> HIDE DEF j, k
<1>3. m * (k - j) = b - a
  BY <1>1, <1>2, Distribute
<1>4. k - j = 0
  BY <1>2, <1>3, SmallMultiple
<1>5. QED
  BY <1>3, <1>4

\* wrapping_sub of two cursors is the distance of the counts behind them.
LEMMA WrappedDistance ==
    ASSUME NEW s \in Nat, NEW t \in Nat, NEW m \in Nat \ {0},
           t <= s, s - t < m
    PROVE  ((s % m) - (t % m)) % m = s - t
<1>1. PICK j \in Int : \E u \in 0..(m - 1) : s = m * j + u /\ s % m = u
  <2>1. s \in Int
    OBVIOUS
  <2>2. QED
    BY <2>1, Decompose, Zenon
<1>2. PICK k \in Int : \E v \in 0..(m - 1) : t = m * k + v /\ t % m = v
  <2>1. t \in Int
    OBVIOUS
  <2>2. QED
    BY <2>1, Decompose, Zenon
<1>3. PICK u \in 0..(m - 1) : s = m * j + u /\ s % m = u
  BY <1>1
<1>4. PICK v \in 0..(m - 1) : t = m * k + v /\ t % m = v
  BY <1>2
<1>5. u - v = m * (k - j) + (s - t)
  <2>1. PICK x \in Int : x = m * j
    OBVIOUS
  <2>2. PICK y \in Int : y = m * k
    OBVIOUS
  <2>3. m * (k - j) = y - x
    BY <2>1, <2>2, Distribute
  <2>4. s = x + u /\ t = y + v
    BY <1>3, <1>4, <2>1, <2>2
  <2>5. QED
    BY <2>3, <2>4
<1>6. k - j \in Int /\ s - t \in 0..(m - 1) /\ u - v \in Int
  OBVIOUS
<1>7. (u - v) % m = s - t
  BY <1>5, <1>6, ModUnique
<1>8. QED
  BY <1>3, <1>4, <1>7

\* wrapping_add of a cursor is the cursor of the sum.
LEMMA WrappedSum ==
    ASSUME NEW s \in Nat, NEW n \in Nat, NEW m \in Nat \ {0}
    PROVE  ((s % m) + n) % m = (s + n) % m
<1>0. s + n \in Int
  OBVIOUS
<1>1. PICK j \in Int : \E u \in 0..(m - 1) : s = m * j + u /\ s % m = u
  <2>1. s \in Int
    OBVIOUS
  <2>2. QED
    BY <2>1, Decompose, Zenon
<1>2. PICK k \in Int : \E v \in 0..(m - 1) : s + n = m * k + v /\ (s + n) % m = v
  BY <1>0, Decompose, Zenon
<1>3. PICK u \in 0..(m - 1) : s = m * j + u /\ s % m = u
  BY <1>1
<1>4. PICK v \in 0..(m - 1) : s + n = m * k + v /\ (s + n) % m = v
  BY <1>2
<1>5. u + n = m * (k - j) + v
  <2>1. PICK x \in Int : x = m * j
    OBVIOUS
  <2>2. PICK y \in Int : y = m * k
    OBVIOUS
  <2>3. m * (k - j) = y - x
    BY <2>1, <2>2, Distribute
  <2>4. s = x + u /\ s + n = y + v
    BY <1>3, <1>4, <2>1, <2>2
  <2>5. QED
    BY <2>3, <2>4
<1>6. k - j \in Int /\ u + n \in Int
  OBVIOUS
<1>7. (u + n) % m = v
  BY <1>5, <1>6, ModUnique
<1>8. QED
  BY <1>3, <1>4, <1>7

\* The slot try_push and try_pop_exact compute for byte i of a frame that
\* starts at the cursor of count s is the slot of byte number s + i, on both
\* sides of the wrap.
LEMMA SlotOfByte ==
    ASSUME RingAssumption,
           NEW s \in Nat, NEW len \in Nat, NEW i \in Nat, len <= Cap, i < len
    PROVE  /\ Slot(s % Modulus, len, i) = (s + i) % Cap
           /\ Slot(s % Modulus, len, i) \in 0..(Cap - 1)
<1>1. PICK k \in 1..Modulus : Modulus = Cap * k
  BY DEF RingAssumption
<1>2. Cap \in Nat \ {0} /\ Modulus \in Nat \ {0} /\ k \in Int
  BY <1>1 DEF RingAssumption
<1>3. PICK q \in Int : \E c \in 0..(Modulus - 1) : s = Modulus * q + c /\ s % Modulus = c
  <2>1. s \in Int
    OBVIOUS
  <2>2. QED
    BY <1>2, <2>1, Decompose, Zenon
<1>4. PICK c \in 0..(Modulus - 1) : s = Modulus * q + c /\ s % Modulus = c
  BY <1>3
<1>5. PICK d \in Int, start \in 0..(Cap - 1) : c = Cap * d + start /\ c % Cap = start
  <2>1. c \in Int
    BY <1>2
  <2>2. QED
    BY <1>2, <2>1, Decompose, Zenon
<1>7. PICK e \in Int : s = Cap * e + start
  <2>1. PICK x \in Int : x = k * q
    BY <1>2
  <2>2. Modulus * q = Cap * x
    BY <1>1, <1>2, <2>1
  <2>3. PICK y \in Int : y = Cap * x
    BY <1>2
  <2>4. PICK z \in Int : z = Cap * d
    BY <1>2
  <2>5. Cap * (x + d) = y + z
    BY <1>2, <2>3, <2>4
  <2>6. s = y + c
    BY <1>4, <2>2, <2>3
  <2>7. c = z + start
    BY <1>5, <2>4
  <2>8. s = Cap * (x + d) + start
    BY <1>2, <2>5, <2>6, <2>7
  <2>9. x + d \in Int
    OBVIOUS
  <2>10. QED
    BY <2>8, <2>9
<1>6. /\ Slot(c, len, i) = IF start + i < Cap THEN start + i ELSE start + i - Cap
  BY <1>2, <1>5 DEF Slot
<1>8. CASE start + i < Cap
  <2>1. s + i = Cap * e + (start + i) /\ start + i \in 0..(Cap - 1)
    BY <1>2, <1>7, <1>8
  <2>2. (s + i) % Cap = start + i
    <3>1. s + i \in Int
      OBVIOUS
    <3>2. QED
      BY <1>2, <1>7, <2>1, <3>1, ModUnique
  <2>3. QED
    BY <1>4, <1>6, <1>8, <2>1, <2>2
<1>9. CASE ~(start + i < Cap)
  <2>1. Cap * (e + 1) = Cap * e + Cap
    BY <1>2, <1>7
  <2>2. s + i = Cap * (e + 1) + (start + i - Cap) /\ start + i - Cap \in 0..(Cap - 1)
    BY <1>2, <1>7, <1>9, <2>1
  <2>3. (s + i) % Cap = start + i - Cap
    <3>1. s + i \in Int /\ e + 1 \in Int
      OBVIOUS
    <3>2. QED
      BY <1>2, <1>7, <2>2, <3>1, ModUnique
  <2>4. QED
    BY <1>4, <1>6, <1>9, <2>2, <2>3
<1>10. QED
  BY <1>8, <1>9

-----------------------------------------------------------------------------
(***************************************************************************)
(* The inductive invariant.                                                *)
(***************************************************************************)

LEMMA Sizes == Cap \in Nat \ {0} /\ Modulus \in Nat \ {0} /\ Cap < Modulus
BY RingAssumption DEF RingAssumption

\* What both sides compute from the two cursors is the number of bytes held.
LEMMA Held ==
    ASSUME TypeOK, Cursors
    PROVE  WrappingSub(writePos, readPos) = sent - taken
<1>1. /\ sent \in Nat /\ taken \in Nat /\ taken <= sent /\ sent - taken < Modulus
      /\ writePos = sent % Modulus /\ readPos = taken % Modulus
  BY Sizes DEF TypeOK, Cursors
<1>2. QED
  BY <1>1, Sizes, WrappedDistance DEF WrappingSub

LEMMA InitInv == Init => IInv
<1> SUFFICES ASSUME Init PROVE IInv
  OBVIOUS
<1> USE Sizes DEF Init
<1>1. TypeOK
  BY DEF TypeOK, Blank
<1>2. Cursors
  <2>1. 0 % Modulus = 0
    OBVIOUS
  <2>2. QED
    BY <2>1 DEF Cursors
<1>3. Intact /\ PushInProgress /\ PopInProgress
  BY DEF Intact, PushInProgress, PopInProgress
<1>4. QED
  BY <1>1, <1>2, <1>3 DEF IInv

\* A push begins only for a frame that fits.
LEMMA PushBeginInv ==
    ASSUME IInv, NEW len \in Lengths, PushBegin(len)
    PROVE  IInv'
<1> USE DEF PushBegin, consumer
<1>1. len \in Nat
  BY RingAssumption DEF RingAssumption
<1>2. TypeOK' /\ Cursors' /\ Intact' /\ PopInProgress'
  BY <1>1 DEF IInv, TypeOK, Cursors, Intact, PopInProgress
<1>3. sent + len <= taken + Cap
  <2>1. len <= Cap - (sent - taken)
    BY Held DEF IInv, free_space
  <2>2. QED
    BY <1>1, <2>1, Sizes DEF IInv, TypeOK
<1>4. PushInProgress'
  BY <1>1, <1>3 DEF IInv, TypeOK, PushInProgress
<1>5. QED
  BY <1>2, <1>4 DEF IInv

\* The slot of a byte being copied holds no unread byte and no byte copied
\* before it.
LEMMA PushByteInv ==
    ASSUME IInv, PushByte
    PROVE  IInv'
<1> USE DEF PushByte, consumer
<1>1. /\ sent \in Nat /\ taken \in Nat /\ plen \in Nat /\ pi \in Nat /\ pi < plen
      /\ sent + plen <= taken + Cap /\ taken <= sent /\ writePos = sent % Modulus
      /\ plen <= Cap /\ plen \in Lengths
  BY Sizes DEF IInv, TypeOK, PushInProgress, Cursors
<1>2. /\ Slot(writePos, plen, pi) = (sent + pi) % Cap
      /\ Slot(writePos, plen, pi) \in 0..(Cap - 1)
  BY <1>1, RingAssumption, SlotOfByte
<1>3. sent + pi \in Nat
  BY <1>1
<1>4. buf' = [buf EXCEPT ![(sent + pi) % Cap] = sent + pi] /\ (sent + pi) % Cap \in 0..(Cap - 1)
  BY <1>2
<1>5. TypeOK'
  <2>1. buf' \in [0..(Cap - 1) -> Nat \cup {Blank}]
    BY <1>3, <1>4 DEF IInv, TypeOK
  <2>2. pi' \in Nat
    BY <1>1
  <2>3. QED
    BY <2>1, <2>2 DEF IInv, TypeOK
<1>6. buf'[(sent + pi) % Cap] = sent + pi
  BY <1>4 DEF IInv, TypeOK
<1>7. ASSUME NEW n \in taken..(sent + pi - 1), buf[n % Cap] = n
      PROVE  buf'[n % Cap] = n
  <2>1. n \in Int /\ sent + pi \in Int /\ n < sent + pi /\ sent + pi < n + Cap
    BY <1>1, Sizes
  <2>2. n % Cap # (sent + pi) % Cap
    BY <2>1, Sizes, SlotsDistinct
  <2>3. n % Cap \in 0..(Cap - 1)
    BY <2>1, Sizes, DivMod
  <2>4. QED
    BY <1>4, <1>7, <2>2, <2>3 DEF IInv, TypeOK
<1>8. Intact'
  <2>1. SUFFICES ASSUME NEW n \in taken..(sent - 1) PROVE buf'[n % Cap] = n
    BY DEF Intact
  <2>2. n \in taken..(sent + pi - 1)
    BY <1>1
  <2>3. buf[n % Cap] = n
    BY DEF IInv, Intact
  <2>4. QED
    BY <1>7, <2>2, <2>3
<1>9. PushInProgress'
  <2>1. ASSUME NEW n \in sent..(sent + pi) PROVE buf'[n % Cap] = n
    <3>1. CASE n = sent + pi
      BY <1>6, <3>1
    <3>2. CASE n # sent + pi
      <4>1. n \in sent..(sent + pi - 1) /\ n \in taken..(sent + pi - 1)
        BY <1>1, <3>2
      <4>2. buf[n % Cap] = n
        BY <4>1 DEF IInv, PushInProgress
      <4>3. QED
        BY <1>7, <4>1, <4>2
    <3>3. QED
      BY <3>1, <3>2
  <2>2. /\ pi' = pi + 1 /\ plen' = plen /\ sent' = sent /\ taken' = taken
        /\ pi + 1 <= plen /\ sent + (pi + 1) - 1 = sent + pi
    BY <1>1
  <2>3. QED
    BY <1>1, <2>1, <2>2 DEF PushInProgress
<1>10. Cursors' /\ PopInProgress'
  BY DEF IInv, Cursors, PopInProgress
<1>11. QED
  BY <1>5, <1>8, <1>9, <1>10 DEF IInv

\* Publishing the cursor adds a frame whose bytes are all in their slots.
LEMMA PushPublishInv ==
    ASSUME IInv, PushPublish
    PROVE  IInv'
<1> USE DEF PushPublish, consumer
<1>1. /\ sent \in Nat /\ taken \in Nat /\ plen \in Nat /\ pi = plen /\ taken <= sent
      /\ sent + plen <= taken + Cap /\ writePos = sent % Modulus
      /\ \A n \in sent..(sent + plen - 1) : buf[n % Cap] = n
  BY DEF IInv, TypeOK, PushInProgress, Cursors
<1>2. PICK t : t = sent + plen
  OBVIOUS
<1>3. t \in Nat /\ sent' = t /\ sent <= t /\ t <= taken + Cap
  BY <1>1, <1>2
<1>4. writePos' = t % Modulus
  BY <1>1, <1>2, Sizes, WrappedSum DEF WrappingAdd
<1>5. t % Modulus \in 0..(Modulus - 1)
  <2>1. t \in Int
    BY <1>3
  <2>2. QED
    BY <2>1, Sizes, DivMod, Zenon
<1>6. TypeOK'
  BY <1>3, <1>4, <1>5 DEF IInv, TypeOK
<1>7. Cursors'
  BY <1>1, <1>3, <1>4 DEF IInv, Cursors
<1>8. Intact'
  <2>1. SUFFICES ASSUME NEW n \in taken..(t - 1) PROVE buf[n % Cap] = n
    BY <1>3 DEF Intact
  <2>2. CASE n < sent
    <3>1. n \in taken..(sent - 1)
      BY <1>1, <1>3, <2>2
    <3>2. QED
      BY <3>1 DEF IInv, Intact
  <2>3. CASE ~(n < sent)
    <3>1. n \in sent..(sent + plen - 1)
      BY <1>1, <1>2, <1>3, <2>3
    <3>2. QED
      BY <1>1, <3>1
  <2>4. QED
    BY <2>2, <2>3
<1>9. PushInProgress'
  BY DEF PushInProgress
<1>10. PopInProgress'
  <2>1. cpc = "copy" => taken + clen <= t
    BY <1>1, <1>3 DEF IInv, TypeOK, PopInProgress
  <2>2. QED
    BY <1>3, <2>1 DEF IInv, PopInProgress
<1>11. QED
  BY <1>6, <1>7, <1>8, <1>9, <1>10 DEF IInv

\* A pop begins only for bytes that are published.
LEMMA PopBeginInv ==
    ASSUME IInv, NEW len \in Lengths, PopBegin(len)
    PROVE  IInv'
<1> USE DEF PopBegin, producer
<1>1. len \in Nat
  BY RingAssumption DEF RingAssumption
<1>2. TypeOK' /\ Cursors' /\ Intact' /\ PushInProgress'
  BY <1>1 DEF IInv, TypeOK, Cursors, Intact, PushInProgress
<1>3. taken + len <= sent
  <2>1. len <= sent - taken
    BY Held DEF IInv, available_len
  <2>2. QED
    BY <1>1, <2>1 DEF IInv, TypeOK
<1>4. [i \in 1..0 |-> taken + i - 1] = <<>>
  OBVIOUS
<1>5. PopInProgress'
  BY <1>1, <1>3, <1>4 DEF IInv, TypeOK, PopInProgress
<1>6. QED
  BY <1>2, <1>5 DEF IInv

\* The byte read next is the next one in push order.
LEMMA PopByteInv ==
    ASSUME IInv, PopByte
    PROVE  IInv'
<1> USE DEF PopByte, producer
<1>1. /\ sent \in Nat /\ taken \in Nat /\ clen \in Nat /\ ci \in Nat /\ ci < clen
      /\ taken + clen <= sent /\ sent <= taken + Cap /\ readPos = taken % Modulus
      /\ clen <= Cap /\ clen \in Lengths
  BY Sizes DEF IInv, TypeOK, PopInProgress, Cursors
<1>2. Slot(readPos, clen, ci) = (taken + ci) % Cap
  BY <1>1, RingAssumption, SlotOfByte
<1>3. taken + ci \in taken..(sent - 1)
  BY <1>1
<1>4. buf[Slot(readPos, clen, ci)] = taken + ci
  BY <1>2, <1>3 DEF IInv, Intact
<1>5. dst = [i \in 1..ci |-> taken + i - 1]
  BY DEF IInv, PopInProgress
<1>6. dst' = [i \in 1..(ci + 1) |-> taken + i - 1]
  <2>1. \A i \in 1..(ci + 1) :
          (IF i <= ci THEN dst[i] ELSE buf[Slot(readPos, clen, ci)]) = taken + i - 1
    <3>1. SUFFICES ASSUME NEW i \in 1..(ci + 1)
                   PROVE  (IF i <= ci THEN dst[i] ELSE buf[Slot(readPos, clen, ci)]) = taken + i - 1
      OBVIOUS
    <3>2. CASE i <= ci
      BY <1>1, <1>5, <3>2
    <3>3. CASE ~(i <= ci)
      <4>1. i = ci + 1
        BY <1>1, <3>3
      <4>2. taken + ci = taken + i - 1
        BY <1>1, <4>1
      <4>3. QED
        BY <1>4, <3>3, <4>2
    <3>4. QED
      BY <3>2, <3>3
  <2>2. QED
    BY <2>1
<1>7. PopInProgress'
  <2>1. ci' = ci + 1 /\ clen' = clen /\ sent' = sent /\ taken' = taken /\ ci + 1 <= clen
    BY <1>1
  <2>2. QED
    BY <1>1, <1>6, <2>1 DEF PopInProgress
<1>8. TypeOK' /\ Cursors' /\ Intact' /\ PushInProgress'
  BY <1>1 DEF IInv, TypeOK, Cursors, Intact, PushInProgress
<1>9. QED
  BY <1>7, <1>8 DEF IInv

\* Publishing read_pos only gives up bytes that were copied out.
LEMMA PopPublishInv ==
    ASSUME IInv, PopPublish
    PROVE  IInv'
<1> USE DEF PopPublish, producer
<1>1. /\ sent \in Nat /\ taken \in Nat /\ clen \in Nat /\ taken <= sent
      /\ taken + clen <= sent /\ sent <= taken + Cap /\ readPos = taken % Modulus
  BY DEF IInv, TypeOK, PopInProgress, Cursors
<1>2. PICK t : t = taken + clen
  OBVIOUS
<1>3. t \in Nat /\ taken' = t /\ taken <= t /\ t <= sent /\ sent <= t + Cap
  BY <1>1, <1>2, Sizes
<1>4. readPos' = t % Modulus
  BY <1>1, <1>2, Sizes, WrappedSum DEF WrappingAdd
<1>5. t % Modulus \in 0..(Modulus - 1)
  <2>1. t \in Int
    BY <1>3
  <2>2. QED
    BY <2>1, Sizes, DivMod, Zenon
<1>6. TypeOK'
  BY <1>3, <1>4, <1>5 DEF IInv, TypeOK
<1>7. Cursors'
  BY <1>1, <1>3, <1>4 DEF IInv, Cursors
<1>8. Intact'
  <2>1. SUFFICES ASSUME NEW n \in t..(sent - 1) PROVE buf[n % Cap] = n
    BY <1>3 DEF Intact
  <2>2. n \in taken..(sent - 1)
    BY <1>1, <1>3
  <2>3. QED
    BY <2>2 DEF IInv, Intact
<1>9. PushInProgress'
  <2>1. ppc = "copy" => sent + plen <= t + Cap
    BY <1>1, <1>3, Sizes DEF IInv, TypeOK, PushInProgress
  <2>2. QED
    BY <1>3, <2>1 DEF IInv, PushInProgress
<1>10. PopInProgress'
  BY DEF PopInProgress
<1>11. QED
  BY <1>6, <1>7, <1>8, <1>9, <1>10 DEF IInv

LEMMA StutterInv ==
    ASSUME IInv, UNCHANGED vars
    PROVE  IInv'
BY DEF IInv, TypeOK, Cursors, Intact, PushInProgress, PopInProgress, vars, producer, consumer

LEMMA NextInv == IInv /\ [Next]_vars => IInv'
<1> SUFFICES ASSUME IInv, [Next]_vars PROVE IInv'
  OBVIOUS
<1>1. ASSUME NEW len \in Lengths, PushRefused(len) PROVE IInv'
  BY <1>1, StutterInv DEF PushRefused
<1>2. ASSUME NEW len \in Lengths, PopRefused(len) PROVE IInv'
  BY <1>2, StutterInv DEF PopRefused
<1>3. CASE UNCHANGED vars
  BY <1>3, StutterInv
<1>4. QED
  BY <1>1, <1>2, <1>3, PushBeginInv, PushByteInv, PushPublishInv, PopBeginInv, PopByteInv,
     PopPublishInv DEF Next, Producer, Consumer

-----------------------------------------------------------------------------
(***************************************************************************)
(* Theorems.                                                               *)
(***************************************************************************)

\* The cursors stay within a capacity of each other and every byte between
\* them is intact in its slot, at every point of every interleaving of
\* try_push and try_pop_exact.
THEOREM Invariance == Spec => []IInv
<1>1. Init => IInv
  BY InitInv
<1>2. IInv /\ [Next]_vars => IInv'
  BY NextInv
<1>3. QED
  BY <1>1, <1>2, PTL DEF Spec

\* The type invariant of the ring and its two threads.
THEOREM TypeCorrect == Spec => []TypeOK
<1>1. IInv => TypeOK
  BY DEF IInv
<1>2. QED
  BY <1>1, Invariance, PTL

\* free_space never underflows: `cap - w.wrapping_sub(r)` is not negative even
\* while the cursors wrap around the word.
THEOREM SubtractionSafe == Spec => []NoUnderflow
<1>1. IInv => NoUnderflow
  <2> SUFFICES ASSUME IInv PROVE NoUnderflow
    OBVIOUS
  <2>1. WrappingSub(writePos, readPos) = sent - taken
    BY Held DEF IInv
  <2>2. QED
    BY <2>1, Sizes DEF IInv, TypeOK, Cursors, NoUnderflow
<1>2. QED
  BY <1>1, Invariance, PTL

\* A push never overwrites a byte that try_pop_exact has not released.
THEOREM UnreadIntact == Spec => []Intact
<1>1. IInv => Intact
  BY DEF IInv
<1>2. QED
  BY <1>1, Invariance, PTL

\* What a pop has copied is never torn, stale or repeated.
THEOREM PopUntorn == Spec => []Untorn
<1>1. IInv => Untorn
  BY DEF IInv, PopInProgress, Untorn, TypeOK
<1>2. QED
  BY <1>1, Invariance, PTL

\* Every step of the ring is a step of the byte queue or leaves it alone: a
\* push becomes visible when write_pos is stored, a pop when read_pos is.
LEMMA StepRefines == IInv /\ [Next]_vars => [Fifo!Next]_(Fifo!vars)
<1> SUFFICES ASSUME IInv, [Next]_vars PROVE [Fifo!Next]_(Fifo!vars)
  OBVIOUS
<1>1. CASE PushPublish
  <2>1. plen \in Lengths /\ plen \in Nat /\ sent \in Nat /\ taken \in Nat
        /\ sent + plen <= taken + Cap
    BY <1>1 DEF IInv, TypeOK, PushInProgress, PushPublish
  <2>2. sent + plen - taken <= Cap
    BY <2>1, Sizes
  <2>3. Fifo!Enqueue(plen)
    BY <1>1, <2>2 DEF PushPublish, Fifo!Enqueue
  <2>4. QED
    BY <2>1, <2>3 DEF Fifo!Next
<1>2. CASE PopPublish
  <2>1. clen \in Lengths /\ clen \in Nat /\ sent \in Nat /\ taken \in Nat
        /\ taken + clen <= sent /\ ci = clen /\ dst = [i \in 1..clen |-> taken + i - 1]
    BY <1>2 DEF IInv, TypeOK, PopInProgress, PopPublish
  <2>2. clen <= sent - taken
    BY <2>1
  <2>3. Fifo!Dequeue(clen)
    BY <1>2, <2>1, <2>2 DEF PopPublish, Fifo!Dequeue
  <2>4. QED
    BY <2>1, <2>3 DEF Fifo!Next
<1>3. ASSUME UNCHANGED <<sent, taken, frame>>
      PROVE  [Fifo!Next]_(Fifo!vars)
  BY <1>3 DEF Fifo!vars
<1>4. ASSUME NEW len \in Lengths,
             PushRefused(len) \/ PushBegin(len) \/ PopRefused(len) \/ PopBegin(len)
      PROVE  UNCHANGED <<sent, taken, frame>>
  BY <1>4 DEF PushRefused, PushBegin, PopRefused, PopBegin, vars
<1>5. ASSUME PushByte \/ PopByte \/ UNCHANGED vars
      PROVE  UNCHANGED <<sent, taken, frame>>
  BY <1>5 DEF PushByte, PopByte, vars
<1>6. QED
  BY <1>1, <1>2, <1>3, <1>4, <1>5 DEF Next, Producer, Consumer

\* The ring is a bounded FIFO byte queue: whatever the interleaving of the two
\* threads, frames come out whole, in order, once, and never more than the
\* capacity is held.
THEOREM Refinement == Spec => ImplementsFifo
<1>1. Init => Fifo!Init
  BY DEF Init, Fifo!Init
<1>2. IInv /\ [Next]_vars => [Fifo!Next]_(Fifo!vars)
  BY StepRefines
<1>3. QED
  BY <1>1, <1>2, Invariance, PTL DEF Spec, ImplementsFifo, Fifo!Spec
=============================================================================
