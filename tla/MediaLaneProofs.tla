--------------------------- MODULE MediaLaneProofs ---------------------------
(***************************************************************************)
(* The jitter buffer, for every set of sequence numbers, every window and    *)
(* every number of arrivals, under the sizing rule of                       *)
(* docs/planning/PROTOCOL_SPEC.md ("reorder window <= (jitter-buffer depth  *)
(* - safety)"): the window is smaller than the capacity.  Then one media     *)
(* stream around it, for every number of frames, every reorder depth, every  *)
(* timeout and every lane: the outcome accounts for every frame.            *)
(***************************************************************************)
EXTENDS MediaLane, ModularArithmetic, FiniteSetTheorems, SequenceTheorems, TLAPS

-----------------------------------------------------------------------------
(***************************************************************************)
(* Lemmas about emit_contiguous.                                           *)
(***************************************************************************)

\* The loop of emit_contiguous stops, at the first number not held.
LEMMA StopProperties ==
    ASSUME NEW q \in SUBSET Nat, IsFiniteSet(q), NEW n \in Nat
    PROVE  /\ Stop(q, n) \in Nat
           /\ n <= Stop(q, n)
           /\ Stop(q, n) \notin q
           /\ n .. (Stop(q, n) - 1) \subseteq q
<1> DEFINE range == n .. (n + Cardinality(q))
           free == {m \in range : m \notin q}
<1>1. Cardinality(q) \in Nat
  BY FS_CardinalityType
<1>2. free # {}
  <2>1. SUFFICES ASSUME range \subseteq q PROVE FALSE
    OBVIOUS
  <2>2. Cardinality(range) = Cardinality(q) + 1
    BY <1>1, FS_Interval
  <2>3. Cardinality(range) <= Cardinality(q)
    BY <2>1, FS_Subset
  <2>4. QED
    BY <1>1, <2>2, <2>3
<1>3. PICK m \in free : \A k \in free : m <= k
  <2>1. free \in SUBSET Nat
    BY <1>1
  <2>2. QED
    BY <1>2, <2>1, LeastElement
<1>4. n .. (m - 1) \subseteq q
  BY <1>1, <1>3
<1>5. \E k \in range : k \notin q /\ n .. (k - 1) \subseteq q
  BY <1>3, <1>4
<1>6. /\ Stop(q, n) \in range
      /\ Stop(q, n) \notin q
      /\ n .. (Stop(q, n) - 1) \subseteq q
  BY <1>5 DEF Stop
<1>7. QED
  BY <1>1, <1>6

\* What emit_contiguous leaves behind when it starts from keys in n .. n + Window.
LEMMA EmitStep ==
    ASSUME JBAssumption,
           NEW q \in SUBSET Nat, IsFiniteSet(q), NEW n \in Nat,
           \A k \in q : n <= k /\ k <= n + Window,
           emit_contiguous(q, n)
    PROVE  /\ queue' \in SUBSET Nat /\ IsFiniteSet(queue')
           /\ out' \in SUBSET Nat /\ IsFiniteSet(out')
           /\ nextOut' \in Nat /\ n <= nextOut'
           /\ \A k \in queue' : nextOut' < k /\ k <= nextOut' + Window
           /\ out' = n .. (nextOut' - 1)
           /\ out' \cup queue' = q
           /\ Cardinality(out') + Cardinality(queue') = Cardinality(q)
<1> DEFINE m == Stop(q, n)
           run == n .. (m - 1)
<1>1. m \in Nat /\ n <= m /\ m \notin q /\ run \subseteq q
  BY StopProperties
<1>2. out' = run /\ queue' = q \ run /\ nextOut' = m
  BY DEF emit_contiguous
<1> HIDE DEF m
<1>3. \A k \in q \ run : m < k /\ k <= m + Window
  BY <1>1 DEF JBAssumption
<1>4. IsFiniteSet(run) /\ IsFiniteSet(q \ run)
  BY <1>1, FS_Subset, FS_Difference
<1>5. Cardinality(run) + Cardinality(q \ run) = Cardinality(q)
  <2>1. q \cap run = run
    BY <1>1
  <2>2. Cardinality(q \ run) = Cardinality(q) - Cardinality(run)
    BY <2>1, FS_Difference
  <2>3. Cardinality(q) \in Nat /\ Cardinality(run) \in Nat
    BY <1>4, FS_CardinalityType
  <2>4. QED
    BY <2>2, <2>3
<1>6. run \cup (q \ run) = q /\ run \in SUBSET Nat
  BY <1>1
<1>7. QED
  BY <1>1, <1>2, <1>3, <1>4, <1>5, <1>6

\* With a window smaller than the capacity the capacity branch of push is
\* dead code, and a jump abandons everything held.
LEMMA NoEviction ==
    ASSUME JBAssumption, Window < Cap, TypeOK, HeldInWindow,
           NEW arrival \in Nat, nextOut # NoSeq, arrival >= nextOut
    PROVE  /\ ~Evicts(Kept(arrival), Base(arrival))
           /\ Kept(arrival) = IF Jumps(arrival) THEN {} ELSE queue
           /\ Cardinality(queue) <= Window
<1>1. nextOut \in Nat /\ queue \in SUBSET Nat /\ IsFiniteSet(queue)
  BY DEF TypeOK
<1>2. queue \subseteq (nextOut + 1) .. (nextOut + Window)
  BY <1>1 DEF HeldInWindow, JBAssumption
<1>3. /\ IsFiniteSet((nextOut + 1) .. (nextOut + Window))
      /\ Cardinality((nextOut + 1) .. (nextOut + Window)) = Window
  BY <1>1, FS_Interval DEF JBAssumption
<1>4. Cardinality(queue) <= Window
  BY <1>2, <1>3, FS_Subset
<1>5. Kept(arrival) = IF Jumps(arrival) THEN {} ELSE queue
  <2>1. ASSUME Jumps(arrival) PROVE \A k \in queue : ~(k >= arrival)
    BY <1>1, <1>2, <2>1 DEF Jumps, JBAssumption
  <2>2. QED
    BY <2>1 DEF Kept
<1>6. Cardinality(Kept(arrival)) <= Window /\ Cardinality(Kept(arrival)) \in Nat
  BY <1>1, <1>4, <1>5, FS_EmptySet, FS_CardinalityType DEF JBAssumption
<1>7. ~Evicts(Kept(arrival), Base(arrival))
  BY <1>6 DEF Evicts, JBAssumption
<1>8. QED
  BY <1>4, <1>5, <1>7

-----------------------------------------------------------------------------
(***************************************************************************)
(* IInv is inductive.                                                      *)
(***************************************************************************)

\* A new buffer satisfies it.
LEMMA InitInv == Init => IInv
<1>1. SUFFICES ASSUME Init PROVE IInv
  OBVIOUS
<1>2. TypeOK
  BY <1>1, FS_EmptySet DEF Init, TypeOK, NoSeq
<1>3. Conservation
  BY <1>1, FS_EmptySet DEF Init, Conservation
<1>4. Unanchored /\ HeldInWindow /\ BehindWatermark /\ InOrder
  BY <1>1 DEF Init, Unanchored, HeldInWindow, BehindWatermark, InOrder, Emitted, NoSeq
<1>5. GapFree /\ NoLossWithoutJump
  BY <1>1 DEF Init, GapFree, NoLossWithoutJump
<1>6. QED
  BY <1>2, <1>3, <1>4, <1>5 DEF IInv

\* A push that returns nothing and leaves queue and watermark alone.
LEMMA DropStep ==
    ASSUME JBAssumption, IInv, NEW arrival \in Nat, Observe(arrival), Record(arrival),
           UNCHANGED <<queue, nextOut, ended>>, out' = {}, ~ended,
           nextOut # NoSeq, ~Jumps(arrival), arrival < nextOut \/ arrival \in queue,
           \/ duplicate' = duplicate + 1 /\ late' = late
           \/ duplicate' = duplicate /\ late' = late + 1
    PROVE  IInv'
<1> USE DEF NoSeq
<1>1. TypeOK'
  <2>1. IsFiniteSet(delivered \cup out) /\ IsFiniteSet({})
    BY FS_EmptySet, FS_Union DEF IInv, TypeOK
  <2>2. reorder' \in Nat /\ highSeen' \in Nat \cup {NoSeq}
    BY DEF IInv, TypeOK, Observe
  <2>3. jumped' \in BOOLEAN
    BY DEF IInv, TypeOK, Record, Jumps
  <2>4. QED
    BY <2>1, <2>2, <2>3 DEF IInv, TypeOK, Record
<1>2. Unanchored' /\ HeldInWindow'
  BY DEF IInv, Unanchored, HeldInWindow
<1>3. Emitted' = Emitted
  BY DEF Emitted, Record
<1>4. BehindWatermark' /\ InOrder'
  BY <1>3 DEF IInv, BehindWatermark, InOrder
<1>5. GapFree'
  BY <1>3 DEF IInv, GapFree, Record, TypeOK
<1>6. NoLossWithoutJump'
  <2>1. SUFFICES ASSUME ~jumped', NEW s \in arrived', s >= anchor'
                 PROVE  s \in Emitted' \cup queue'
    BY DEF NoLossWithoutJump
  <2>2. ~jumped /\ anchor \in Nat /\ anchor' = anchor
    BY <2>1 DEF Record, IInv, GapFree, TypeOK
  <2>3. nextOut \in Nat /\ s \in Nat
    BY DEF Record, IInv, TypeOK
  <2>4. s < nextOut \/ s \in queue
    BY <2>1, <2>2 DEF Record, IInv, GapFree
  <2>5. anchor .. (nextOut - 1) \subseteq Emitted
    BY <2>2 DEF IInv, GapFree
  <2>6. QED
    BY <1>3, <2>1, <2>2, <2>3, <2>4, <2>5
<1>7. Conservation'
  <2>1. /\ IsFiniteSet(delivered) /\ IsFiniteSet(out) /\ IsFiniteSet(queue)
        /\ delivered \cap out = {}
    BY DEF IInv, TypeOK, InOrder
  <2>2. /\ Cardinality(delivered) \in Nat /\ Cardinality(out) \in Nat
        /\ Cardinality(queue) \in Nat
    BY <2>1, FS_CardinalityType
  <2>3. Cardinality(delivered \cup out) = Cardinality(delivered) + Cardinality(out)
    <3>1. Cardinality(delivered \cup out)
            = Cardinality(delivered) + Cardinality(out) - Cardinality(delivered \cap out)
      BY <2>1, FS_Union
    <3>2. Cardinality(delivered \cap out) = 0
      BY <2>1, FS_EmptySet
    <3>3. QED
      BY <2>2, <3>1, <3>2
  <2>4. /\ delivered' = delivered \cup out
        /\ Cardinality(out') = 0
    BY FS_EmptySet DEF Record
  <2>5. /\ pushed' = pushed + 1 /\ queue' = queue
        /\ duplicate \in Nat /\ late \in Nat /\ pushed \in Nat
        /\ pushed = Cardinality(delivered) + Cardinality(out) + Cardinality(queue)
                       + duplicate + late
    BY DEF Record, IInv, TypeOK, Conservation
  <2>6. pushed' = Cardinality(delivered') + Cardinality(out') + Cardinality(queue')
                    + duplicate' + late'
    <3>1. /\ Cardinality(delivered') = Cardinality(delivered) + Cardinality(out)
          /\ Cardinality(queue') = Cardinality(queue)
      BY <2>3, <2>4, <2>5
    <3>2. QED
      BY <2>2, <2>4, <2>5, <3>1
  <2>7. QED
    BY <2>6 DEF Conservation
<1>8. QED
  BY <1>1, <1>2, <1>4, <1>5, <1>6, <1>7 DEF IInv
\* A push that inserts its frame: q is the queue with the frame inserted, n the
\* watermark emit_contiguous starts from.
LEMMA AcceptStep ==
    ASSUME JBAssumption, IInv, NEW arrival \in Nat, Observe(arrival), Record(arrival),
           ~ended, UNCHANGED <<ended, duplicate>>,
           NEW q \in SUBSET Nat, IsFiniteSet(q), NEW n \in Nat,
           emit_contiguous(q, n), arrival \in q, nextOut <= n,
           \A k \in q : n <= k /\ k <= n + Window,
           late' \in Nat, late' = late + Cardinality(queue) + 1 - Cardinality(q),
           ~jumped' => /\ n = IF nextOut = NoSeq THEN arrival ELSE nextOut
                       /\ queue \subseteq q
    PROVE  IInv'
<1> USE DEF NoSeq
<1>1. PICK m \in Nat, run \in SUBSET Nat, rest \in SUBSET Nat :
        /\ nextOut' = m /\ out' = run /\ queue' = rest
        /\ IsFiniteSet(run) /\ IsFiniteSet(rest)
        /\ n <= m
        /\ \A k \in rest : m < k /\ k <= m + Window
        /\ run = n .. (m - 1)
        /\ run \cup rest = q
        /\ Cardinality(run) + Cardinality(rest) = Cardinality(q)
  BY EmitStep
<1>2. nextOut \in Nat \cup {-1}
  BY DEF IInv, TypeOK
<1>3. \A a \in delivered' : a \in Nat /\ a < nextOut
  BY DEF IInv, TypeOK, BehindWatermark, Emitted, Record
<1>4. TypeOK'
  <2>1. IsFiniteSet(delivered') /\ delivered' \in SUBSET Nat
    BY FS_Union DEF IInv, TypeOK, Record
  <2>2. reorder' \in Nat /\ highSeen' \in Nat \cup {NoSeq}
    BY DEF IInv, TypeOK, Observe
  <2>3. jumped' \in BOOLEAN
    BY DEF IInv, TypeOK, Record, Jumps
  <2>4. /\ queue' \in SUBSET Nat /\ IsFiniteSet(queue')
        /\ out' \in SUBSET Nat /\ IsFiniteSet(out') /\ nextOut' \in Nat
    BY <1>1
  <2>5. /\ arrived' \in SUBSET Nat /\ pushed' \in Nat /\ anchor' \in Nat \cup {NoSeq}
        /\ duplicate' \in Nat /\ ended' \in BOOLEAN
    BY DEF IInv, TypeOK, Record
  <2>6. QED
    BY <2>1, <2>2, <2>3, <2>4, <2>5 DEF TypeOK
<1>5. Unanchored' /\ HeldInWindow'
  <2>1. m # -1
    OBVIOUS
  <2>2. QED
    BY <1>1, <2>1 DEF Unanchored, HeldInWindow
<1>6. BehindWatermark'
  <2>1. \A a \in delivered' \cup run : a < m
    BY <1>1, <1>2, <1>3
  <2>2. QED
    BY <1>1, <2>1 DEF BehindWatermark, Emitted
<1>7. InOrder'
  <2>1. \A a \in delivered', b \in run : a < b
    BY <1>1, <1>2, <1>3
  <2>2. QED
    BY <1>1, <2>1 DEF InOrder
<1>8. ASSUME ~jumped'
      PROVE  /\ anchor' \in Nat
             /\ anchor' .. (nextOut' - 1) \subseteq Emitted'
             /\ \A s \in arrived' : s < nextOut' \/ s \in queue'
  <2>1. ~jumped
    BY <1>8 DEF Record
  <2>2. n = IF nextOut = NoSeq THEN arrival ELSE nextOut
    BY <1>8
  <2>3. PICK a \in Nat : anchor' = a
    BY DEF IInv, TypeOK, Record
  <2>4. a .. (m - 1) \subseteq Emitted' /\ \A s \in arrived' : s < m \/ s \in rest
    <3>1. CASE nextOut = NoSeq
      <4>1. a = arrival /\ arrived' = {arrival} /\ n = arrival
        BY <2>2, <2>3, <3>1 DEF Record, IInv, Unanchored
      <4>2. run \subseteq Emitted'
        BY <1>1 DEF Emitted
      <4>3. arrival \in rest \/ arrival < m
        BY <1>1
      <4>4. QED
        BY <1>1, <4>1, <4>2, <4>3
    <3>2. CASE nextOut # NoSeq
      <4>1. /\ n = nextOut /\ a = anchor /\ queue \subseteq q
            /\ anchor .. (nextOut - 1) \subseteq Emitted
            /\ \A s \in arrived : s < nextOut \/ s \in queue
        BY <1>8, <2>1, <2>2, <2>3, <3>2 DEF Record, IInv, GapFree
      <4>2. a .. (m - 1) \subseteq (a .. (n - 1)) \cup run
        BY <1>1
      <4>3. Emitted' = Emitted \cup run
        BY <1>1 DEF Record, Emitted
      <4>4. ASSUME NEW s \in arrived' PROVE s < m \/ s \in rest
        <5>1. s \in Nat
          BY DEF IInv, TypeOK, Record
        <5>2. s < n \/ s \in q
          BY <4>1 DEF Record
        <5>3. s \in q => s \in rest \/ s < m
          BY <1>1
        <5>4. QED
          BY <1>1, <5>1, <5>2, <5>3
      <4>5. QED
        BY <4>1, <4>2, <4>3, <4>4
    <3>3. QED
      BY <3>1, <3>2
  <2>5. QED
    BY <1>1, <2>3, <2>4
<1>9. GapFree'
  BY <1>8 DEF GapFree
<1>10. NoLossWithoutJump'
  <2>1. SUFFICES ASSUME ~jumped', NEW s \in arrived', s >= anchor'
                 PROVE  s \in Emitted' \cup queue'
    BY DEF NoLossWithoutJump
  <2>2. s \in Nat
    BY <1>4 DEF TypeOK
  <2>3. PICK a \in Nat : anchor' = a
    BY <1>8, <2>1
  <2>4. a .. (m - 1) \subseteq Emitted' /\ (s < m \/ s \in rest) /\ s >= a
    BY <1>1, <1>8, <2>1, <2>3
  <2>5. QED
    BY <1>1, <2>2, <2>4
<1>11. Conservation'
  <2>1. /\ IsFiniteSet(delivered) /\ IsFiniteSet(out) /\ IsFiniteSet(queue)
        /\ delivered \cap out = {}
    BY DEF IInv, TypeOK, InOrder
  <2>2. /\ Cardinality(delivered) \in Nat /\ Cardinality(out) \in Nat
        /\ Cardinality(queue) \in Nat /\ Cardinality(q) \in Nat
    BY <2>1, FS_CardinalityType
  <2>3. Cardinality(delivered \cup out) = Cardinality(delivered) + Cardinality(out)
    <3>1. Cardinality(delivered \cup out)
            = Cardinality(delivered) + Cardinality(out) - Cardinality(delivered \cap out)
      BY <2>1, FS_Union
    <3>2. Cardinality(delivered \cap out) = 0
      BY <2>1, FS_EmptySet
    <3>3. QED
      BY <2>2, <3>1, <3>2
  <2>4. /\ Cardinality(run) \in Nat /\ Cardinality(rest) \in Nat
        /\ Cardinality(run) + Cardinality(rest) = Cardinality(q)
    BY <1>1, FS_CardinalityType
  <2>5. /\ pushed' = pushed + 1 /\ delivered' = delivered \cup out
        /\ duplicate' = duplicate
        /\ duplicate \in Nat /\ late \in Nat /\ pushed \in Nat
        /\ pushed = Cardinality(delivered) + Cardinality(out) + Cardinality(queue)
                       + duplicate + late
    BY DEF Record, IInv, TypeOK, Conservation
  <2>6. pushed + 1 = Cardinality(delivered \cup out) + Cardinality(run) + Cardinality(rest)
                       + duplicate + (late + Cardinality(queue) + 1 - Cardinality(q))
    BY <2>2, <2>3, <2>4, <2>5
  <2>7. QED
    BY <1>1, <2>5, <2>6 DEF Conservation
<1>12. QED
  BY <1>4, <1>5, <1>6, <1>7, <1>9, <1>10, <1>11 DEF IInv
\* Every push preserves IInv: one case per branch of the method.
LEMMA PushInv ==
    ASSUME JBAssumption, Window < Cap, IInv, NEW arrival \in Nat, Push(arrival)
    PROVE  IInv'
<1> USE DEF NoSeq
<1>1. /\ ~ended /\ Observe(arrival) /\ Record(arrival) /\ UNCHANGED ended
      /\ \/ PushFirst(arrival) \/ PushBehind(arrival) \/ PushHeld(arrival) \/ PushNew(arrival)
  BY DEF Push, push
<1>2. /\ nextOut \in Nat \cup {-1} /\ queue \in SUBSET Nat /\ IsFiniteSet(queue)
      /\ duplicate \in Nat /\ late \in Nat /\ Window \in Nat
      /\ Cardinality(queue) \in Nat
  BY FS_CardinalityType DEF IInv, TypeOK, JBAssumption
<1>3. CASE PushFirst(arrival)
  <2>1. queue = {} /\ nextOut = -1
    BY <1>3 DEF PushFirst, IInv, Unanchored
  <2>2. /\ emit_contiguous({arrival}, arrival) /\ duplicate' = duplicate /\ late' = late
    BY <1>3, <2>1 DEF PushFirst, counters
  <2>3. IsFiniteSet({arrival}) /\ Cardinality({arrival}) = 1 /\ Cardinality(queue) = 0
    BY <2>1, FS_Singleton, FS_EmptySet
  <2>4. late' = late + Cardinality(queue) + 1 - Cardinality({arrival})
    BY <1>2, <2>2, <2>3
  <2>5. QED
    BY <1>1, <1>2, <2>1, <2>2, <2>3, <2>4, AcceptStep
<1>4. CASE PushBehind(arrival)
  <2>1. nextOut # NoSeq /\ arrival < nextOut /\ ~Jumps(arrival)
    BY <1>2, <1>4 DEF PushBehind, Jumps
  <2>2. /\ UNCHANGED <<queue, nextOut, ended>> /\ out' = {}
        /\ \/ duplicate' = duplicate + 1 /\ late' = late
           \/ duplicate' = duplicate /\ late' = late + 1
    BY <1>1, <1>4 DEF PushBehind
  <2>3. QED
    BY <1>1, <2>1, <2>2, DropStep
<1>5. ASSUME nextOut # NoSeq, arrival >= nextOut
      PROVE  /\ ~Evicts(Kept(arrival), Base(arrival))
             /\ Kept(arrival) = IF Jumps(arrival) THEN {} ELSE queue
  BY <1>5, NoEviction DEF IInv
<1>6. CASE PushHeld(arrival)
  <2>1. nextOut # NoSeq /\ arrival >= nextOut /\ arrival \in Kept(arrival)
    BY <1>6 DEF PushHeld
  <2>2. ~Jumps(arrival) /\ Kept(arrival) = queue /\ Base(arrival) = nextOut
    BY <1>5, <2>1 DEF Base
  <2>3. queue \ Kept(arrival) = {}
    BY <2>2
  <2>4. late' = late
    BY <1>2, <1>6, <2>3, FS_EmptySet DEF PushHeld
  <2>5. UNCHANGED <<queue, nextOut, ended>> /\ out' = {} /\ duplicate' = duplicate + 1
    BY <1>1, <1>6, <2>2 DEF PushHeld
  <2>6. QED
    BY <1>1, <2>1, <2>2, <2>4, <2>5, DropStep
<1>7. CASE PushNew(arrival)
  <2>1. nextOut # NoSeq /\ arrival >= nextOut /\ arrival \notin Kept(arrival)
    BY <1>7 DEF PushNew
  <2>2. /\ AfterEvict(Kept(arrival), Base(arrival)) = Kept(arrival)
        /\ EvictedBase(Kept(arrival), Base(arrival)) = Base(arrival)
    BY <1>5, <2>1 DEF AfterEvict, EvictedBase
  <2>3. /\ late' = late + Cardinality(queue \ Kept(arrival))
        /\ emit_contiguous(Kept(arrival) \cup {arrival}, Base(arrival))
        /\ duplicate' = duplicate
    BY <1>7, <2>2 DEF PushNew
  <2>4. nextOut \in Nat
    BY <1>2, <2>1
  <2>5. CASE Jumps(arrival)
    <3>1. /\ Kept(arrival) = {} /\ Kept(arrival) \cup {arrival} = {arrival} /\ Base(arrival) = arrival
          /\ queue \ Kept(arrival) = queue
      BY <1>5, <2>1, <2>5 DEF Base
    <3>2. IsFiniteSet({arrival}) /\ Cardinality({arrival}) = 1
      BY FS_Singleton
    <3>3. /\ late' = late + Cardinality(queue) + 1 - Cardinality({arrival})
          /\ late' \in Nat
      BY <1>2, <2>3, <3>1, <3>2
    <3>4. jumped'
      BY <1>1, <2>1, <2>5 DEF Record
    <3>5. emit_contiguous({arrival}, arrival)
      BY <2>3, <3>1
    <3>6. \A k \in {arrival} : arrival <= k /\ k <= arrival + Window
      BY <1>2
    <3>7. QED
      BY <1>1, <2>1, <2>3, <3>2, <3>3, <3>4, <3>5, <3>6, AcceptStep
  <2>6. CASE ~Jumps(arrival)
    <3>1. Kept(arrival) = queue /\ Base(arrival) = nextOut /\ queue \ Kept(arrival) = {}
      BY <1>5, <2>1, <2>6 DEF Base
    <3>2. /\ IsFiniteSet(queue \cup {arrival})
          /\ Cardinality(queue \cup {arrival}) = Cardinality(queue) + 1
      BY <1>2, <2>1, <3>1, FS_AddElement
    <3>3. /\ late' = late + Cardinality(queue) + 1 - Cardinality(queue \cup {arrival})
          /\ late' \in Nat
      BY <1>2, <2>3, <3>1, <3>2, FS_EmptySet
    <3>4. emit_contiguous(queue \cup {arrival}, nextOut)
      BY <2>3, <3>1
    <3>5. \A k \in queue \cup {arrival} : nextOut <= k /\ k <= nextOut + Window
      <4>1. \A k \in queue : nextOut < k /\ k <= nextOut + Window
        BY <2>1 DEF IInv, HeldInWindow
      <4>2. arrival <= nextOut + Window
        BY <1>2, <2>4, <2>6 DEF Jumps
      <4>3. QED
        BY <1>2, <2>1, <2>4, <4>1, <4>2
    <3>6. queue \cup {arrival} \in SUBSET Nat
      BY <1>2
    <3>7. QED
      BY <1>1, <2>1, <2>3, <2>4, <3>2, <3>3, <3>4, <3>5, <3>6, AcceptStep
  <2>7. QED
    BY <2>5, <2>6
<1>8. QED
  BY <1>1, <1>3, <1>4, <1>6, <1>7

\* The end-of-stream drain preserves IInv.
LEMMA DrainInv ==
    ASSUME JBAssumption, IInv, DrainAll
    PROVE  IInv'
<1> USE DEF NoSeq
<1>1. /\ ~ended /\ ended' = TRUE /\ out' = queue /\ queue' = {}
      /\ delivered' = delivered \cup out
      /\ UNCHANGED <<nextOut, highSeen, duplicate, late, reorder>>
      /\ UNCHANGED <<arrived, pushed, anchor, jumped>>
  BY DEF DrainAll, drain_all
<1>2. TypeOK'
  BY <1>1, FS_EmptySet, FS_Union DEF IInv, TypeOK
<1>3. Unanchored' /\ HeldInWindow' /\ BehindWatermark' /\ GapFree'
  BY <1>1 DEF IInv, Unanchored, HeldInWindow, BehindWatermark, GapFree
<1>4. InOrder'
  <2>1. \A a \in delivered \cup out : a \in Nat /\ a < nextOut
    BY <1>1 DEF IInv, TypeOK, BehindWatermark, Emitted
  <2>2. \A b \in queue : b \in Nat /\ nextOut < b
    BY DEF IInv, TypeOK, Unanchored, HeldInWindow
  <2>3. nextOut \in Int
    BY DEF IInv, TypeOK
  <2>4. \A a \in delivered \cup out, b \in queue : a < b
    BY <2>1, <2>2, <2>3
  <2>5. QED
    BY <1>1, <2>4 DEF InOrder
<1>5. NoLossWithoutJump'
  <2>1. Emitted' \cup queue' = Emitted \cup queue
    BY <1>1 DEF Emitted
  <2>2. QED
    BY <1>1, <2>1 DEF IInv, NoLossWithoutJump
<1>6. Conservation'
  <2>1. /\ IsFiniteSet(delivered) /\ IsFiniteSet(out) /\ IsFiniteSet(queue)
        /\ delivered \cap out = {}
    BY DEF IInv, TypeOK, InOrder
  <2>2. /\ Cardinality(delivered) \in Nat /\ Cardinality(out) \in Nat
        /\ Cardinality(queue) \in Nat
    BY <2>1, FS_CardinalityType
  <2>3. Cardinality(delivered \cap out) = 0 /\ Cardinality({}) = 0
    BY <2>1, FS_EmptySet
  <2>4. Cardinality(delivered \cup out)
          = Cardinality(delivered) + Cardinality(out) - Cardinality(delivered \cap out)
    BY <2>1, FS_Union
  <2>5. /\ duplicate \in Nat /\ late \in Nat
        /\ pushed = Cardinality(delivered) + Cardinality(out) + Cardinality(queue)
                       + duplicate + late
    BY DEF IInv, TypeOK, Conservation
  <2>6. pushed = Cardinality(delivered \cup out) + Cardinality(queue) + Cardinality({})
                   + duplicate + late
    BY <2>2, <2>3, <2>4, <2>5
  <2>7. QED
    BY <1>1, <2>6 DEF Conservation
<1>7. QED
  BY <1>2, <1>3, <1>4, <1>5, <1>6 DEF IInv

-----------------------------------------------------------------------------
(***************************************************************************)
(* Theorems                                                                *)
(***************************************************************************)

\* The inductive invariant holds in every reachable state of a buffer whose
\* window is smaller than its capacity.
THEOREM Invariance ==
    ASSUME Window < Cap
    PROVE  Spec => []IInv
<1>1. Init => IInv
  BY InitInv
<1>2. IInv /\ [Next]_vars => IInv'
  <2>1. SUFFICES ASSUME IInv, [Next]_vars PROVE IInv'
    OBVIOUS
  <2>2. ASSUME NEW arrival \in Seqs, Push(arrival) PROVE IInv'
    BY <2>1, <2>2, PushInv, JBAssumption DEF JBAssumption
  <2>3. CASE DrainAll
    BY <2>1, <2>3, DrainInv, JBAssumption
  <2>4. CASE UNCHANGED vars
    BY <2>1, <2>4
       DEF vars, history, IInv, TypeOK, Unanchored, HeldInWindow, BehindWatermark,
           InOrder, GapFree, NoLossWithoutJump, Conservation, Emitted
  <2>5. QED
    BY <2>1, <2>2, <2>3, <2>4 DEF Next
<1>3. QED
  BY <1>1, <1>2, PTL DEF Spec

\* Type correctness.
THEOREM TypeCorrect ==
    ASSUME Window < Cap
    PROVE  Spec => []TypeOK
<1>1. IInv => TypeOK
  BY DEF IInv
<1>2. QED
  BY <1>1, Invariance, PTL

\* Frames leave the buffer in ascending order, each at most once, whatever
\* order they arrive in, including the frames flushed by drain_all.
THEOREM Ordered ==
    ASSUME Window < Cap
    PROVE  Spec => []InOrder
<1>1. IInv => InOrder
  BY DEF IInv
<1>2. QED
  BY <1>1, Invariance, PTL

\* The map never grows past Cap, although push never evicts.
THEOREM Bounded ==
    ASSUME Window < Cap
    PROVE  Spec => []HardCap
<1>1. IInv => HardCap
  <2>1. SUFFICES ASSUME IInv PROVE HardCap
    OBVIOUS
  <2>2. CASE nextOut = NoSeq
    BY <2>1, <2>2, FS_EmptySet, JBAssumption DEF IInv, Unanchored, HardCap, JBAssumption
  <2>3. CASE nextOut # NoSeq
    <3>1. nextOut \in Nat /\ Cardinality(queue) \in Nat
      BY <2>1, <2>3, FS_CardinalityType DEF IInv, TypeOK
    <3>2. Cardinality(queue) <= Window
      BY <2>1, <2>3, <3>1, NoEviction, JBAssumption DEF IInv
    <3>3. QED
      BY <3>1, <3>2, JBAssumption DEF HardCap, JBAssumption
  <2>4. QED
    BY <2>2, <2>3
<1>2. QED
  BY <1>1, Invariance, PTL

\* What is held is strictly ahead of the watermark, by the window at most: no
\* frame is ever stranded behind it.
THEOREM Windowed ==
    ASSUME Window < Cap
    PROVE  Spec => []HeldInWindow
<1>1. IInv => HeldInWindow
  BY DEF IInv
<1>2. QED
  BY <1>1, Invariance, PTL

\* Every pushed frame is returned, held or counted exactly once.
THEOREM Conserved ==
    ASSUME Window < Cap
    PROVE  Spec => []Conservation
<1>1. IInv => Conservation
  BY DEF IInv
<1>2. QED
  BY <1>1, Invariance, PTL

\* Reordering that stays inside the window loses nothing at or above the anchor.
THEOREM Lossless ==
    ASSUME Window < Cap
    PROVE  Spec => []NoLossWithoutJump
<1>1. IInv => NoLossWithoutJump
  BY DEF IInv
<1>2. QED
  BY <1>1, Invariance, PTL

-----------------------------------------------------------------------------
(***************************************************************************)
(* Lemmas about the operators.                                             *)
(***************************************************************************)

\* Removing one element keeps the others, in their order.
LEMMA RemoveAtProperties ==
    ASSUME NEW S, NEW s \in Seq(S), NEW i \in 1 .. Len(s)
    PROVE  /\ RemoveAt(s, i) \in Seq(S)
           /\ Len(RemoveAt(s, i)) = Len(s) - 1
           /\ \A j \in 1 .. (Len(s) - 1) :
                RemoveAt(s, i)[j] = IF j < i THEN s[j] ELSE s[j + 1]
<1> DEFINE before == SubSeq(s, 1, i - 1)
           after  == SubSeq(s, i + 1, Len(s))
<1>1. Len(s) \in Nat /\ \A j \in 1 .. Len(s) : s[j] \in S
  BY LenProperties, ElementOfSeq
<1>2. /\ before \in Seq(S) /\ Len(before) = i - 1
      /\ \A j \in 1 .. (i - 1) : before[j] = s[j]
  <2>1. \A j \in 1 .. (i - 1) : s[j] \in S
    BY <1>1
  <2>2. /\ before \in Seq(S)
        /\ Len(before) = IF 1 <= i - 1 THEN (i - 1) - 1 + 1 ELSE 0
        /\ \A j \in 1 .. ((i - 1) - 1 + 1) : before[j] = s[1 + j - 1]
    BY <1>1, <2>1, SubSeqProperties
  <2>3. QED
    BY <1>1, <2>2
<1>3. /\ after \in Seq(S) /\ Len(after) = Len(s) - i
      /\ \A j \in 1 .. (Len(s) - i) : after[j] = s[i + j]
  <2>1. \A j \in (i + 1) .. Len(s) : s[j] \in S
    BY <1>1
  <2>2. /\ after \in Seq(S)
        /\ Len(after) = IF i + 1 <= Len(s) THEN Len(s) - (i + 1) + 1 ELSE 0
        /\ \A j \in 1 .. (Len(s) - (i + 1) + 1) : after[j] = s[(i + 1) + j - 1]
    BY <1>1, <2>1, SubSeqProperties
  <2>3. QED
    BY <1>1, <2>2
<1> HIDE DEF before, after
<1>4. /\ before \o after \in Seq(S)
      /\ Len(before \o after) = Len(s) - 1
      /\ \A j \in 1 .. (Len(s) - 1) :
           (before \o after)[j] = IF j <= i - 1 THEN before[j] ELSE after[j - (i - 1)]
  <2>1. /\ before \o after \in Seq(S)
        /\ Len(before \o after) = Len(before) + Len(after)
        /\ \A j \in 1 .. Len(before) + Len(after) :
             (before \o after)[j]
               = IF j <= Len(before) THEN before[j] ELSE after[j - Len(before)]
    BY <1>2, <1>3, ConcatProperties
  <2>2. Len(before) + Len(after) = Len(s) - 1
    BY <1>1, <1>2, <1>3
  <2>3. QED
    BY <1>2, <2>1, <2>2
<1>5. \A j \in 1 .. (Len(s) - 1) :
        (before \o after)[j] = IF j < i THEN s[j] ELSE s[j + 1]
  <2>1. SUFFICES ASSUME NEW j \in 1 .. (Len(s) - 1)
                 PROVE  (before \o after)[j] = IF j < i THEN s[j] ELSE s[j + 1]
    OBVIOUS
  <2>2. CASE j <= i - 1
    BY <1>1, <1>2, <1>4, <2>2
  <2>3. CASE ~(j <= i - 1)
    <3>1. PICK k \in 1 .. (Len(s) - i) : k = j - (i - 1)
      BY <1>1, <2>3
    <3>2. (before \o after)[j] = after[k] /\ after[k] = s[i + k] /\ i + k = j + 1
      BY <1>1, <1>3, <1>4, <2>3, <3>1
    <3>3. QED
      BY <2>3, <3>2
  <2>4. QED
    BY <2>2, <2>3
<1>6. RemoveAt(s, i) = before \o after
  BY DEF RemoveAt, before, after
<1>7. QED
  BY <1>4, <1>5, <1>6

\* A prefix keeps its elements.
LEMMA PrefixProperties ==
    ASSUME NEW S, NEW s \in Seq(S), NEW k \in 0 .. Len(s)
    PROVE  /\ SubSeq(s, 1, k) \in Seq(S)
           /\ Len(SubSeq(s, 1, k)) = k
           /\ \A j \in 1 .. k : SubSeq(s, 1, k)[j] = s[j]
<1>1. Len(s) \in Nat /\ \A j \in 1 .. k : s[j] \in S
  BY LenProperties, ElementOfSeq
<1>2. /\ SubSeq(s, 1, k) \in Seq(S)
      /\ Len(SubSeq(s, 1, k)) = IF 1 <= k THEN k - 1 + 1 ELSE 0
      /\ \A j \in 1 .. (k - 1 + 1) : SubSeq(s, 1, k)[j] = s[1 + j - 1]
  BY <1>1, SubSeqProperties
<1>3. QED
  BY <1>1, <1>2

\* The packets of a sequence of numbers.
LEMMA FramesProperties ==
    ASSUME NEW s \in Seq(Nat)
    PROVE  /\ Frames(s) \in Seq(Item)
           /\ Len(Frames(s)) = Len(s)
           /\ \A i \in 1 .. Len(s) : Frames(s)[i].kind = "audio" /\ Frames(s)[i].n = s[i]
<1>1. Len(s) \in Nat /\ DOMAIN s = 1 .. Len(s) /\ \A i \in 1 .. Len(s) : s[i] \in Nat
  BY LenProperties, ElementOfSeq
<1>2. Frames(s) = [i \in 1 .. Len(s) |-> [kind |-> "audio", n |-> s[i]]]
  BY <1>1 DEF Frames, Audio
<1>3. \A i \in 1 .. Len(s) : [kind |-> "audio", n |-> s[i]] \in Item
  BY <1>1 DEF Item
<1>4. Frames(s) \in [1 .. Len(s) -> Item]
  BY <1>2, <1>3
<1>5. Frames(s) \in Seq(Item)
  <2>1. Seq(Item) = UNION {[1 .. m -> Item] : m \in Nat}
    BY SeqDef
  <2>2. QED
    BY <1>1, <1>4, <2>1
<1>6. DOMAIN Frames(s) = 1 .. Len(Frames(s)) /\ Len(Frames(s)) \in Nat
  BY <1>5, LenProperties
<1>7. 1 .. Len(Frames(s)) = 1 .. Len(s)
  BY <1>2, <1>6
<1>8. Len(Frames(s)) = Len(s)
  <2>1. \A k \in Nat : k \in 1 .. Len(Frames(s)) <=> k \in 1 .. Len(s)
    BY <1>7
  <2>2. PICK a \in Nat, b \in Nat : a = Len(Frames(s)) /\ b = Len(s)
    BY <1>1, <1>6
  <2>3. \A k \in Nat : (1 <= k /\ k <= a) <=> (1 <= k /\ k <= b)
    BY <2>1, <2>2
  <2>4. a = b
    BY <2>3
  <2>5. QED
    BY <2>2, <2>4
<1>9. QED
  BY <1>2, <1>5, <1>8

\* A frame leaves emit_one with what was held, or is held itself.
LEMMA EmitOneProperties ==
    ASSUME NEW h \in Seq(Nat), NEW n \in Nat, NEW r \in emit_one(h, n),
           \A i \in 1 .. Len(h) : h[i] < n + 1
    PROVE  /\ r.held \in Seq(Nat) /\ r.sent \in Seq(Nat)
           /\ Len(r.held) + Len(r.sent) = Len(h) + 1
           /\ \A i \in 1 .. Len(r.held) : r.held[i] < n + 1
           /\ \A i \in 1 .. Len(r.sent) : r.sent[i] < n + 1
           /\ ~Datagram /\ h = << >> => r.held = << >>
<1>1. /\ Len(h) \in Nat /\ << >> \in Seq(Nat) /\ <<n>> \in Seq(Nat)
      /\ Len(<<n>>) = 1 /\ <<n>>[1] = n
  BY LenProperties
<1>2. CASE r.held = << >> /\ r.sent = <<n>> \o h
  <2>1. /\ <<n>> \o h \in Seq(Nat) /\ Len(<<n>> \o h) = 1 + Len(h)
        /\ \A i \in 1 .. (1 + Len(h)) :
             (<<n>> \o h)[i] = IF i <= 1 THEN <<n>>[i] ELSE h[i - 1]
    BY <1>1, ConcatProperties
  <2>2. \A i \in 1 .. (1 + Len(h)) : (<<n>> \o h)[i] < n + 1
    BY <1>1, <2>1
  <2>3. QED
    BY <1>1, <1>2, <2>1, <2>2
<1>3. CASE r.held = Append(h, n) /\ r.sent = << >> /\ Datagram
  <2>1. /\ Append(h, n) \in Seq(Nat) /\ Len(Append(h, n)) = Len(h) + 1
        /\ \A i \in 1 .. Len(h) : Append(h, n)[i] = h[i]
        /\ Append(h, n)[Len(h) + 1] = n
    BY <1>1, AppendProperties
  <2>2. \A i \in 1 .. (Len(h) + 1) : Append(h, n)[i] < n + 1
    BY <1>1, <2>1
  <2>3. QED
    BY <1>1, <1>3, <2>1, <2>2
<1>4. \/ r = [held |-> << >>, sent |-> <<n>> \o h]
      \/ Datagram /\ r = [held |-> Append(h, n), sent |-> << >>]
  BY Zenon DEF emit_one
<1>5. \/ r.held = << >> /\ r.sent = <<n>> \o h
      \/ r.held = Append(h, n) /\ r.sent = << >> /\ Datagram
  BY <1>4
<1>6. QED
  BY <1>2, <1>3, <1>5

\* What the buffer returns or holds after a push is what it held and the frame,
\* which it takes only at or ahead of the watermark.
LEMMA PushAccepts ==
    ASSUME JBAssumption, Window < Cap, IInv, NEW n \in Nat, Push(n)
    PROVE  /\ \A k \in out' \cup queue' : k \in queue \/ (k = n /\ n >= nextOut)
           /\ nextOut' \in Nat /\ nextOut <= nextOut'
           /\ nextOut = NoSeq => n <= nextOut'
<1> USE DEF NoSeq
<1>1. PushFirst(n) \/ PushBehind(n) \/ PushHeld(n) \/ PushNew(n)
  BY DEF Push, push
<1>2. /\ nextOut \in Nat \cup {-1} /\ queue \in SUBSET Nat /\ IsFiniteSet(queue)
      /\ Window \in Nat
  BY DEF IInv, TypeOK, JBAssumption
<1>3. CASE PushFirst(n)
  <2>1. emit_contiguous({n}, n) /\ nextOut = -1
    BY <1>3 DEF PushFirst, IInv, Unanchored
  <2>2. \A k \in {n} : n <= k /\ k <= n + Window
    BY <1>2
  <2>3. out' \cup queue' = {n} /\ nextOut' \in Nat /\ n <= nextOut'
    BY <2>1, <2>2, EmitStep, FS_Singleton
  <2>4. QED
    BY <1>2, <2>1, <2>3
<1>4. CASE PushBehind(n)
  BY <1>2, <1>4 DEF PushBehind
<1>5. ASSUME nextOut # NoSeq, n >= nextOut
      PROVE  /\ ~Evicts(Kept(n), Base(n))
             /\ Kept(n) = IF Jumps(n) THEN {} ELSE queue
  BY <1>5, NoEviction DEF IInv
<1>6. CASE PushHeld(n)
  <2>1. nextOut # NoSeq /\ n >= nextOut /\ n \in Kept(n)
    BY <1>6 DEF PushHeld
  <2>2. ~Jumps(n) /\ Kept(n) = queue /\ Base(n) = nextOut
    BY <1>5, <2>1 DEF Base
  <2>3. QED
    BY <1>2, <1>6, <2>1, <2>2 DEF PushHeld
<1>7. CASE PushNew(n)
  <2>1. nextOut # NoSeq /\ n >= nextOut /\ nextOut \in Nat
    BY <1>2, <1>7 DEF PushNew
  <2>2. emit_contiguous(Kept(n) \cup {n}, Base(n))
    BY <1>5, <1>7, <2>1 DEF PushNew, AfterEvict, EvictedBase
  <2>3. CASE Jumps(n)
    <3>1. emit_contiguous({n}, n)
      BY <1>5, <2>1, <2>2, <2>3 DEF Base
    <3>2. \A k \in {n} : n <= k /\ k <= n + Window
      BY <1>2
    <3>3. out' \cup queue' = {n} /\ nextOut' \in Nat /\ n <= nextOut'
      BY <3>1, <3>2, EmitStep, FS_Singleton
    <3>4. QED
      BY <2>1, <3>3
  <2>4. CASE ~Jumps(n)
    <3>1. emit_contiguous(queue \cup {n}, nextOut)
      BY <1>5, <2>1, <2>2, <2>4 DEF Base
    <3>2. \A k \in queue : nextOut < k /\ k <= nextOut + Window
      BY <2>1 DEF IInv, HeldInWindow
    <3>3. n <= nextOut + Window
      BY <1>2, <2>1, <2>4 DEF Jumps
    <3>4. \A k \in queue \cup {n} : nextOut <= k /\ k <= nextOut + Window
      BY <1>2, <2>1, <3>2, <3>3
    <3>5. IsFiniteSet(queue \cup {n}) /\ queue \cup {n} \in SUBSET Nat
      BY <1>2, FS_AddElement
    <3>6. out' \cup queue' = queue \cup {n} /\ nextOut' \in Nat /\ nextOut <= nextOut'
      BY <2>1, <3>1, <3>4, <3>5, EmitStep
    <3>7. QED
      BY <2>1, <3>6
  <2>5. QED
    BY <2>3, <2>4
<1>8. QED
  BY <1>1, <1>3, <1>4, <1>6, <1>7

-----------------------------------------------------------------------------
(***************************************************************************)
(* The parts of LaneInv that the receiver's steps disturb.                  *)
(***************************************************************************)

\* A step that leaves the jitter buffer alone.
LEMMA BufferSame ==
    ASSUME IInv, UNCHANGED vars
    PROVE  /\ IInv' /\ Emitted' = Emitted
           /\ UNCHANGED <<queue, nextOut, arrived, pushed, anchor>>
BY DEF vars, history, IInv, TypeOK, Unanchored, HeldInWindow, BehindWatermark,
       InOrder, GapFree, NoLossWithoutJump, Conservation, Emitted

\* render_frames accounts for frames it has not seen before.
LEMMA RenderStep ==
    ASSUME LaneTypeOK, Accounted, NEW frames \in SUBSET Nat, IsFiniteSet(frames),
           IsFiniteSet(Emitted), frames \cap Emitted = {},
           Emitted' = Emitted \cup frames, render_frames(frames)
    PROVE  /\ Accounted'
           /\ formatSent' \in BOOLEAN /\ packetsRecv' \in Nat /\ malformed' \in Nat
           /\ rendered' \in SUBSET Nat /\ IsFiniteSet(rendered')
<1>1. PICK bad \in SUBSET frames,
           refused \in IF frames # {} /\ ~formatSent THEN {0, 1} ELSE {0} :
        /\ malformed' = malformed + Cardinality(bad) + refused
        /\ packetsRecv' = packetsRecv + Cardinality(frames \ bad)
        /\ rendered' = rendered \cup (frames \ bad)
  BY DEF render_frames
<1>2. formatSent' = (formatSent \/ frames # {}) /\ formatSent \in BOOLEAN
  BY DEF render_frames, LaneTypeOK
<1>3. /\ rendered \subseteq Emitted /\ rendered \in SUBSET Nat
      /\ IsFiniteSet(rendered)
      /\ packetsRecv = Cardinality(rendered) /\ malformed \in Nat
      /\ malformed - Cardinality(Emitted \ rendered) \in {0, 1}
      /\ ~formatSent => malformed = 0 /\ Emitted = {}
  BY DEF LaneTypeOK, Accounted
<1>4. /\ IsFiniteSet(bad) /\ IsFiniteSet(frames \ bad) /\ IsFiniteSet(Emitted \ rendered)
      /\ Cardinality(bad) \in Nat /\ Cardinality(frames \ bad) \in Nat
      /\ Cardinality(rendered) \in Nat /\ Cardinality(Emitted \ rendered) \in Nat
  BY <1>3, FS_Subset, FS_Difference, FS_CardinalityType
<1>5. /\ rendered' \in SUBSET Nat /\ IsFiniteSet(rendered')
      /\ Cardinality(rendered') = Cardinality(rendered) + Cardinality(frames \ bad)
  <2>1. rendered \cap (frames \ bad) = {}
    BY <1>3
  <2>2. Cardinality(rendered \cap (frames \ bad)) = 0
    BY <2>1, FS_EmptySet
  <2>3. /\ IsFiniteSet(rendered \cup (frames \ bad))
        /\ Cardinality(rendered \cup (frames \ bad))
             = Cardinality(rendered) + Cardinality(frames \ bad)
               - Cardinality(rendered \cap (frames \ bad))
    BY <1>3, <1>4, FS_Union
  <2>4. rendered' = rendered \cup (frames \ bad) /\ rendered' \in SUBSET Nat
    BY <1>1, <1>3
  <2>5. QED
    BY <1>4, <2>2, <2>3, <2>4
<1>6. Cardinality(Emitted' \ rendered')
        = Cardinality(Emitted \ rendered) + Cardinality(bad)
  <2>1. Emitted' \ rendered' = (Emitted \ rendered) \cup bad
    BY <1>1, <1>3
  <2>2. (Emitted \ rendered) \cap bad = {}
    BY <1>1
  <2>3. Cardinality((Emitted \ rendered) \cap bad) = 0
    BY <2>2, FS_EmptySet
  <2>4. Cardinality((Emitted \ rendered) \cup bad)
          = Cardinality(Emitted \ rendered) + Cardinality(bad)
            - Cardinality((Emitted \ rendered) \cap bad)
    BY <1>4, FS_Union
  <2>5. PICK e \in Nat, b \in Nat :
          e = Cardinality(Emitted \ rendered) /\ b = Cardinality(bad)
    BY <1>4
  <2>6. Cardinality((Emitted \ rendered) \cup bad) = e + b
    BY <2>3, <2>4, <2>5
  <2>7. QED
    BY <2>1, <2>5, <2>6
<1>7. refused \in {0, 1} /\ (refused = 1 => ~formatSent)
  BY <1>1
<1>8. malformed' \in Nat /\ malformed' - Cardinality(Emitted' \ rendered') \in {0, 1}
  <2>1. refused = 0 \/ malformed - Cardinality(Emitted \ rendered) = 0
    <3>1. SUFFICES ASSUME ~formatSent PROVE malformed - Cardinality(Emitted \ rendered) = 0
      BY <1>7
    <3>2. Emitted \ rendered = {} /\ malformed = 0
      BY <1>3, <3>1
    <3>3. QED
      BY <3>2, FS_EmptySet
  <2>2. PICK e \in Nat, b \in Nat :
          e = Cardinality(Emitted \ rendered) /\ b = Cardinality(bad)
    BY <1>4
  <2>3. malformed - e \in {0, 1} /\ (refused = 0 \/ malformed - e = 0)
    BY <1>3, <2>1, <2>2
  <2>4. malformed' = malformed + b + refused /\ Cardinality(Emitted' \ rendered') = e + b
    BY <1>1, <1>6, <2>2
  <2>5. malformed' \in Nat /\ malformed' - (e + b) \in {0, 1}
    BY <1>3, <1>7, <2>3, <2>4
  <2>6. QED
    BY <2>4, <2>5
<1>9. rendered' \subseteq Emitted'
  BY <1>1, <1>3
<1>10. ~formatSent' => malformed' = 0 /\ Emitted' = {}
  <2>1. SUFFICES ASSUME ~formatSent' PROVE malformed' = 0 /\ Emitted' = {}
    OBVIOUS
  <2>2. frames = {} /\ ~formatSent /\ bad = {} /\ refused = 0
    BY <1>1, <1>2, <2>1
  <2>3. QED
    BY <1>1, <1>3, <2>2, FS_EmptySet
<1>11. packetsRecv' = Cardinality(rendered') /\ packetsRecv' \in Nat
  BY <1>1, <1>3, <1>4, <1>5
<1>12. QED
  BY <1>2, <1>5, <1>8, <1>9, <1>10, <1>11 DEF Accounted

\* A frame through the jitter buffer and the sink.
LEMMA IngestStep ==
    ASSUME JBAssumption, Window < Cap, LaneInv, NEW n \in Nat, n < seq, IngestFrame(n)
    PROVE  /\ IInv' /\ FromAnchor' /\ Accounted'
           /\ \A k \in Emitted' \cup queue' : k < seq
           /\ pushed' = pushed + 1 /\ rphase' = "run" /\ loss' = loss
           /\ formatSent' \in BOOLEAN /\ packetsRecv' \in Nat /\ malformed' \in Nat
           /\ rendered' \in SUBSET Nat /\ IsFiniteSet(rendered')
<1> USE DEF NoSeq
<1>1. /\ Push(n) /\ render_frames(out') /\ rphase' = "run" /\ loss' = loss
      /\ Record(n)
  BY DEF IngestFrame, Push
<1>2. IInv' /\ IInv
  BY <1>1, PushInv DEF LaneInv
<1>3. /\ \A k \in out' \cup queue' : k \in queue \/ (k = n /\ n >= nextOut)
      /\ nextOut' \in Nat /\ nextOut <= nextOut'
      /\ nextOut = NoSeq => n <= nextOut'
  BY <1>1, <1>2, PushAccepts
<1>4. delivered' = Emitted /\ Emitted' = Emitted \cup out' /\ arrived' = arrived \cup {n}
      /\ pushed' = pushed + 1 /\ anchor' = IF anchor = NoSeq THEN n ELSE anchor
  BY <1>1 DEF Record, Emitted
<1>5. /\ nextOut \in Nat \cup {-1} /\ anchor \in Nat \cup {-1}
      /\ Emitted \in SUBSET Nat /\ queue \in SUBSET Nat /\ IsFiniteSet(Emitted)
      /\ out' \in SUBSET Nat /\ IsFiniteSet(out')
  BY <1>2, FS_Union DEF IInv, TypeOK, Emitted
<1>6. out' \cap Emitted = {}
  <2>1. \A a \in Emitted, b \in out' : a < b
    BY <1>2, <1>4 DEF IInv, InOrder
  <2>2. QED
    BY <1>5, <2>1
<1>7. /\ Accounted'
      /\ formatSent' \in BOOLEAN /\ packetsRecv' \in Nat /\ malformed' \in Nat
      /\ rendered' \in SUBSET Nat /\ IsFiniteSet(rendered')
  BY <1>1, <1>4, <1>5, <1>6, RenderStep DEF LaneInv
<1>8. \A k \in Emitted' \cup queue' : k < seq
  BY <1>3, <1>4 DEF LaneInv, Numbered
<1>9. FromAnchor'
  <2>1. anchor' \in 0 .. nextOut'
    <3>1. CASE nextOut = NoSeq
      BY <1>2, <1>3, <1>4, <3>1 DEF IInv, Unanchored
    <3>2. CASE nextOut # NoSeq
      BY <1>3, <1>4, <1>5, <3>2 DEF LaneInv, FromAnchor
    <3>3. QED
      BY <3>1, <3>2
  <2>2. ASSUME NEW k \in Emitted' \cup queue' PROVE k \in arrived' /\ k >= anchor'
    <3>1. CASE k \in Emitted \cup queue
      <4>1. k \in arrived /\ k >= anchor /\ k \in Nat
        BY <1>5, <3>1 DEF LaneInv, FromAnchor
      <4>2. anchor # NoSeq
        <5>1. nextOut # NoSeq
          <6>1. SUFFICES ASSUME nextOut = NoSeq PROVE FALSE
            OBVIOUS
          <6>2. arrived = {}
            BY <1>2, <6>1 DEF IInv, Unanchored
          <6>3. QED
            BY <4>1, <6>2
        <5>2. QED
          BY <5>1 DEF LaneInv, FromAnchor
      <4>3. QED
        BY <1>4, <4>1, <4>2
    <3>2. CASE k = n /\ n >= nextOut
      <4>1. nextOut # NoSeq => anchor \in 0 .. nextOut
        BY DEF LaneInv, FromAnchor
      <4>2. nextOut = NoSeq => anchor = NoSeq
        BY <1>2 DEF IInv, Unanchored
      <4>3. QED
        BY <1>4, <1>5, <3>2, <4>1, <4>2
    <3>3. QED
      BY <1>3, <1>4, <3>1, <3>2
  <2>3. QED
    BY <2>1, <2>2 DEF FromAnchor
<1>10. QED
  BY <1>1, <1>2, <1>4, <1>7, <1>8, <1>9

\* The end marker: the drain, and the outcome.
LEMMA FinishStep ==
    ASSUME JBAssumption, LaneInv, FinishAfterEnd(seq)
    PROVE  /\ IInv' /\ FromAnchor' /\ Accounted'
           /\ \A k \in Emitted' \cup queue' : k < seq
           /\ pushed' = pushed /\ rphase' = "done" /\ queue' = {}
           /\ loss' \in Nat /\ packetsRecv' + loss' = seq
           /\ formatSent' \in BOOLEAN /\ packetsRecv' \in Nat /\ malformed' \in Nat
           /\ rendered' \in SUBSET Nat /\ IsFiniteSet(rendered')
<1>1. /\ DrainAll /\ render_frames(out') /\ rphase' = "done"
      /\ loss' = IF seq > packetsRecv' THEN seq - packetsRecv' ELSE 0
      /\ out' = queue /\ queue' = {} /\ delivered' = delivered \cup out
      /\ UNCHANGED <<nextOut, arrived, pushed, anchor>>
  BY DEF FinishAfterEnd, DrainAll, drain_all
<1>2. IInv' /\ IInv
  BY <1>1, DrainInv DEF LaneInv
<1>3. delivered' = Emitted /\ Emitted' = Emitted \cup queue
  BY <1>1 DEF Emitted
<1>4. /\ Emitted \in SUBSET Nat /\ queue \in SUBSET Nat /\ IsFiniteSet(Emitted)
      /\ IsFiniteSet(queue)
  BY <1>2, FS_Union DEF IInv, TypeOK, Emitted
<1>5. queue \cap Emitted = {}
  <2>1. \A a \in Emitted, b \in queue : a < b
    BY <1>1, <1>2, <1>3 DEF IInv, InOrder
  <2>2. QED
    BY <1>4, <2>1
<1>6. /\ Accounted'
      /\ formatSent' \in BOOLEAN /\ packetsRecv' \in Nat /\ malformed' \in Nat
      /\ rendered' \in SUBSET Nat /\ IsFiniteSet(rendered')
  BY <1>1, <1>3, <1>4, <1>5, RenderStep DEF LaneInv
<1>7. \A k \in Emitted' \cup queue' : k < seq
  BY <1>1, <1>3 DEF LaneInv, Numbered
<1>8. FromAnchor'
  BY <1>1, <1>3 DEF LaneInv, FromAnchor
<1>9. packetsRecv' <= seq /\ seq \in Nat
  <2>1. seq \in Nat
    BY DEF LaneInv, LaneTypeOK
  <2>2. rendered' \subseteq 0 .. (seq - 1)
    BY <1>6, <1>7, <2>1 DEF Accounted
  <2>3. IsFiniteSet(0 .. (seq - 1)) /\ Cardinality(0 .. (seq - 1)) = seq
    <3>1. /\ IsFiniteSet(0 .. (seq - 1))
          /\ Cardinality(0 .. (seq - 1)) = IF 0 > seq - 1 THEN 0 ELSE (seq - 1) - 0 + 1
      BY <2>1, FS_Interval
    <3>2. QED
      BY <2>1, <3>1
  <2>4. Cardinality(rendered') <= seq
    BY <2>2, <2>3, FS_Subset
  <2>5. QED
    BY <1>6, <2>1, <2>4 DEF Accounted
<1>10. loss' \in Nat /\ packetsRecv' + loss' = seq
  <2>1. PICK p \in Nat : p = packetsRecv'
    BY <1>6
  <2>2. loss' = IF seq > p THEN seq - p ELSE 0
    BY <1>1, <2>1
  <2>3. p <= seq /\ seq \in Nat
    BY <1>9, <2>1
  <2>4. PICK d \in Nat : seq = p + d
    <3>1. seq - p \in Nat /\ seq = p + (seq - p)
      BY <2>3
    <3>2. QED
      BY <3>1
  <2>5. loss' = d
    BY <2>2, <2>3, <2>4
  <2>6. QED
    BY <2>1, <2>4, <2>5
<1>11. QED
  BY <1>1, <1>2, <1>6, <1>7, <1>8, <1>10

-----------------------------------------------------------------------------
(***************************************************************************)
(* LaneInv is inductive: one lemma per action.                             *)
(***************************************************************************)

LEMMA LaneInitInv == LaneInit => LaneInv
<1>1. SUFFICES ASSUME LaneInit PROVE LaneInv
  OBVIOUS
<1>2. IInv /\ Emitted = {} /\ queue = {} /\ nextOut = NoSeq /\ pushed = 0
  BY <1>1, InitInv DEF LaneInit, Init, Emitted
<1>3. /\ held = << >> /\ wire = << >> /\ Len(held) = 0 /\ Len(wire) = 0
      /\ DOMAIN wire = {} /\ DOMAIN held = {}
      /\ held \in Seq(Nat) /\ wire \in Seq(Item)
  BY <1>1 DEF LaneInit
<1>4. rendered = {} /\ IsFiniteSet(rendered) /\ Cardinality({}) = 0 /\ {} \ {} = {}
  BY <1>1, FS_EmptySet DEF LaneInit
<1>5. lane \in {"datagram", "stream"}
  BY <1>1, LaneAssumption DEF LaneInit, LaneAssumption
<1>6. LaneTypeOK
  BY <1>1, <1>3, <1>4, <1>5 DEF LaneInit, LaneTypeOK
<1>7. Numbered /\ FromAnchor
  BY <1>2, <1>3 DEF Numbered, FromAnchor
<1>8. Accounted
  BY <1>1, <1>2, <1>4 DEF LaneInit, Accounted
<1>9. AtOutcome /\ Sending /\ StreamOrder
  BY <1>1, <1>2, <1>3 DEF LaneInit, AtOutcome, Sending, StreamOrder
<1>10. QED
  BY <1>2, <1>6, <1>7, <1>8, <1>9 DEF LaneInv

\* What is on the wire after more packets were sent.
LEMMA SendFrames ==
    ASSUME NEW w \in Seq(Item), NEW s \in Seq(Nat)
    PROVE  /\ w \o Frames(s) \in Seq(Item)
           /\ Len(w \o Frames(s)) = Len(w) + Len(s)
           /\ \A i \in DOMAIN (w \o Frames(s)) :
                \/ i \in DOMAIN w /\ (w \o Frames(s))[i] = w[i]
                \/ /\ (w \o Frames(s))[i].kind = "audio"
                   /\ \E j \in 1 .. Len(s) : (w \o Frames(s))[i].n = s[j]
<1> DEFINE f == Frames(s)
<1>1. /\ f \in Seq(Item) /\ Len(f) = Len(s)
      /\ \A i \in 1 .. Len(s) : f[i].kind = "audio" /\ f[i].n = s[i]
  BY FramesProperties
<1> HIDE DEF f
<1>2. Len(w) \in Nat /\ DOMAIN w = 1 .. Len(w) /\ Len(s) \in Nat
  BY LenProperties
<1>3. /\ w \o f \in Seq(Item) /\ Len(w \o f) = Len(w) + Len(f)
      /\ \A i \in 1 .. Len(w) + Len(f) :
           (w \o f)[i] = IF i <= Len(w) THEN w[i] ELSE f[i - Len(w)]
  <2>1. w \in Seq(Item) /\ f \in Seq(Item)
    BY <1>1
  <2>2. QED
    BY <2>1, ConcatProperties, Zenon
<1>4. DOMAIN (w \o f) = 1 .. (Len(w) + Len(s))
  BY <1>1, <1>3, LenProperties
<1>5. ASSUME NEW i \in DOMAIN (w \o f)
      PROVE  \/ i \in DOMAIN w /\ (w \o f)[i] = w[i]
             \/ /\ (w \o f)[i].kind = "audio"
                /\ \E j \in 1 .. Len(s) : (w \o f)[i].n = s[j]
  <2>1. i \in 1 .. (Len(w) + Len(s))
    BY <1>4
  <2>2. CASE i <= Len(w)
    BY <1>1, <1>2, <1>3, <2>1, <2>2
  <2>3. CASE ~(i <= Len(w))
    <3>1. PICK j \in 1 .. Len(s) : j = i - Len(w)
      BY <1>2, <2>1, <2>3
    <3>2. (w \o f)[i] = f[j]
      BY <1>1, <1>2, <1>3, <2>1, <2>3, <3>1
    <3>3. QED
      BY <1>1, <3>2
  <2>4. QED
    BY <2>2, <2>3
<1>6. QED
  BY <1>1, <1>3, <1>5 DEF f

\* The packets an iteration of run() puts on the wire, in every case.
LEMMA EmitFrameSends ==
    ASSUME LaneInv, EmitFrame
    PROVE  \E s \in Seq(Nat), k \in Nat :
             /\ wire' = wire \o Frames(s)
             /\ packetsSent' = packetsSent + Len(s)
             /\ offered' = offered + k
             /\ held' \in Seq(Nat)
             /\ Len(held') + Len(s) = Len(held) + k
             /\ \A i \in 1 .. Len(held') : held'[i] < seq + 1
             /\ \A i \in 1 .. Len(s) : s[i] < seq + 1
             /\ ~Datagram => held' = << >>
<1>1. /\ held \in Seq(Nat) /\ wire \in Seq(Item) /\ seq \in Nat
      /\ packetsSent \in Nat /\ offered \in Nat
  BY DEF LaneInv, LaneTypeOK
<1>2. /\ Len(held) \in Nat /\ DOMAIN held = 1 .. Len(held)
      /\ \A i \in 1 .. Len(held) : held[i] \in Nat
  BY <1>1, LenProperties, ElementOfSeq
<1>3. /\ \A i \in 1 .. Len(held) : held[i] < seq + 1
      /\ ~Datagram => held = << >>
  <2>1. ASSUME NEW i \in 1 .. Len(held) PROVE held[i] < seq + 1
    <3>1. held[i] < seq
      BY <1>2 DEF LaneInv, Numbered
    <3>2. QED
      BY <1>1, <1>2, <3>1
  <2>2. QED
    BY <2>1 DEF LaneInv, StreamOrder
<1>4. CASE UNCHANGED <<held, packetsSent, offered, wire>>
  <2>1. << >> \in Seq(Nat) /\ Len(<< >>) = 0
    OBVIOUS
  <2>2. Frames(<< >>) = << >>
    <3>1. Frames(<< >>) \in Seq(Item) /\ Len(Frames(<< >>)) = 0
      BY <2>1, FramesProperties
    <3>2. QED
      BY <3>1, EmptySeq
  <2>3. wire' = wire \o Frames(<< >>)
    BY <1>1, <1>4, <2>2, ConcatEmptySeq
  <2>4. /\ packetsSent' = packetsSent + Len(<< >>) /\ offered' = offered + 0
        /\ held' = held /\ Len(held') + Len(<< >>) = Len(held) + 0
    BY <1>1, <1>2, <1>4, <2>1
  <2>5. \A i \in 1 .. Len(<< >>) : << >>[i] < seq + 1
    BY <2>1
  <2>6. held' \in Seq(Nat) /\ \A i \in 1 .. Len(held') : held'[i] < seq + 1
    BY <1>1, <1>3, <1>4
  <2>7. ~Datagram => held' = << >>
    BY <1>3, <1>4
  <2>8. << >> \in Seq(Nat) /\ 0 \in Nat
    BY <2>1
  <2>9. QED
    BY <2>3, <2>4, <2>5, <2>6, <2>7, <2>8, Zenon
<1>5. ASSUME NEW r \in emit_one(held, seq), held' = r.held,
             wire' = wire \o Frames(r.sent),
             packetsSent' = packetsSent + Len(r.sent), offered' = offered + 1
      PROVE  \E s \in Seq(Nat), k \in Nat :
               /\ wire' = wire \o Frames(s)
               /\ packetsSent' = packetsSent + Len(s)
               /\ offered' = offered + k
               /\ held' \in Seq(Nat)
               /\ Len(held') + Len(s) = Len(held) + k
               /\ \A i \in 1 .. Len(held') : held'[i] < seq + 1
               /\ \A i \in 1 .. Len(s) : s[i] < seq + 1
               /\ ~Datagram => held' = << >>
  <2>1. /\ r.held \in Seq(Nat) /\ r.sent \in Seq(Nat)
        /\ Len(r.held) + Len(r.sent) = Len(held) + 1
        /\ \A i \in 1 .. Len(r.held) : r.held[i] < seq + 1
        /\ \A i \in 1 .. Len(r.sent) : r.sent[i] < seq + 1
        /\ ~Datagram => r.held = << >>
    BY <1>1, <1>3, EmitOneProperties
  <2>2. QED
    BY <1>5, <2>1
<1>6. ASSUME NEW r \in emit_one(held, seq), NEW d \in emit_one(r.held, seq),
             held' = d.held, wire' = wire \o Frames(r.sent \o d.sent),
             packetsSent' = packetsSent + Len(r.sent \o d.sent), offered' = offered + 2
      PROVE  \E s \in Seq(Nat), k \in Nat :
               /\ wire' = wire \o Frames(s)
               /\ packetsSent' = packetsSent + Len(s)
               /\ offered' = offered + k
               /\ held' \in Seq(Nat)
               /\ Len(held') + Len(s) = Len(held) + k
               /\ \A i \in 1 .. Len(held') : held'[i] < seq + 1
               /\ \A i \in 1 .. Len(s) : s[i] < seq + 1
               /\ ~Datagram => held' = << >>
  <2>1. /\ r.held \in Seq(Nat) /\ r.sent \in Seq(Nat)
        /\ Len(r.held) + Len(r.sent) = Len(held) + 1
        /\ \A i \in 1 .. Len(r.held) : r.held[i] < seq + 1
        /\ \A i \in 1 .. Len(r.sent) : r.sent[i] < seq + 1
        /\ ~Datagram => r.held = << >>
    BY <1>1, <1>3, EmitOneProperties
  <2>2. /\ d.held \in Seq(Nat) /\ d.sent \in Seq(Nat)
        /\ Len(d.held) + Len(d.sent) = Len(r.held) + 1
        /\ \A i \in 1 .. Len(d.held) : d.held[i] < seq + 1
        /\ \A i \in 1 .. Len(d.sent) : d.sent[i] < seq + 1
        /\ ~Datagram => d.held = << >>
    BY <1>1, <2>1, EmitOneProperties
  <2>3. /\ Len(r.held) \in Nat /\ Len(r.sent) \in Nat
        /\ Len(d.held) \in Nat /\ Len(d.sent) \in Nat
    BY <2>1, <2>2, LenProperties
  <2>4. /\ r.sent \o d.sent \in Seq(Nat)
        /\ Len(r.sent \o d.sent) = Len(r.sent) + Len(d.sent)
        /\ \A i \in 1 .. Len(r.sent) + Len(d.sent) :
             (r.sent \o d.sent)[i]
               = IF i <= Len(r.sent) THEN r.sent[i] ELSE d.sent[i - Len(r.sent)]
    <3>1. r.sent \in Seq(Nat) /\ d.sent \in Seq(Nat)
      BY <2>1, <2>2
    <3>2. QED
      BY <3>1, ConcatProperties, Zenon
  <2>5. \A i \in 1 .. Len(r.sent \o d.sent) : (r.sent \o d.sent)[i] < seq + 1
    <3>1. SUFFICES ASSUME NEW i \in 1 .. (Len(r.sent) + Len(d.sent))
                   PROVE  (r.sent \o d.sent)[i] < seq + 1
      BY <2>4
    <3>2. CASE i <= Len(r.sent)
      BY <2>1, <2>3, <2>4, <3>2
    <3>3. CASE ~(i <= Len(r.sent))
      <4>1. PICK j \in 1 .. Len(d.sent) : j = i - Len(r.sent)
        <5>1. PICK a \in Nat, b \in Nat : a = Len(r.sent) /\ b = Len(d.sent)
          BY <2>3
        <5>2. i \in 1 .. (a + b) /\ ~(i <= a)
          BY <3>3, <5>1
        <5>3. i - a \in 1 .. b
          BY <5>2
        <5>4. QED
          BY <5>1, <5>3
      <4>2. (r.sent \o d.sent)[i] = d.sent[j]
        BY <2>3, <2>4, <3>3, <4>1
      <4>3. QED
        BY <2>2, <4>2
    <3>4. QED
      BY <3>2, <3>3
  <2>6. Len(d.held) + Len(r.sent \o d.sent) = Len(held) + 2
    <3>1. PICK a \in Nat, b \in Nat, c \in Nat, e \in Nat, l \in Nat :
            /\ a = Len(r.held) /\ b = Len(r.sent) /\ l = Len(held)
            /\ c = Len(d.held) /\ e = Len(d.sent)
      BY <1>2, <2>3
    <3>2. a + b = l + 1 /\ c + e = a + 1
      BY <2>1, <2>2, <3>1
    <3>3. c + (b + e) = l + 2
      BY <3>2
    <3>4. Len(r.sent \o d.sent) = b + e
      BY <2>4, <3>1
    <3>5. QED
      BY <3>1, <3>3, <3>4
  <2>7. QED
    BY <1>6, <2>2, <2>4, <2>5, <2>6
<1>7. QED
  BY <1>4, <1>5, <1>6 DEF EmitFrame

\* A step that leaves the buffer and the metrics alone.
LEMMA MetricsSame ==
    ASSUME LaneInv, UNCHANGED <<vars, metrics>>
    PROVE  /\ IInv' /\ FromAnchor' /\ Accounted' /\ Emitted' = Emitted
           /\ UNCHANGED <<queue, pushed>>
<1>1. /\ IInv' /\ Emitted' = Emitted
      /\ UNCHANGED <<queue, nextOut, arrived, pushed, anchor>>
  BY BufferSame DEF LaneInv
<1>2. UNCHANGED <<formatSent, packetsRecv, malformed, rendered>>
  BY DEF metrics
<1>3. FromAnchor' /\ Accounted'
  BY <1>1, <1>2 DEF LaneInv, FromAnchor, Accounted
<1>4. QED
  BY <1>1, <1>3

LEMMA EmitFrameInv == LaneInv /\ EmitFrame => LaneInv'
<1>1. SUFFICES ASSUME LaneInv, EmitFrame PROVE LaneInv'
  OBVIOUS
<1>2. PICK s \in Seq(Nat), k \in Nat :
        /\ wire' = wire \o Frames(s)
        /\ packetsSent' = packetsSent + Len(s)
        /\ offered' = offered + k
        /\ held' \in Seq(Nat)
        /\ Len(held') + Len(s) = Len(held) + k
        /\ \A i \in 1 .. Len(held') : held'[i] < seq + 1
        /\ \A i \in 1 .. Len(s) : s[i] < seq + 1
        /\ ~Datagram => held' = << >>
  BY <1>1, EmitFrameSends
<1>3. /\ phase = "run" /\ connected /\ seq' = seq + 1
      /\ UNCHANGED <<vars, lane, phase, connected, receiver, metrics>>
      /\ UNCHANGED <<rphase, timer, idle, loss, formatSent, packetsRecv, malformed, rendered>>
  BY <1>1 DEF EmitFrame, receiver, metrics
<1>4. IInv' /\ FromAnchor' /\ Accounted' /\ Emitted' = Emitted /\ UNCHANGED <<queue, pushed>>
  BY <1>1, <1>3, MetricsSame
<1>5. /\ wire' \in Seq(Item) /\ Len(wire') = Len(wire) + Len(s)
      /\ \A i \in DOMAIN wire' :
           \/ i \in DOMAIN wire /\ wire'[i] = wire[i]
           \/ wire'[i].kind = "audio" /\ \E j \in 1 .. Len(s) : wire'[i].n = s[j]
  BY <1>1, <1>2, SendFrames DEF LaneInv, LaneTypeOK
<1>6. PICK a \in Nat, b \in Nat, c \in Nat, e \in Nat :
        a = Len(wire) /\ b = Len(s) /\ c = Len(held) /\ e = Len(held')
  BY <1>1, <1>2, LenProperties DEF LaneInv, LaneTypeOK
<1>7. /\ seq \in Nat /\ packetsSent \in Nat /\ offered \in Nat
      /\ seq' \in Nat /\ packetsSent' \in Nat /\ offered' \in Nat /\ pushed \in Nat
  BY <1>1, <1>2, <1>3, <1>6 DEF LaneInv, LaneTypeOK, IInv, TypeOK
<1>8. LaneTypeOK'
  BY <1>1, <1>2, <1>3, <1>5, <1>7 DEF LaneInv, LaneTypeOK
<1>9. \A i \in DOMAIN wire' : wire'[i].kind = "audio" /\ wire'[i].n < seq'
  <2>1. SUFFICES ASSUME NEW i \in DOMAIN wire'
                 PROVE  wire'[i].kind = "audio" /\ wire'[i].n < seq'
    OBVIOUS
  <2>2. CASE i \in DOMAIN wire /\ wire'[i] = wire[i]
    <3>1. wire[i].kind = "audio" /\ wire[i].n < seq
      BY <1>1, <1>3, <2>2 DEF LaneInv, Numbered
    <3>2. wire[i].n \in Nat
      <4>1. wire[i] \in Item
        BY <1>1, <2>2, LenProperties, ElementOfSeq DEF LaneInv, LaneTypeOK
      <4>2. QED
        BY <4>1 DEF Item
    <3>3. QED
      BY <1>3, <1>7, <2>2, <3>1, <3>2
  <2>3. CASE wire'[i].kind = "audio" /\ \E j \in 1 .. Len(s) : wire'[i].n = s[j]
    BY <1>2, <1>3, <2>3
  <2>4. QED
    BY <1>5, <2>2, <2>3
<1>10. Numbered'
  <2>1. \A i \in DOMAIN held' : held'[i] < seq'
    BY <1>2, <1>3, LenProperties
  <2>2. \A n \in Emitted' \cup queue' : n < seq'
    <3>1. Emitted \in SUBSET Nat /\ queue \in SUBSET Nat
      BY <1>1 DEF LaneInv, IInv, TypeOK, Emitted
    <3>2. \A n \in Emitted \cup queue : n < seq
      BY <1>1 DEF LaneInv, Numbered
    <3>3. QED
      BY <1>3, <1>4, <1>7, <3>1, <3>2
  <2>3. QED
    BY <1>9, <2>1, <2>2 DEF Numbered
<1>11. AtOutcome'
  BY <1>1, <1>3 DEF LaneInv, AtOutcome
<1>12. Sending'
  <2>1. packetsSent + c = offered
    BY <1>1, <1>6 DEF LaneInv, Sending
  <2>2. e + b = c + k
    BY <1>2, <1>6
  <2>3. (packetsSent + b) + e = offered + k
    BY <1>7, <2>1, <2>2
  <2>4. packetsSent' + Len(held') = offered'
    BY <1>2, <1>6, <2>3
  <2>5. QED
    BY <1>3, <2>4 DEF Sending
<1>13. StreamOrder'
  <2>1. SUFFICES ASSUME lane # "datagram" PROVE StreamOrder'
    BY <1>3 DEF StreamOrder, Datagram
  <2>2. held = << >> /\ held' = << >> /\ idle = timer /\ pushed + a = offered
    BY <1>1, <1>2, <1>3, <1>6, <2>1 DEF LaneInv, StreamOrder, Datagram
  <2>3. b = k
    <3>1. c = 0 /\ e = 0
      BY <1>6, <2>2
    <3>2. QED
      BY <1>2, <1>6, <3>1
  <2>4. pushed' + Len(wire') = offered'
    <3>1. pushed + (a + b) = offered + k
      BY <1>6, <1>7, <2>2, <2>3
    <3>2. QED
      BY <1>2, <1>4, <1>5, <1>6, <3>1
  <2>5. \A i \in DOMAIN wire' : wire'[i].kind # "end"
    BY <1>9
  <2>6. rphase' # "done"
    BY <1>1, <1>3 DEF LaneInv, AtOutcome
  <2>7. QED
    BY <1>3, <2>2, <2>4, <2>5, <2>6 DEF StreamOrder
<1>14. QED
  BY <1>4, <1>8, <1>10, <1>11, <1>12, <1>13 DEF LaneInv

LEMMA EmitEndInv == LaneInv /\ EmitEnd => LaneInv'
<1>1. SUFFICES ASSUME LaneInv, EmitEnd PROVE LaneInv'
  OBVIOUS
<1>2. /\ phase = "run" /\ connected /\ phase' = "ended" /\ held' = << >>
      /\ wire' = (wire \o Frames(held)) \o <<End(seq)>>
      /\ packetsSent' = packetsSent + Len(held)
      /\ UNCHANGED <<vars, lane, seq, offered, connected, receiver, metrics>>
      /\ UNCHANGED <<rphase, timer, idle, loss, formatSent, packetsRecv, malformed, rendered>>
  BY <1>1 DEF EmitEnd, receiver, metrics
<1>3. IInv' /\ FromAnchor' /\ Accounted' /\ Emitted' = Emitted /\ UNCHANGED <<queue, pushed>>
  BY <1>1, <1>2, MetricsSame
<1>4. /\ wire \in Seq(Item) /\ held \in Seq(Nat) /\ seq \in Nat /\ packetsSent \in Nat
      /\ offered \in Nat /\ pushed \in Nat
  BY <1>1 DEF LaneInv, LaneTypeOK, IInv, TypeOK
<1> DEFINE body == wire \o Frames(held)
<1>5. /\ body \in Seq(Item) /\ Len(body) = Len(wire) + Len(held)
      /\ \A i \in DOMAIN body :
           \/ i \in DOMAIN wire /\ body[i] = wire[i]
           \/ body[i].kind = "audio" /\ \E j \in 1 .. Len(held) : body[i].n = held[j]
  BY <1>4, SendFrames
<1>6. wire' = body \o <<End(seq)>>
  BY <1>2
<1> HIDE DEF body
<1>7. PICK a \in Nat, b \in Nat : a = Len(wire) /\ b = Len(held)
  BY <1>4, LenProperties
<1>8. Len(body) = a + b /\ DOMAIN body = 1 .. (a + b) /\ DOMAIN held = 1 .. Len(held)
  BY <1>4, <1>5, <1>7, LenProperties
<1>9. End(seq) \in Item /\ End(seq).kind = "end" /\ End(seq).n = seq
  BY <1>4 DEF End, Item
<1>10. /\ wire' \in Seq(Item) /\ Len(wire') = a + b + 1
       /\ \A i \in 1 .. (a + b) : wire'[i] = body[i]
       /\ wire'[a + b + 1] = End(seq)
       /\ DOMAIN wire' = 1 .. (a + b + 1)
  <2>1. /\ Append(body, End(seq)) \in Seq(Item)
        /\ Len(Append(body, End(seq))) = Len(body) + 1
        /\ \A i \in 1 .. Len(body) : Append(body, End(seq))[i] = body[i]
        /\ Append(body, End(seq))[Len(body) + 1] = End(seq)
    BY <1>5, <1>9, AppendProperties
  <2>2. Append(body, End(seq)) = body \o <<End(seq)>>
    BY <1>5, <1>9, AppendIsConcat
  <2>3. wire' = Append(body, End(seq))
    BY <1>6, <2>2
  <2>4. DOMAIN wire' = 1 .. Len(wire')
    BY <2>1, <2>3, LenProperties
  <2>5. QED
    BY <1>8, <2>1, <2>3, <2>4
<1>11. \A i \in 1 .. (a + b) : wire'[i].kind = "audio" /\ wire'[i].n < seq
  <2>1. SUFFICES ASSUME NEW i \in 1 .. (a + b)
                 PROVE  body[i].kind = "audio" /\ body[i].n < seq
    BY <1>10
  <2>2. CASE i \in DOMAIN wire /\ body[i] = wire[i]
    BY <1>1, <1>2, <2>2 DEF LaneInv, Numbered
  <2>3. CASE body[i].kind = "audio" /\ \E j \in 1 .. Len(held) : body[i].n = held[j]
    BY <1>1, <1>8, <2>3 DEF LaneInv, Numbered
  <2>4. QED
    BY <1>5, <1>8, <2>2, <2>3
<1>12. packetsSent + b = offered
  BY <1>1, <1>7 DEF LaneInv, Sending
<1>13. LaneTypeOK'
  <2>1. packetsSent' \in Nat /\ held' \in Seq(Nat) /\ phase' \in {"run", "ended", "failed"}
    BY <1>2, <1>4, <1>7
  <2>2. QED
    BY <1>1, <1>2, <1>10, <2>1 DEF LaneInv, LaneTypeOK
<1>14. Numbered'
  <2>1. DOMAIN held' = {}
    BY <1>2
  <2>2. \A n \in Emitted' \cup queue' : n < seq'
    BY <1>1, <1>2, <1>3 DEF LaneInv, Numbered
  <2>3. \A i \in DOMAIN wire' : i \in 1 .. (a + b) \/ i = a + b + 1
    BY <1>10
  <2>4. \A i \in DOMAIN wire' : IF wire'[i].kind = "audio" THEN wire'[i].n < seq'
                                ELSE wire'[i].n = seq' /\ phase' = "ended"
    BY <1>2, <1>9, <1>10, <1>11, <2>3
  <2>5. QED
    BY <2>1, <2>2, <2>4 DEF Numbered
<1>15. AtOutcome'
  BY <1>1, <1>2 DEF LaneInv, AtOutcome
<1>16. Sending'
  <2>1. Len(held') = 0 /\ packetsSent' = offered
    BY <1>2, <1>7, <1>12
  <2>2. QED
    BY <1>2, <1>4, <2>1 DEF Sending
<1>17. StreamOrder'
  <2>1. SUFFICES ASSUME lane # "datagram" PROVE StreamOrder'
    BY <1>2 DEF StreamOrder, Datagram
  <2>2. held = << >> /\ idle = timer /\ pushed + a = offered
    BY <1>1, <1>2, <1>7, <2>1 DEF LaneInv, StreamOrder, Datagram
  <2>3. b = 0
    BY <1>7, <2>2
  <2>4. ASSUME NEW i \in DOMAIN wire', wire'[i].kind = "end"
        PROVE  i = Len(wire') /\ pushed' + i - 1 = offered'
    <3>1. i = a + b + 1
      BY <1>10, <1>11, <2>4
    <3>2. QED
      BY <1>2, <1>3, <1>4, <1>10, <2>2, <2>3, <3>1
  <2>5. rphase' # "done"
    BY <1>1, <1>2 DEF LaneInv, AtOutcome
  <2>6. QED
    BY <1>2, <2>2, <2>4, <2>5 DEF StreamOrder
<1>18. QED
  BY <1>3, <1>13, <1>14, <1>15, <1>16, <1>17 DEF LaneInv

LEMMA EmitFailsInv == LaneInv /\ EmitFails => LaneInv'
<1>1. SUFFICES ASSUME LaneInv, EmitFails PROVE LaneInv'
  OBVIOUS
<1>2. /\ phase = "run" /\ ~connected /\ phase' = "failed"
      /\ UNCHANGED <<vars, lane, seq, held, packetsSent, offered, wire, connected>>
      /\ UNCHANGED <<receiver, metrics>>
      /\ UNCHANGED <<rphase, timer, idle, loss, formatSent, packetsRecv, malformed, rendered>>
  BY <1>1 DEF EmitFails, receiver, metrics
<1>3. IInv' /\ FromAnchor' /\ Accounted' /\ Emitted' = Emitted /\ UNCHANGED <<queue, pushed>>
  BY <1>1, <1>2, MetricsSame
<1>4. LaneTypeOK' /\ Sending' /\ AtOutcome'
  BY <1>1, <1>2, <1>3 DEF LaneInv, LaneTypeOK, Sending, AtOutcome
<1>5. Numbered'
  BY <1>1, <1>2, <1>3 DEF LaneInv, Numbered
<1>6. StreamOrder'
  BY <1>1, <1>2, <1>3 DEF LaneInv, StreamOrder, Datagram
<1>7. QED
  BY <1>3, <1>4, <1>5, <1>6 DEF LaneInv

\* One item leaves the wire: lost, or read by the receiver.
LEMMA TakeItem ==
    ASSUME LaneInv, NEW i \in DOMAIN wire, wire' = RemoveAt(wire, i),
           UNCHANGED <<seq, phase>>
    PROVE  /\ wire' \in Seq(Item) /\ wire[i] \in Item /\ wire[i].n \in Nat
           /\ Len(wire') = Len(wire) - 1
           /\ DOMAIN wire = 1 .. Len(wire) /\ DOMAIN wire' = 1 .. Len(wire')
           /\ \A j \in DOMAIN wire' :
                IF wire'[j].kind = "audio" THEN wire'[j].n < seq'
                                           ELSE wire'[j].n = seq' /\ phase' = "ended"
           /\ i = 1 => \A j \in DOMAIN wire' :
                         j + 1 \in DOMAIN wire /\ wire'[j] = wire[j + 1]
<1>1. wire \in Seq(Item) /\ DOMAIN wire = 1 .. Len(wire) /\ Len(wire) \in Nat
  BY LenProperties DEF LaneInv, LaneTypeOK
<1>2. /\ wire' \in Seq(Item)
      /\ Len(wire') = Len(wire) - 1
      /\ \A j \in 1 .. (Len(wire) - 1) : wire'[j] = IF j < i THEN wire[j] ELSE wire[j + 1]
  BY <1>1, RemoveAtProperties
<1>3. DOMAIN wire' = 1 .. (Len(wire) - 1)
  BY <1>2, LenProperties
<1>4. \A j \in DOMAIN wire' : \E l \in DOMAIN wire : wire'[j] = wire[l]
  BY <1>1, <1>2, <1>3, SMTT(20)
<1>5. i = 1 => \A j \in DOMAIN wire' : j + 1 \in DOMAIN wire /\ wire'[j] = wire[j + 1]
  BY <1>1, <1>2, <1>3
<1>6. wire[i] \in Item /\ wire[i].n \in Nat
  <2>1. wire[i] \in Item
    BY <1>1, ElementOfSeq
  <2>2. QED
    BY <2>1 DEF Item
<1>7. \A j \in DOMAIN wire' :
        IF wire'[j].kind = "audio" THEN wire'[j].n < seq'
                                   ELSE wire'[j].n = seq' /\ phase' = "ended"
  BY <1>4 DEF LaneInv, Numbered
<1>8. QED
  BY <1>1, <1>2, <1>3, <1>5, <1>6, <1>7

LEMMA LoseInv == LaneInv /\ Lose => LaneInv'
<1>1. SUFFICES ASSUME LaneInv, Lose PROVE LaneInv'
  OBVIOUS
<1>2. PICK i \in DOMAIN wire : wire' = RemoveAt(wire, i)
  BY <1>1 DEF Lose
<1>3. /\ Datagram
      /\ UNCHANGED <<vars, lane, phase, seq, held, packetsSent, offered, connected, metrics>>
      /\ UNCHANGED <<rphase, timer, idle, loss, formatSent, packetsRecv, malformed, rendered>>
  BY <1>1 DEF Lose, emitter, receiver, metrics
<1>4. IInv' /\ FromAnchor' /\ Accounted' /\ Emitted' = Emitted /\ UNCHANGED <<queue, pushed>>
  BY <1>1, <1>3, MetricsSame
<1>5. /\ wire' \in Seq(Item)
      /\ \A j \in DOMAIN wire' :
           IF wire'[j].kind = "audio" THEN wire'[j].n < seq'
                                      ELSE wire'[j].n = seq' /\ phase' = "ended"
  BY <1>1, <1>2, <1>3, TakeItem
<1>6. LaneTypeOK' /\ Sending' /\ AtOutcome'
  BY <1>1, <1>3, <1>4, <1>5 DEF LaneInv, LaneTypeOK, Sending, AtOutcome
<1>7. Numbered' /\ StreamOrder'
  BY <1>1, <1>3, <1>4, <1>5 DEF LaneInv, Numbered, StreamOrder, Datagram
<1>8. QED
  BY <1>4, <1>6, <1>7 DEF LaneInv

LEMMA DisconnectInv == LaneInv /\ Disconnect => LaneInv'
<1>1. SUFFICES ASSUME LaneInv, Disconnect PROVE LaneInv'
  OBVIOUS
<1>2. PICK k \in 0 .. Len(wire) : wire' = SubSeq(wire, 1, k)
  BY <1>1 DEF Disconnect
<1>3. /\ connected' = FALSE
      /\ UNCHANGED <<vars, lane, phase, seq, held, packetsSent, offered, metrics>>
      /\ UNCHANGED <<rphase, timer, idle, loss, formatSent, packetsRecv, malformed, rendered>>
  BY <1>1 DEF Disconnect, emitter, receiver, metrics
<1>4. IInv' /\ FromAnchor' /\ Accounted' /\ Emitted' = Emitted /\ UNCHANGED <<queue, pushed>>
  BY <1>1, <1>3, MetricsSame
<1>5. wire \in Seq(Item) /\ DOMAIN wire = 1 .. Len(wire) /\ Len(wire) \in Nat
  BY <1>1, LenProperties DEF LaneInv, LaneTypeOK
<1>6. wire' \in Seq(Item) /\ Len(wire') = k /\ \A j \in 1 .. k : wire'[j] = wire[j]
  BY <1>2, <1>5, PrefixProperties
<1>7. DOMAIN wire' = 1 .. k /\ \A j \in DOMAIN wire' : j \in DOMAIN wire /\ wire'[j] = wire[j]
  <2>1. DOMAIN wire' = 1 .. k
    BY <1>6, LenProperties
  <2>2. QED
    BY <1>5, <1>6, <2>1
<1>8. LaneTypeOK' /\ Sending' /\ AtOutcome'
  BY <1>1, <1>3, <1>4, <1>6 DEF LaneInv, LaneTypeOK, Sending, AtOutcome
<1>9. Numbered'
  <2>1. \A j \in DOMAIN wire' :
          IF wire'[j].kind = "audio" THEN wire'[j].n < seq'
                                     ELSE wire'[j].n = seq' /\ phase' = "ended"
    BY <1>1, <1>3, <1>7 DEF LaneInv, Numbered
  <2>2. QED
    BY <1>1, <1>3, <1>4, <2>1 DEF LaneInv, Numbered
<1>10. StreamOrder'
  <2>1. SUFFICES ASSUME lane # "datagram" PROVE StreamOrder'
    BY <1>3 DEF StreamOrder, Datagram
  <2>2. /\ held = << >> /\ idle = timer
        /\ \A j \in DOMAIN wire :
             wire[j].kind = "end" => j = Len(wire) /\ pushed + j - 1 = offered
        /\ rphase = "done" => pushed = offered
    BY <1>1, <2>1 DEF LaneInv, StreamOrder, Datagram
  <2>3. ASSUME NEW j \in DOMAIN wire', wire'[j].kind = "end"
        PROVE  j = Len(wire') /\ pushed + j - 1 = offered
    <3>1. j = Len(wire) /\ pushed + j - 1 = offered /\ j \in 1 .. k
      BY <1>7, <2>2, <2>3
    <3>2. PICK a \in Nat : a = Len(wire)
      BY <1>5
    <3>3. k \in 0 .. a /\ j = a /\ j \in 1 .. k
      BY <3>1, <3>2
    <3>4. j = k
      BY <3>3
    <3>5. QED
      BY <1>6, <3>1, <3>4
  <2>4. QED
    BY <1>3, <1>4, <2>2, <2>3 DEF StreamOrder
<1>11. QED
  BY <1>4, <1>8, <1>9, <1>10 DEF LaneInv

\* Reading an item keeps the lane's order: on the stream lane it is the oldest.
LEMMA ReadOrder ==
    ASSUME LaneInv, NEW i \in Readable, wire' = RemoveAt(wire, i),
           UNCHANGED <<emitter, connected>>, ~Datagram => idle' = timer', rphase # "done",
           \/ wire[i].kind = "audio" /\ pushed' = pushed + 1 /\ rphase' # "done"
           \/ wire[i].kind = "end" /\ pushed' = pushed
    PROVE  StreamOrder'
<1>1. SUFFICES ASSUME lane # "datagram" PROVE StreamOrder'
  BY DEF StreamOrder, Datagram, emitter
<1>2. UNCHANGED <<lane, phase, seq, held, packetsSent, offered, connected>>
  BY DEF emitter
<1>3. i = 1 /\ i \in DOMAIN wire /\ idle' = timer'
  BY <1>1 DEF Readable, Datagram
<1>4. /\ wire' \in Seq(Item) /\ Len(wire') = Len(wire) - 1
      /\ DOMAIN wire = 1 .. Len(wire) /\ DOMAIN wire' = 1 .. Len(wire')
      /\ \A j \in DOMAIN wire' : j + 1 \in DOMAIN wire /\ wire'[j] = wire[j + 1]
  BY <1>2, <1>3, TakeItem
<1>5. /\ held = << >>
      /\ phase = "run" /\ connected => pushed + Len(wire) = offered
      /\ \A j \in DOMAIN wire :
           wire[j].kind = "end" => j = Len(wire) /\ pushed + j - 1 = offered
  BY <1>1 DEF LaneInv, StreamOrder, Datagram
<1>6. PICK a \in Nat : a = Len(wire)
  BY LenProperties DEF LaneInv, LaneTypeOK
<1>7. pushed \in Nat /\ offered \in Nat
  BY DEF LaneInv, LaneTypeOK, IInv, TypeOK
<1>8. CASE wire[i].kind = "audio" /\ pushed' = pushed + 1 /\ rphase' # "done"
  <2>1. phase' = "run" /\ connected' => pushed' + Len(wire') = offered'
    BY <1>2, <1>4, <1>5, <1>6, <1>7, <1>8
  <2>2. ASSUME NEW j \in DOMAIN wire', wire'[j].kind = "end"
        PROVE  j = Len(wire') /\ pushed' + j - 1 = offered'
    <3>1. j + 1 = a /\ pushed + (j + 1) - 1 = offered /\ j \in 1 .. (a - 1)
      BY <1>4, <1>5, <1>6, <2>2
    <3>2. QED
      BY <1>2, <1>4, <1>6, <1>7, <1>8, <3>1
  <2>3. QED
    BY <1>2, <1>3, <1>5, <1>8, <2>1, <2>2 DEF StreamOrder
<1>9. CASE wire[i].kind = "end" /\ pushed' = pushed
  <2>1. a = 1 /\ pushed + 1 - 1 = offered
    BY <1>3, <1>5, <1>6, <1>9
  <2>2. DOMAIN wire' = {} /\ pushed = offered
    BY <1>4, <1>6, <1>7, <2>1
  <2>3. phase = "ended"
    BY <1>3, <1>9 DEF LaneInv, Numbered
  <2>4. QED
    BY <1>2, <1>3, <1>5, <1>9, <2>2, <2>3 DEF StreamOrder
<1>10. QED
  BY <1>8, <1>9

\* What taking an item needs from the other parts of LaneInv.
LEMMA ReadInv ==
    ASSUME JBAssumption, Window < Cap, LaneInv, NEW i \in Readable,
           wire' = RemoveAt(wire, i), UNCHANGED <<emitter, connected>>,
           ~Datagram => idle' = timer', timer' \in Nat, idle' \in Nat, rphase \in {"sniff", "run"},
           \/ wire[i].kind = "audio" /\ IngestFrame(wire[i].n)
           \/ wire[i].kind = "end" /\ FinishAfterEnd(wire[i].n)
           \/ wire[i].kind = "end" /\ rphase' = "failed" /\ UNCHANGED <<vars, metrics>>
    PROVE  LaneInv'
<1>1. UNCHANGED <<lane, phase, seq, held, packetsSent, offered, connected>>
  BY DEF emitter
<1>2. i \in DOMAIN wire
  BY DEF Readable
<1>3. /\ wire' \in Seq(Item) /\ wire[i].n \in Nat
      /\ \A j \in DOMAIN wire' :
           IF wire'[j].kind = "audio" THEN wire'[j].n < seq'
                                      ELSE wire'[j].n = seq' /\ phase' = "ended"
  BY <1>1, <1>2, TakeItem
<1>4. Sending'
  BY <1>1 DEF LaneInv, Sending
<1>5. ASSUME \A k \in Emitted' \cup queue' : k < seq
      PROVE  Numbered'
  BY <1>1, <1>3, <1>5 DEF LaneInv, Numbered
<1>6. ASSUME formatSent' \in BOOLEAN, packetsRecv' \in Nat, malformed' \in Nat,
             loss' \in Nat, rendered' \in SUBSET Nat, IsFiniteSet(rendered'),
             rphase' \in {"sniff", "run", "done", "failed"}
      PROVE  LaneTypeOK'
  BY <1>1, <1>3, <1>6 DEF LaneInv, LaneTypeOK
<1>7. CASE wire[i].kind = "audio" /\ IngestFrame(wire[i].n)
  <2>1. wire[i].n < seq
    BY <1>2, <1>7 DEF LaneInv, Numbered
  <2>2. /\ IInv' /\ FromAnchor' /\ Accounted'
        /\ \A k \in Emitted' \cup queue' : k < seq
        /\ pushed' = pushed + 1 /\ rphase' = "run" /\ loss' = loss
        /\ formatSent' \in BOOLEAN /\ packetsRecv' \in Nat /\ malformed' \in Nat
        /\ rendered' \in SUBSET Nat /\ IsFiniteSet(rendered')
    BY <1>3, <1>7, <2>1, IngestStep
  <2>3. loss' \in Nat
    BY <2>2 DEF LaneInv, LaneTypeOK
  <2>4. LaneTypeOK' /\ Numbered'
    BY <1>5, <1>6, <2>2, <2>3
  <2>5. AtOutcome'
    BY <2>2 DEF AtOutcome
  <2>6. StreamOrder'
    BY <1>7, <2>2, ReadOrder
  <2>7. QED
    BY <1>4, <2>2, <2>4, <2>5, <2>6 DEF LaneInv
<1>8. CASE wire[i].kind = "end" /\ FinishAfterEnd(wire[i].n)
  <2>1. wire[i].n = seq /\ phase = "ended"
    BY <1>2, <1>8 DEF LaneInv, Numbered
  <2>2. /\ IInv' /\ FromAnchor' /\ Accounted'
        /\ \A k \in Emitted' \cup queue' : k < seq
        /\ pushed' = pushed /\ rphase' = "done" /\ queue' = {}
        /\ loss' \in Nat /\ packetsRecv' + loss' = seq
        /\ formatSent' \in BOOLEAN /\ packetsRecv' \in Nat /\ malformed' \in Nat
        /\ rendered' \in SUBSET Nat /\ IsFiniteSet(rendered')
    BY <1>8, <2>1, FinishStep
  <2>3. LaneTypeOK' /\ Numbered'
    BY <1>5, <1>6, <2>2
  <2>4. AtOutcome'
    BY <1>1, <2>1, <2>2 DEF AtOutcome
  <2>5. StreamOrder'
    BY <1>8, <2>2, ReadOrder
  <2>6. QED
    BY <1>4, <2>2, <2>3, <2>4, <2>5 DEF LaneInv
<1>9. CASE wire[i].kind = "end" /\ rphase' = "failed" /\ UNCHANGED <<vars, metrics>>
  <2>1. IInv' /\ FromAnchor' /\ Accounted' /\ Emitted' = Emitted /\ UNCHANGED <<queue, pushed>>
    BY <1>9, MetricsSame
  <2>2. UNCHANGED <<formatSent, packetsRecv, malformed, loss, rendered>>
    BY <1>9 DEF metrics
  <2>3. /\ formatSent \in BOOLEAN /\ packetsRecv \in Nat /\ malformed \in Nat
        /\ loss \in Nat /\ rendered \in SUBSET Nat /\ IsFiniteSet(rendered)
        /\ \A k \in Emitted \cup queue : k < seq
    BY DEF LaneInv, LaneTypeOK, Numbered
  <2>4. LaneTypeOK' /\ Numbered'
    BY <1>5, <1>6, <1>9, <2>1, <2>2, <2>3
  <2>5. AtOutcome'
    BY <1>9 DEF AtOutcome
  <2>6. StreamOrder'
    BY <1>9, <2>1, ReadOrder
  <2>7. QED
    BY <1>4, <2>1, <2>4, <2>5, <2>6 DEF LaneInv
<1>10. QED
  BY <1>7, <1>8, <1>9

\* The receiver's own clock and its failures leave everything else alone.
LEMMA WaitInv == LaneInv /\ (EndTimeout \/ ReadFails \/ Tick) => LaneInv'
<1>1. SUFFICES ASSUME LaneInv, EndTimeout \/ ReadFails \/ Tick PROVE LaneInv'
  OBVIOUS
<1>2. /\ Receiving
      /\ UNCHANGED <<vars, metrics>>
      /\ UNCHANGED <<lane, phase, seq, held, packetsSent, offered, wire, connected>>
      /\ UNCHANGED <<formatSent, packetsRecv, malformed, loss, rendered>>
  BY <1>1 DEF EndTimeout, ReadFails, Tick, emitter, metrics
<1>3. /\ timer \in Nat /\ idle \in Nat /\ timer' \in Nat /\ idle' \in Nat
      /\ idle = timer => idle' = timer'
      /\ rphase' \in {"sniff", "run", "failed"}
  BY <1>1 DEF EndTimeout, ReadFails, Tick, Receiving, LaneInv, LaneTypeOK
<1>4. IInv' /\ FromAnchor' /\ Accounted' /\ Emitted' = Emitted /\ UNCHANGED <<queue, pushed>>
  BY <1>1, <1>2, MetricsSame
<1>5. LaneTypeOK' /\ Sending' /\ AtOutcome'
  BY <1>1, <1>2, <1>3, <1>4 DEF LaneInv, LaneTypeOK, Sending, AtOutcome
<1>6. Numbered' /\ StreamOrder'
  BY <1>1, <1>2, <1>3, <1>4 DEF LaneInv, Numbered, StreamOrder, Datagram
<1>7. QED
  BY <1>4, <1>5, <1>6 DEF LaneInv

LEMMA LaneStutterInv == LaneInv /\ UNCHANGED laneVars => LaneInv'
<1>1. SUFFICES ASSUME LaneInv, UNCHANGED laneVars PROVE LaneInv'
  OBVIOUS
<1>2. /\ UNCHANGED <<vars, metrics>>
      /\ UNCHANGED <<lane, phase, seq, held, packetsSent, offered, wire, connected>>
      /\ UNCHANGED <<rphase, timer, idle, formatSent, packetsRecv, malformed, loss, rendered>>
  BY <1>1 DEF laneVars, emitter, receiver, metrics
<1>3. IInv' /\ FromAnchor' /\ Accounted' /\ Emitted' = Emitted /\ UNCHANGED <<queue, pushed>>
  BY <1>1, <1>2, MetricsSame
<1>4. LaneTypeOK' /\ Sending' /\ AtOutcome'
  BY <1>1, <1>2, <1>3 DEF LaneInv, LaneTypeOK, Sending, AtOutcome
<1>5. Numbered' /\ StreamOrder'
  BY <1>1, <1>2, <1>3 DEF LaneInv, Numbered, StreamOrder, Datagram
<1>6. QED
  BY <1>3, <1>4, <1>5 DEF LaneInv

LEMMA SniffReadInv ==
    ASSUME JBAssumption, Window < Cap, LaneInv, Sniff \/ Read
    PROVE  LaneInv'
<1>1. PICK i \in Readable :
        /\ wire' = RemoveAt(wire, i)
        /\ \/ wire[i].kind = "audio" /\ IngestFrame(wire[i].n)
           \/ wire[i].kind = "end" /\ FinishAfterEnd(wire[i].n)
           \/ wire[i].kind = "end" /\ rphase' = "failed" /\ UNCHANGED <<vars, metrics>>
  BY DEF Sniff, Read
<1>2. /\ UNCHANGED <<emitter, connected>> /\ rphase \in {"sniff", "run"}
      /\ timer' \in Nat /\ idle' = 0 /\ (~Datagram => idle' = timer')
  BY DEF Sniff, Read, NextTimer, LaneInv, LaneTypeOK
<1>3. QED
  BY <1>1, <1>2, ReadInv

LEMMA LaneNextInv ==
    ASSUME Window < Cap, LaneInv, [LaneNext]_laneVars
    PROVE  LaneInv'
<1>1. CASE EmitFrame \/ EmitEnd \/ EmitFails
  BY <1>1, EmitFrameInv, EmitEndInv, EmitFailsInv
<1>2. CASE Lose \/ Disconnect
  BY <1>2, LoseInv, DisconnectInv
<1>3. CASE Sniff \/ Read
  BY <1>3, SniffReadInv, JBAssumption
<1>4. CASE EndTimeout \/ ReadFails \/ Tick
  BY <1>4, WaitInv
<1>5. CASE Stopped \/ UNCHANGED laneVars
  BY <1>5, LaneStutterInv DEF Stopped
<1>6. QED
  BY <1>1, <1>2, <1>3, <1>4, <1>5 DEF LaneNext

-----------------------------------------------------------------------------
(***************************************************************************)
(* Theorems                                                                *)
(***************************************************************************)

\* The inductive invariant holds in every reachable state of a stream.
THEOREM LaneInvariance ==
    ASSUME Window < Cap
    PROVE  LaneSpec => []LaneInv
<1>1. LaneInit => LaneInv
  BY LaneInitInv
<1>2. LaneInv /\ [LaneNext]_laneVars => LaneInv'
  BY LaneNextInv
<1>3. QED
  BY <1>1, <1>2, PTL DEF LaneSpec

\* In every outcome packets_recv and loss add up to the frames supplied, each
\* rendered frame is counted once, and without a jump every frame that arrived
\* is rendered or counted as malformed: whatever was dropped, duplicated, held
\* back, lost, reordered or refused on the way.
THEOREM LossIsExplained ==
    ASSUME Window < Cap
    PROVE  LaneSpec => []LossExplained
<1>1. LaneInv => LossExplained
  <2>1. SUFFICES ASSUME LaneInv, rphase = "done"
                 PROVE  LET missing == {n \in arrived : n >= anchor} \ rendered
                        IN  /\ packetsRecv + loss = seq
                            /\ packetsRecv = Cardinality(rendered)
                            /\ ~jumped => malformed - Cardinality(missing) \in {0, 1}
    BY DEF LossExplained
  <2>2. queue = {} /\ packetsRecv + loss = seq /\ packetsRecv = Cardinality(rendered)
    BY <2>1 DEF LaneInv, AtOutcome, Accounted
  <2>3. ASSUME ~jumped
        PROVE  {n \in arrived : n >= anchor} \ rendered = Emitted \ rendered
    <3>1. {n \in arrived : n >= anchor} \subseteq Emitted
      BY <2>1, <2>2, <2>3 DEF LaneInv, IInv, NoLossWithoutJump
    <3>2. Emitted \subseteq {n \in arrived : n >= anchor}
      BY <2>1 DEF LaneInv, FromAnchor
    <3>3. QED
      BY <3>1, <3>2
  <2>4. malformed - Cardinality(Emitted \ rendered) \in {0, 1}
    BY <2>1 DEF LaneInv, Accounted
  <2>5. QED
    BY <2>2, <2>3, <2>4
<1>2. QED
  BY <1>1, LaneInvariance, PTL

\* The marker comes after every packet, and on the reliable lane the outcome
\* after every push.
THEOREM MarkerIsLast ==
    ASSUME Window < Cap
    PROVE  LaneSpec => []EndAfterEverything
<1>1. LaneInv => EndAfterEverything
  <2>1. SUFFICES ASSUME LaneInv PROVE EndAfterEverything
    OBVIOUS
  <2>2. ASSUME phase = "ended" PROVE packetsSent = offered
    <3>1. Len(held) = 0 /\ packetsSent + Len(held) = offered /\ packetsSent \in Nat
      BY <2>1, <2>2 DEF LaneInv, Sending, LaneTypeOK
    <3>2. QED
      BY <3>1
  <2>3. rphase = "done" /\ ~Datagram => pushed = offered
    BY <2>1 DEF LaneInv, StreamOrder
  <2>4. QED
    BY <2>2, <2>3 DEF EndAfterEverything
<1>2. QED
  BY <1>1, LaneInvariance, PTL

\* On the stream lane the receiver gives up a live connection only after
\* END_POLL_MS in which nothing arrived.
THEOREM NoEarlyGivingUp ==
    ASSUME Window < Cap
    PROVE  LaneSpec => NoEarlyEnd
<1>1. LaneInv /\ [LaneNext]_laneVars =>
        [rphase = "run" /\ rphase' = "failed" /\ connected /\ ~Datagram
            => idle >= EndTicks]_laneVars
  <2>1. SUFFICES ASSUME LaneInv, LaneNext,
                        rphase = "run", rphase' = "failed", connected, ~Datagram
                 PROVE  idle >= EndTicks
    OBVIOUS
  <2>2. EndTimeout
    <3>1. ~ (EmitFrame \/ EmitEnd \/ EmitFails \/ Lose \/ Disconnect \/ Tick \/ Stopped)
      BY <2>1 DEF EmitFrame, EmitEnd, EmitFails, Lose, Disconnect, Tick, Stopped,
                  receiver, laneVars
    <3>2. ~ (Sniff \/ Read \/ ReadFails)
      BY <2>1 DEF Sniff, Read, ReadFails, IngestFrame, FinishAfterEnd
    <3>3. QED
      BY <2>1, <3>1, <3>2 DEF LaneNext
  <2>3. timer = EndTicks
    BY <2>1, <2>2 DEF EndTimeout, Limit
  <2>4. idle = timer
    BY <2>1 DEF LaneInv, StreamOrder
  <2>5. QED
    BY <2>3, <2>4, LaneAssumption DEF LaneAssumption
<1>2. QED
  BY <1>1, LaneInvariance, PTL DEF LaneSpec, NoEarlyEnd
=============================================================================
