-------------------------- MODULE CaptureBufferProofs --------------------------
(***************************************************************************)
(* The capture buffer, for every capacity, every length of audio buffer and   *)
(* every interleaving of the two threads: nothing is lost unless a push        *)
(* overlapped a drain, no copy leaves the free memory, and the format the       *)
(* worker takes is the device's, or stereo.                                *)
(***************************************************************************)
EXTENDS CaptureBuffer, SequenceTheorems, TLAPS

\* The capacity is a number.
LEMMA CapacityNat == Capacity \in Nat
BY CaptureAssumption DEF CaptureAssumption

\* A prefix of the memory is a sequence of its first bytes.
LEMMA PrefixType ==
    ASSUME NEW m \in [1..Capacity -> Nat], NEW n \in 0..Capacity
    PROVE  /\ SubSeq(m, 1, n) \in Seq(Nat) /\ Len(SubSeq(m, 1, n)) = n
           /\ \A i \in 1..n : SubSeq(m, 1, n)[i] = m[i]
<1>1. \A i \in 1..n : m[i] \in Nat
  BY CapacityNat
<1>2. n \in Int /\ 1 \in Int
  OBVIOUS
<1>3. /\ SubSeq(m, 1, n) \in Seq(Nat)
      /\ Len(SubSeq(m, 1, n)) = IF 1 <= n THEN n - 1 + 1 ELSE 0
      /\ \A i \in 1..(n - 1 + 1) : SubSeq(m, 1, n)[i] = m[1 + i - 1]
  BY <1>1, <1>2, SubSeqProperties
<1>4. QED
  BY <1>3

\* Memory that agrees up to n has the same prefix of length n.
LEMMA PrefixSame ==
    ASSUME NEW m \in [1..Capacity -> Nat], NEW k \in [1..Capacity -> Nat],
           NEW n \in 0..Capacity, \A i \in 1..n : m[i] = k[i]
    PROVE  SubSeq(m, 1, n) = SubSeq(k, 1, n)
BY PrefixType, SeqEqual

\* The memory is a sequence as long as the capacity.
LEMMA MemIsSeq ==
    ASSUME NEW m \in [1..Capacity -> Nat]
    PROVE  m \in Seq(Nat) /\ Len(m) = Capacity
BY CapacityNat

\* Appending is associative.
LEMMA Associative ==
    ASSUME NEW u \in Seq(Nat), NEW v \in Seq(Nat), NEW w \in Seq(Nat)
    PROVE  (u \o v) \o w = u \o (v \o w)
BY ConcatAssociative, SMTT(30)

LEMMA BufferInitInv == Init => BufferInv
<1> SUFFICES ASSUME Init PROVE BufferInv
  OBVIOUS
<1>1. DataTypes
  <2>1. << >> \in Seq(Nat)
    OBVIOUS
  <2>2. mem \in [1..Capacity -> Nat]
    BY CapacityNat DEF Init
  <2>3. fill = 0 /\ start = 0 /\ len = 0 /\ captured = 0 /\ wlen = 0
    BY DEF Init
  <2>4. kept \in Seq(Nat) /\ sentOut \in Seq(Nat)
    BY <2>1 DEF Init
  <2>5. raced \in BOOLEAN
    BY DEF Init
  <2>6. fill \in 0..Capacity /\ start \in Nat /\ len \in Nat /\ captured \in Nat
        /\ wlen \in Nat /\ len <= captured
    BY <2>3, CapacityNat
  <2>7. QED
    BY <2>2, <2>4, <2>5, <2>6 DEF DataTypes
<1>2. SubSeq(mem, 1, 0) = << >>
  BY SubSeqEmpty
<1>3. Whole
  BY <1>2 DEF Init, Whole
<1>4. QED
  BY <1>1, <1>3 DEF Init, BufferInv, InPush, InDrain

\* A step that leaves the bytes where they are.
LEMMA StillInv ==
    ASSUME BufferInv, UNCHANGED <<mem, fill, start, kept, sentOut, raced>>,
           wlen' \in Nat, captured' \in Nat, len' \in Nat, len' <= captured',
           cpc' \in {"copy", "store"} => cpc' = cpc /\ UNCHANGED <<len, captured>>,
           wpc' \in {"send", "reset"} => wlen' = fill \/ (wpc' = wpc /\ wlen' = wlen),
           wpc' = "reset" <=> wpc = "reset",
           wpc = "stopped" => wpc' = "stopped"
    PROVE  BufferInv'
<1>1. DataTypes'
  BY DEF BufferInv, DataTypes
<1>2. InPush'
  BY DEF BufferInv, InPush, Incoming
<1>3. InDrain'
  BY DEF BufferInv, InDrain, DataTypes
<1>4. Whole'
  BY DEF BufferInv, Whole
<1>5. QED
  BY <1>1, <1>2, <1>3, <1>4 DEF BufferInv

LEMMA DeliverInv == ASSUME BufferInv, NEW n \in Lengths, Deliver(n) PROVE BufferInv'
<1>1. n \in Nat /\ captured' = captured + n /\ len' = n /\ captured \in Nat
  BY CaptureAssumption DEF CaptureAssumption, Deliver, BufferInv, DataTypes
<1>2. cpc' \notin {"copy", "store"}
  BY DEF Deliver
<1>3. wlen \in Nat
  BY DEF BufferInv, DataTypes
<1>4. UNCHANGED <<mem, fill, start, kept, sentOut, raced, wpc, wlen>>
  BY DEF Deliver, shared, worker, history
<1>5. QED
  BY <1>1, <1>2, <1>3, <1>4, StillInv

LEMMA LoadInv == BufferInv /\ PushLoad => BufferInv'
<1> SUFFICES ASSUME BufferInv, PushLoad PROVE BufferInv'
  OBVIOUS
<1>1. /\ start' = fill /\ fill + len <= Capacity /\ cpc' = "copy"
      /\ UNCHANGED <<mem, fill, len, captured, wpc, wlen, kept, sentOut, raced>>
  BY DEF PushLoad, shared, worker, history
<1>2. DataTypes'
  BY <1>1, CapacityNat DEF BufferInv, DataTypes
<1>3. InPush'
  BY <1>1, <1>2 DEF InPush, DataTypes
<1>4. QED
  BY <1>1, <1>2, <1>3 DEF BufferInv, InDrain, Whole

\* The copy writes above the fill, and leaves the incoming bytes there.
LEMMA CopyInv == BufferInv /\ PushCopy => BufferInv'
<1> SUFFICES ASSUME BufferInv, PushCopy PROVE BufferInv'
  OBVIOUS
<1>1. /\ mem' = [i \in 1..Capacity |-> IF i \in (start + 1)..(start + len)
                                      THEN Incoming[i - start] ELSE mem[i]]
      /\ cpc = "copy" /\ cpc' = "store"
      /\ UNCHANGED <<fill, start, len, captured, wpc, wlen, kept, sentOut, raced>>
  BY DEF PushCopy, worker, history
<1>2. /\ start \in Nat /\ len \in Nat /\ captured \in Nat /\ len <= captured
      /\ mem \in [1..Capacity -> Nat] /\ fill \in 0..Capacity
      /\ start + len <= Capacity /\ fill <= start
  BY <1>1 DEF BufferInv, DataTypes, InPush
<1>3. \A i \in 1..len : Incoming[i] = captured - len + i /\ Incoming[i] \in Nat
  BY <1>2 DEF Incoming
<1>4. mem' \in [1..Capacity -> Nat]
  <2>1. ASSUME NEW i \in 1..Capacity PROVE mem'[i] \in Nat
    <3>1. CASE i \in (start + 1)..(start + len)
      <4>1. i - start \in 1..len
        BY <1>2, <3>1
      <4>2. mem'[i] = Incoming[i - start]
        BY <1>1, <3>1
      <4>3. QED
        BY <1>3, <4>1, <4>2
    <3>2. CASE i \notin (start + 1)..(start + len)
      BY <1>1, <1>2, <3>2
    <3>3. QED
      BY <3>1, <3>2
  <2>2. QED
    BY <1>1, <2>1
<1>5. SubSeq(mem', 1, fill) = SubSeq(mem, 1, fill)
  <2>1. \A i \in 1..fill : mem'[i] = mem[i]
    BY <1>1, <1>2, CapacityNat
  <2>2. QED
    BY <1>2, <1>4, <2>1, PrefixSame
<1>6. SubSeq(mem', start + 1, start + len) = Incoming
  <2>1. \A i \in (start + 1)..(start + len) : mem'[i] \in Nat
    BY <1>2, <1>4, CapacityNat
  <2>2. start + 1 \in Int /\ start + len \in Int
    BY <1>2
  <2> DEFINE s == SubSeq(mem', start + 1, start + len)
             len2 == (start + len) - (start + 1) + 1
  <2>3. /\ s \in Seq(Nat)
        /\ Len(s) = IF start + 1 <= start + len THEN len2 ELSE 0
        /\ \A i \in 1..len2 : s[i] = mem'[(start + 1) + i - 1]
    BY <2>1, <2>2, SubSeqProperties
  <2> HIDE DEF s
  <2>4. len2 = len
    BY <1>2
  <2>5. Len(s) = len
    BY <1>2, <2>3, <2>4
  <2>6. \A i \in 1..len : s[i] = Incoming[i]
    <3>1. SUFFICES ASSUME NEW i \in 1..len PROVE s[i] = Incoming[i]
      OBVIOUS
    <3>2. (start + 1) + i - 1 = start + i /\ start + i \in (start + 1)..(start + len)
          /\ start + i \in 1..Capacity /\ (start + i) - start = i
      BY <1>2, <3>1, CapacityNat
    <3>3. s[i] = mem'[start + i]
      BY <2>3, <2>4, <3>2
    <3>4. mem'[start + i] = Incoming[(start + i) - start]
      BY <1>1, <3>2
    <3>5. QED
      BY <3>2, <3>3, <3>4
  <2>7. Incoming \in Seq(Nat) /\ Len(Incoming) = len
    BY <1>2, <1>3 DEF Incoming
  <2>8. s = Incoming
    BY <2>3, <2>5, <2>6, <2>7, SeqEqual
  <2>9. QED
    BY <2>8 DEF s
<1>7. Incoming' = Incoming
  BY <1>1 DEF Incoming
<1>8. DataTypes'
  BY <1>1, <1>4 DEF BufferInv, DataTypes
<1>9. InPush'
  BY <1>1, <1>2, <1>6, <1>7 DEF BufferInv, InPush
<1>10. Whole'
  BY <1>1, <1>5 DEF BufferInv, Whole
<1>11. QED
  BY <1>1, <1>8, <1>9, <1>10 DEF BufferInv, InDrain

\* What is published is the old prefix followed by the incoming bytes.
LEMMA StoreInv == BufferInv /\ PushStore => BufferInv'
<1> SUFFICES ASSUME BufferInv, PushStore PROVE BufferInv'
  OBVIOUS
<1>1. /\ fill' = start + len /\ kept' = kept \o Incoming /\ cpc = "store" /\ cpc' = "idle"
      /\ raced' = (raced \/ wpc \in {"send", "reset"})
      /\ UNCHANGED <<mem, start, len, captured, wpc, wlen, sentOut>>
  BY DEF PushStore, worker
<1>2. /\ start \in Nat /\ len \in Nat /\ captured \in Nat /\ len <= captured
      /\ mem \in [1..Capacity -> Nat] /\ fill \in 0..Capacity /\ raced \in BOOLEAN
      /\ kept \in Seq(Nat) /\ sentOut \in Seq(Nat)
      /\ start + len <= Capacity /\ fill <= start
      /\ SubSeq(mem, start + 1, start + len) = Incoming
  BY <1>1 DEF BufferInv, DataTypes, InPush
<1>3. Incoming \in Seq(Nat)
  BY <1>2 DEF Incoming
<1>4. DataTypes'
  <2>1. kept' \in Seq(Nat)
    BY <1>1, <1>2, <1>3, ConcatProperties
  <2>2. fill' \in 0..Capacity
    BY <1>1, <1>2, CapacityNat
  <2>3. QED
    BY <1>1, <1>2, <2>1, <2>2 DEF BufferInv, DataTypes
<1>5. InDrain'
  <2>1. SUFFICES ASSUME wpc' \in {"send", "reset"} PROVE wlen' <= fill' /\ raced'
    BY <1>1, <1>2 DEF InDrain
  <2>2. wlen <= fill /\ wlen \in Nat /\ wlen' = wlen
    BY <1>1, <2>1 DEF BufferInv, InDrain, DataTypes
  <2>3. fill' >= fill /\ fill' \in Int
    BY <1>1, <1>2
  <2>4. raced'
    BY <1>1, <2>1
  <2>5. QED
    BY <1>2, <2>2, <2>3, <2>4
<1>6. SubSeq(mem, 1, start + len) = SubSeq(mem, 1, start) \o Incoming
  <2>1. mem \in Seq(Nat) /\ Len(mem) = Capacity
    BY <1>2, MemIsSeq
  <2>2. 1 \in 1..(Len(mem) + 1) /\ start \in (1 - 1)..Len(mem)
        /\ start + len \in start..Len(mem)
    BY <1>2, <2>1, CapacityNat
  <2>3. SubSeq(mem, 1, start) \o SubSeq(mem, start + 1, start + len)
           = SubSeq(mem, 1, start + len)
    BY <2>1, <2>2, ConcatAdjacentSubSeq
  <2>4. QED
    BY <1>2, <2>3
<1>7. Whole'
  <2>1. SUFFICES ASSUME ~raced', wpc' # "stopped"
                 PROVE  /\ wpc' # "reset"
                        /\ sentOut' \o SubSeq(mem', 1, fill') = kept'
    BY DEF Whole
  <2>2. ~raced /\ wpc \notin {"send", "reset", "stopped"}
    BY <1>1, <2>1
  <2>3. fill = start /\ sentOut \o SubSeq(mem, 1, start) = kept
    BY <1>1, <2>2 DEF BufferInv, InPush, Whole
  <2>4. SubSeq(mem, 1, start) \in Seq(Nat)
    BY <1>2, <2>3, PrefixType
  <2>5. QED
    <3>1. kept' = sentOut \o SubSeq(mem, 1, start + len)
      <4>1. kept' = (sentOut \o SubSeq(mem, 1, start)) \o Incoming
        BY <1>1, <2>3
      <4>2. (sentOut \o SubSeq(mem, 1, start)) \o Incoming
               = sentOut \o (SubSeq(mem, 1, start) \o Incoming)
        <5>1. sentOut \in Seq(Nat)
          BY <1>2
        <5>2. QED
          BY <1>3, <2>4, <5>1, Associative, Zenon
      <4>3. QED
        BY <1>6, <4>1, <4>2, Zenon
    <3>2. QED
      BY <1>1, <2>2, <3>1
<1>8. QED
  BY <1>1, <1>4, <1>5, <1>7 DEF BufferInv, InPush

\* The block that is sent is the prefix that was borrowed.
LEMMA OnBlockInv == BufferInv /\ OnBlock => BufferInv'
<1> SUFFICES ASSUME BufferInv, OnBlock PROVE BufferInv'
  OBVIOUS
<1>1. /\ sentOut' = sentOut \o SubSeq(mem, 1, wlen) /\ wpc = "send" /\ wpc' = "reset"
      /\ UNCHANGED <<mem, fill, cpc, start, len, captured, wlen, kept, raced>>
  BY DEF OnBlock, shared, callback
<1>2. /\ mem \in [1..Capacity -> Nat] /\ wlen \in 0..Capacity /\ sentOut \in Seq(Nat)
      /\ wlen <= fill /\ (~raced => wlen = fill)
  BY <1>1, CapacityNat DEF BufferInv, DataTypes, InDrain
<1>3. sentOut' \in Seq(Nat)
  BY <1>1, <1>2, PrefixType, ConcatProperties
<1>4. Whole'
  BY <1>1, <1>2 DEF BufferInv, Whole
<1>5. QED
  BY <1>1, <1>2, <1>3, <1>4 DEF BufferInv, DataTypes, InPush, InDrain, Incoming

LEMMA ResetInv == BufferInv /\ ResetFill => BufferInv'
<1> SUFFICES ASSUME BufferInv, ResetFill PROVE BufferInv'
  OBVIOUS
<1>1. /\ fill' = 0 /\ wpc = "reset" /\ wpc' = "clear"
      /\ raced' = (raced \/ cpc \in {"copy", "store"})
      /\ UNCHANGED <<mem, cpc, start, len, captured, wlen, kept, sentOut>>
  BY DEF ResetFill, callback
<1>2. SubSeq(mem', 1, 0) = << >>
  BY SubSeqEmpty
<1>3. DataTypes'
  BY <1>1, CapacityNat DEF BufferInv, DataTypes
<1>4. InPush'
  <2>1. start \in Nat /\ raced \in BOOLEAN
    BY DEF BufferInv, DataTypes
  <2>2. Incoming' = Incoming
    BY <1>1 DEF Incoming
  <2>3. cpc \in {"copy", "store"} => raced'
    BY <1>1
  <2>4. cpc \in {"copy", "store"} => start + len <= Capacity /\ 0 <= start
    BY <2>1 DEF BufferInv, InPush
  <2>5. QED
    BY <1>1, <2>2, <2>3, <2>4 DEF BufferInv, InPush
<1>5. sentOut \o << >> = sentOut
  BY ConcatEmptySeq DEF BufferInv, DataTypes
<1>6. Whole'
  BY <1>1, <1>2, <1>5 DEF BufferInv, Whole
<1>7. QED
  BY <1>1, <1>3, <1>4, <1>6 DEF BufferInv, InDrain

LEMMA StopInv == BufferInv /\ Stop => BufferInv'
<1> SUFFICES ASSUME BufferInv, Stop PROVE BufferInv'
  OBVIOUS
<1>1. /\ fill' = 0 /\ wpc' = "stopped"
      /\ UNCHANGED <<mem, cpc, start, len, captured, wlen, kept, sentOut, raced>>
  BY DEF Stop, callback, history
<1>2. DataTypes'
  BY <1>1, CapacityNat DEF BufferInv, DataTypes
<1>3. InPush'
  BY <1>1 DEF BufferInv, InPush, Incoming, DataTypes
<1>4. QED
  BY <1>1, <1>2, <1>3 DEF BufferInv, InDrain, Whole

LEMMA BufferNextInv == BufferInv /\ [Next]_vars => BufferInv'
<1> SUFFICES ASSUME BufferInv, [Next]_vars PROVE BufferInv'
  OBVIOUS
<1>1. wlen \in Nat /\ fill \in Nat /\ captured \in Nat /\ len \in Nat /\ len <= captured
  BY CapacityNat DEF BufferInv, DataTypes
<1>2. CASE NoteRate \/ NoteChannels \/ PushRefused
  BY <1>1, <1>2, StillInv DEF NoteRate, NoteChannels, PushRefused, shared, worker, history
<1>3. CASE WaitRate \/ WaitChannels \/ WaitTimeout \/ Buffered
  BY <1>1, <1>3, StillInv
    DEF WaitRate, WaitChannels, WaitTimeout, Buffered, shared, callback, history
<1>4. CASE ResetFlag \/ CheckOverflow \/ OnBlockFails
  BY <1>1, <1>4, StillInv DEF ResetFlag, CheckOverflow, OnBlockFails, shared, callback, history
<1>5. CASE UNCHANGED vars
  BY <1>1, <1>5, StillInv DEF vars, shared, callback, worker, history
<1>6. QED
  BY <1>2, <1>3, <1>4, <1>5, DeliverInv, LoadInv, CopyInv, StoreInv, OnBlockInv, ResetInv,
     StopInv DEF Next, Callback, Worker, Push, Drain

\* The inductive invariant of the buffer: where a push and a drain in progress
\* of push_rt and real_stream stand.
THEOREM BufferInvariance == Spec => []BufferInv
<1>1. Init => BufferInv
  BY BufferInitInv
<1>2. BufferInv /\ [Next]_vars => BufferInv'
  BY BufferNextInv
<1>3. QED
  BY <1>1, <1>2, PTL DEF Spec

\* Nothing that was kept is lost unless a push overlapped a drain, and a copy in
\* progress stays in the free part of the allocation, overlapped or not.
THEOREM NothingLost == Spec => []NothingLostUnlessRaced
<1>1. BufferInv => NothingLostUnlessRaced
  BY DEF BufferInv, DataTypes, InPush, InDrain, Whole, NothingLostUnlessRaced
<1>2. QED
  BY <1>1, BufferInvariance, PTL

-----------------------------------------------------------------------------
LEMMA FormatNextInv == FormatInv /\ [Next]_vars => FormatInv'
<1> SUFFICES ASSUME FormatInv, [Next]_vars PROVE FormatInv'
  OBVIOUS
<1> USE DEF FormatInv, FormatTornOnlyToStereo
<1>1. ASSUME NEW n \in Lengths, Deliver(n) PROVE FormatInv'
  BY <1>1 DEF Deliver, worker
<1>2. CASE NoteRate
  BY <1>2 DEF NoteRate, worker
<1>3. CASE NoteChannels
  BY <1>3 DEF NoteChannels, worker
<1>4. CASE Push
  BY <1>4 DEF Push, PushRefused, PushLoad, PushCopy, PushStore, worker
<1>5. CASE WaitRate
  BY <1>5 DEF WaitRate
<1>6. CASE WaitChannels
  BY <1>6 DEF WaitChannels, delivered_channels
<1>7. CASE WaitTimeout
  BY <1>7 DEF WaitTimeout
<1>8. CASE Drain
  BY <1>8 DEF Drain, Buffered, OnBlock, ResetFill, ResetFlag, CheckOverflow
<1>9. CASE Stop \/ OnBlockFails
  BY <1>9 DEF Stop, OnBlockFails
<1>10. CASE UNCHANGED vars
  BY <1>10 DEF vars, worker
<1>11. QED
  BY <1>1, <1>2, <1>3, <1>4, <1>5, <1>6, <1>7, <1>8, <1>9, <1>10 DEF Next, Callback, Worker

\* Whichever of the callback's two stores the worker's two loads fall between,
\* it takes the device's rate, and the device's channels or two.
THEOREM FormatTorn == Spec => []FormatTornOnlyToStereo
<1>1. Init => FormatInv
  BY DEF Init, FormatInv, FormatTornOnlyToStereo, Unknown
<1>2. FormatInv /\ [Next]_vars => FormatInv'
  BY FormatNextInv
<1>3. FormatInv => FormatTornOnlyToStereo
  BY DEF FormatInv
<1>4. QED
  BY <1>1, <1>2, <1>3, PTL DEF Spec
=============================================================================
