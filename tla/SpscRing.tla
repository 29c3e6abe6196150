------------------------------ MODULE SpscRing ------------------------------
(***************************************************************************)
(* The single-producer / single-consumer byte ring of                      *)
(* crates/wdr_rt/src/spsc.rs: the only structure a real-time audio callback *)
(* shares with its worker.  Each side is a thread of its own; a call is     *)
(* split at every access the other side can observe: the Acquire load of    *)
(* the other cursor, each byte copied, and the Release store of its own     *)
(* cursor.  The n-th byte ever pushed carries the value n, so that a stale, *)
(* torn or repeated byte is visible.                                        *)
(*                                                                         *)
(* Release/Acquire on the cursors orders the relaxed byte accesses of one   *)
(* side before those of the other, so interleaving the accesses one by one  *)
(* covers what the build can do.                                           *)
(***************************************************************************)
EXTENDS Integers

CONSTANTS
    Cap,        \* ring capacity in bytes (a power of two)
    Modulus,    \* number of values of a cursor: 2^64 in the code
    Lengths,    \* frame lengths the callers use
    MaxBytes    \* bound on the number of bytes pushed

\* with_capacity asserts a non-zero power of two; the cursor range is a larger
\* power of two, hence a multiple of the capacity.
ASSUME RingAssumption ==
    /\ Cap \in Nat \ {0}
    /\ Modulus \in Nat
    /\ Cap < Modulus
    /\ \E k \in 1..Modulus : Modulus = Cap * k
    /\ Lengths \subseteq Nat
    /\ MaxBytes \in Nat

VARIABLES
    buf,        \* the bytes
    writePos,   \* write_pos, published by the producer
    readPos,    \* read_pos, published by the consumer
    ppc,        \* producer: "idle" | "copy"
    plen,       \* producer: length of the frame being pushed
    pi,         \* producer: bytes of it copied so far
    cpc,        \* consumer: "idle" | "copy"
    clen,       \* consumer: length of the frame being popped
    ci,         \* consumer: bytes of it copied so far
    dst,        \* consumer: the out buffer of the pop in progress
    frame,      \* history: what the latest successful pop returned
    sent,       \* history: bytes pushed
    taken       \* history: bytes popped

producer == <<ppc, plen, pi>>
consumer == <<cpc, clen, ci, dst>>
vars == <<buf, writePos, readPos, producer, consumer, frame, sent, taken>>

\* The content of a byte never written.
Blank == -1

Init ==
    /\ buf = [s \in 0..(Cap - 1) |-> Blank]
    /\ writePos = 0 /\ readPos = 0
    /\ ppc = "idle" /\ plen = 0 /\ pi = 0
    /\ cpc = "idle" /\ clen = 0 /\ ci = 0 /\ dst = <<>>
    /\ frame = <<>> /\ sent = 0 /\ taken = 0

\* Cursor arithmetic: wrapping_sub, wrapping_add.
WrappingSub(a, b) == (a - b) % Modulus

WrappingAdd(a, b) == (a + b) % Modulus

free_space == Cap - WrappingSub(writePos, readPos)

available_len == WrappingSub(writePos, readPos)

\* The slot of byte i of a frame of length len that starts at a cursor: the
\* head up to the end of the buffer, the tail from slot 0.
Slot(cursor, len, i) ==
    LET start == cursor % Cap
        head  == IF len <= Cap - start THEN len ELSE Cap - start
    IN  IF i < head THEN start + i ELSE i - head

-----------------------------------------------------------------------------
(***************************************************************************)
(* try_push, called by the producer thread only                            *)
(***************************************************************************)

\* The frame is longer than the ring, or does not fit now: return false.
PushRefused(len) ==
    /\ ppc = "idle"
    /\ len > Cap \/ len > free_space
    /\ UNCHANGED vars

\* The frame fits the free space the two loads show.
PushBegin(len) ==
    /\ ppc = "idle"
    /\ len <= Cap
    /\ len <= free_space
    /\ ppc' = "copy" /\ plen' = len /\ pi' = 0
    /\ UNCHANGED <<buf, writePos, readPos, consumer, frame, sent, taken>>

\* copy_in: one relaxed byte store.
PushByte ==
    /\ ppc = "copy"
    /\ pi < plen
    /\ buf' = [buf EXCEPT ![Slot(writePos, plen, pi)] = sent + pi]
    /\ pi' = pi + 1
    /\ UNCHANGED <<writePos, readPos, ppc, plen, consumer, frame, sent, taken>>

\* The Release store of write_pos: the whole frame becomes visible.
PushPublish ==
    /\ ppc = "copy"
    /\ pi = plen
    /\ writePos' = WrappingAdd(writePos, plen)
    /\ sent' = sent + plen
    /\ ppc' = "idle"
    /\ UNCHANGED <<buf, readPos, plen, pi, consumer, frame, taken>>

-----------------------------------------------------------------------------
(***************************************************************************)
(* try_pop_exact, called by the consumer thread only                       *)
(***************************************************************************)

\* Not that many bytes are available: return false.
PopRefused(len) ==
    /\ cpc = "idle"
    /\ len > available_len
    /\ UNCHANGED vars

\* MUTANT: the last byte is never given out.
PopBegin_Strict(len) ==
    /\ cpc = "idle"
    /\ len < available_len
    /\ cpc' = "copy" /\ clen' = len /\ ci' = 0 /\ dst' = <<>>
    /\ UNCHANGED <<buf, writePos, readPos, producer, frame, sent, taken>>

PopBegin(len) ==
    /\ cpc = "idle"
    /\ len <= available_len
    /\ cpc' = "copy" /\ clen' = len /\ ci' = 0 /\ dst' = <<>>
    /\ UNCHANGED <<buf, writePos, readPos, producer, frame, sent, taken>>

\* copy_out: one relaxed byte load.
PopByte ==
    /\ cpc = "copy"
    /\ ci < clen
    /\ dst' = [i \in 1..(ci + 1) |-> IF i <= ci THEN dst[i] ELSE buf[Slot(readPos, clen, ci)]]
    /\ ci' = ci + 1
    /\ UNCHANGED <<buf, writePos, readPos, producer, cpc, clen, frame, sent, taken>>

\* MUTANT: the space is handed back before all bytes are copied out.
PopPublish_Early ==
    /\ cpc = "copy"
    /\ ci <= clen
    /\ readPos' = WrappingAdd(readPos, clen)
    /\ taken' = taken + clen
    /\ frame' = dst
    /\ cpc' = "idle"
    /\ UNCHANGED <<buf, writePos, producer, clen, ci, dst, sent>>

\* The Release store of read_pos: the space may be reused.
PopPublish ==
    /\ cpc = "copy"
    /\ ci = clen
    /\ readPos' = WrappingAdd(readPos, clen)
    /\ taken' = taken + clen
    /\ frame' = dst
    /\ cpc' = "idle"
    /\ UNCHANGED <<buf, writePos, producer, clen, ci, dst, sent>>

-----------------------------------------------------------------------------
Producer ==
    \/ \E len \in Lengths : PushRefused(len)
    \/ \E len \in Lengths : sent + len <= MaxBytes /\ PushBegin(len)
    \/ PushByte
    \/ PushPublish

Consumer ==
    \/ \E len \in Lengths : PopRefused(len)
    \/ \E len \in Lengths : PopBegin(len)
    \/ PopByte
    \/ PopPublish

Next == Producer \/ Consumer

Spec == Init /\ [][Next]_vars

(***************************************************************************)
(* Fairness: a call that started runs to its end (neither side ever blocks),*)
(* and the consumer keeps calling try_pop_exact, as a callback that fires   *)
(* every period or a draining worker does.  Nothing is assumed of the       *)
(* producer beyond finishing the push it began.                            *)
(***************************************************************************)
FairSpec ==
    /\ Spec
    /\ WF_vars(PushByte \/ PushPublish)
    /\ WF_vars(PopByte \/ PopPublish \/ \E len \in Lengths : PopBegin(len))

-----------------------------------------------------------------------------
(***************************************************************************)
(* Properties                                                              *)
(***************************************************************************)

TypeOK ==
    /\ buf \in [0..(Cap - 1) -> Nat \cup {Blank}]
    /\ writePos \in 0..(Modulus - 1) /\ readPos \in 0..(Modulus - 1)
    /\ ppc \in {"idle", "copy"} /\ cpc \in {"idle", "copy"}
    /\ plen \in Nat /\ pi \in Nat /\ clen \in Nat /\ ci \in Nat
    /\ sent \in Nat /\ taken \in Nat

\* The cursors differ by at most Cap even while they wrap around the word, so
\* `cap - w.wrapping_sub(r)` in free_space and try_push cannot underflow.
NoUnderflow == WrappingSub(writePos, readPos) <= Cap

\* Every published byte that is not yet popped is intact in its slot, whatever
\* part of a further frame the producer has copied: a push never overwrites
\* unread data.
Intact == \A n \in taken..(sent - 1) : buf[n % Cap] = n

\* "When `true`, `out` is fully filled" with "one whole, untorn frame": the
\* bytes a pop has copied so far are the next ones in push order.
Untorn == \A i \in 1..ci : cpc = "copy" => dst[i] = taken + i - 1

-----------------------------------------------------------------------------
(***************************************************************************)
(* The inductive strengthening.                                            *)
(***************************************************************************)

\* The cursors are the byte counts modulo the word, and never further apart
\* than the capacity.
Cursors ==
    /\ writePos = sent % Modulus
    /\ readPos = taken % Modulus
    /\ taken <= sent
    /\ sent <= taken + Cap

\* The push in progress fits the space that was free when it began, and has
\* put its first pi bytes in their slots.
PushInProgress ==
    ppc = "copy" =>
        /\ plen \in Lengths
        /\ pi <= plen
        /\ sent + plen <= taken + Cap
        /\ \A n \in sent..(sent + pi - 1) : buf[n % Cap] = n

\* The pop in progress asked for no more than what was published.
PopInProgress ==
    cpc = "copy" =>
        /\ clen \in Lengths
        /\ ci <= clen
        /\ taken + clen <= sent
        /\ dst = [i \in 1..ci |-> taken + i - 1]

IInv == TypeOK /\ Cursors /\ Intact /\ PushInProgress /\ PopInProgress

\* The ring implements the bounded byte queue its doc promises.
Fifo == INSTANCE ByteFifo WITH Capacity <- Cap
ImplementsFifo == Fifo!Spec

\* Every byte pushed is eventually handed to the consumer.
Delivered == \A n \in 1..MaxBytes : (sent >= n) ~> (taken >= n)
=============================================================================
