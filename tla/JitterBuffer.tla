----------------------------- MODULE JitterBuffer -----------------------------
(***************************************************************************)
(* The receiver's bounded in-order jitter buffer (struct JitterBuffer of    *)
(* crates/wdr_refsim/src/receiver.rs).  A frame is its sequence number: the *)
(* buffer never looks at anything else.  The two methods that return frames *)
(* (push and drain_all) return them in ascending order, so a returned       *)
(* vector is the set of its sequence numbers.                               *)
(***************************************************************************)
EXTENDS Integers, FiniteSets, FiniteSetsExt

CONSTANTS
    Seqs,       \* the sequence numbers frames may carry (u64 in the code)
    Window,     \* reorder_window of the buffer profile
    Cap,        \* queue capacity of the buffer profile
    MaxPush     \* bound on the number of arrivals explored

ASSUME JBAssumption ==
    /\ Seqs \subseteq Nat
    /\ Window \in Nat
    /\ Cap \in Nat \ {0}
    /\ MaxPush \in Nat

\* Option::None for next_out and high_seen.
NoSeq == -1

VARIABLES
    queue,      \* keys of the BTreeMap of held frames
    nextOut,    \* next_out: the next-expected watermark, or NoSeq
    highSeen,   \* high_seen: the highest sequence number seen, or NoSeq
    duplicate,  \* counter of frames dropped as duplicates
    late,       \* counter of frames dropped as late
    reorder,    \* counter of out-of-order observations
    ended,      \* the caller has drained the buffer at end of stream
    out,        \* what the latest push or drain_all returned
    delivered,  \* history: everything returned before that
    arrived,    \* history: every sequence number pushed so far
    pushed,     \* history: how many frames were pushed
    anchor,     \* history: the first sequence number pushed, or NoSeq
    jumped      \* history: some arrival was more than Window ahead

counters == <<duplicate, late>>
history  == <<delivered, arrived, pushed, anchor, jumped>>
vars     == <<queue, nextOut, highSeen, duplicate, late, reorder, ended, out, history>>

Init ==
    /\ queue = {}
    /\ nextOut = NoSeq
    /\ highSeen = NoSeq
    /\ duplicate = 0
    /\ late = 0
    /\ reorder = 0
    /\ ended = FALSE
    /\ out = {}
    /\ delivered = {}
    /\ arrived = {}
    /\ pushed = 0
    /\ anchor = NoSeq
    /\ jumped = FALSE

-----------------------------------------------------------------------------
(***************************************************************************)
(* emit_contiguous: starting at watermark n, pop every consecutive key of q.*)
(***************************************************************************)

\* The watermark the loop stops at: the first number from n on not in q.
Stop(q, n) ==
    CHOOSE m \in n .. (n + Cardinality(q)) :
        m \notin q /\ n .. (m - 1) \subseteq q

emit_contiguous(q, n) ==
    /\ out'     = n .. (Stop(q, n) - 1)
    /\ queue'   = q \ (n .. (Stop(q, n) - 1))
    /\ nextOut' = Stop(q, n)

-----------------------------------------------------------------------------
(***************************************************************************)
(* push                                                                    *)
(***************************************************************************)

\* Out-of-order observation, before any decision about the frame.
Observe(seq) ==
    /\ reorder'  = IF seq < highSeen THEN reorder + 1 ELSE reorder
    /\ highSeen' = IF seq > highSeen THEN seq ELSE highSeen

\* The first frame anchors the watermark.
PushFirst(seq) ==
    /\ nextOut = NoSeq
    /\ emit_contiguous(queue \cup {seq}, seq)
    /\ UNCHANGED counters

\* MUTANT: the frame at the watermark is taken for one behind it.
PushBehind_Inclusive(seq) ==
    /\ nextOut # NoSeq
    /\ seq <= nextOut
    /\ IF nextOut - seq > Window
         THEN late' = late + 1 /\ UNCHANGED duplicate
         ELSE duplicate' = duplicate + 1 /\ UNCHANGED late
    /\ out' = {}
    /\ UNCHANGED <<queue, nextOut>>

\* A frame behind the watermark is dropped: late beyond the window, otherwise
\* a duplicate (or a straggler counted as one).
PushBehind(seq) ==
    /\ nextOut # NoSeq
    /\ seq < nextOut
    /\ IF nextOut - seq > Window
         THEN late' = late + 1 /\ UNCHANGED duplicate
         ELSE duplicate' = duplicate + 1 /\ UNCHANGED late
    /\ out' = {}
    /\ UNCHANGED <<queue, nextOut>>

\* A frame more than Window ahead jumps the watermark to itself.
Jumps(seq) == seq - nextOut > Window

\* MUTANT: the jump forgets to drop the abandoned run.
Kept_NoCleanup(seq) == queue

\* Queue and watermark once the abandoned run, if any, is dropped.
Kept(seq) == IF Jumps(seq) THEN {k \in queue : k >= seq} ELSE queue
Base(seq) == IF Jumps(seq) THEN seq ELSE nextOut

\* Already held.
PushHeld(seq) ==
    /\ nextOut # NoSeq
    /\ seq >= nextOut
    /\ seq \in Kept(seq)
    /\ queue' = Kept(seq)
    /\ nextOut' = Base(seq)
    /\ late' = late + Cardinality(queue \ Kept(seq))
    /\ duplicate' = duplicate + 1
    /\ out' = {}

\* declare_emitted(oldest) on a full queue: it acts only when the oldest held
\* frame is not behind the watermark, and then drops the run up to it.
Evicts(q, n) == Cardinality(q) >= Cap /\ Min(q) >= n
AfterEvict(q, n) == IF Evicts(q, n) THEN q \ (n .. Min(q)) ELSE q
EvictedBase(q, n) == IF Evicts(q, n) THEN Min(q) + 1 ELSE n

\* MUTANT: the frames a jump or an eviction drops are not counted.
PushNew_Uncounted(seq) ==
    /\ nextOut # NoSeq
    /\ seq >= nextOut
    /\ seq \notin Kept(seq)
    /\ LET room == AfterEvict(Kept(seq), Base(seq))
       IN  emit_contiguous(room \cup {seq}, EvictedBase(Kept(seq), Base(seq)))
    /\ UNCHANGED <<duplicate, late>>

PushNew(seq) ==
    /\ nextOut # NoSeq
    /\ seq >= nextOut
    /\ seq \notin Kept(seq)
    /\ LET room == AfterEvict(Kept(seq), Base(seq))
       IN  /\ late' = late + Cardinality(queue \ room)
           /\ emit_contiguous(room \cup {seq}, EvictedBase(Kept(seq), Base(seq)))
    /\ UNCHANGED duplicate

\* The whole method, on the buffer's own state.
push(seq) ==
    /\ Observe(seq)
    /\ \/ PushFirst(seq)
       \/ PushBehind(seq)
       \/ PushHeld(seq)
       \/ PushNew(seq)

\* What the history variables record of a push.
Record(seq) ==
    /\ delivered' = delivered \cup out
    /\ arrived' = arrived \cup {seq}
    /\ pushed' = pushed + 1
    /\ anchor' = IF anchor = NoSeq THEN seq ELSE anchor
    /\ jumped' = (jumped \/ (nextOut # NoSeq /\ Jumps(seq)))

Push(seq) ==
    /\ ~ended
    /\ push(seq)
    /\ Record(seq)
    /\ UNCHANGED ended

-----------------------------------------------------------------------------
(***************************************************************************)
(* drain_all: the end-of-stream flush.  The receiver calls it when it takes *)
(* the end marker and pushes nothing afterwards.                           *)
(***************************************************************************)
drain_all ==
    /\ out' = queue
    /\ queue' = {}
    /\ UNCHANGED <<nextOut, highSeen, duplicate, late, reorder>>

DrainAll ==
    /\ ~ended
    /\ drain_all
    /\ ended' = TRUE
    /\ delivered' = delivered \cup out
    /\ UNCHANGED <<arrived, pushed, anchor, jumped>>

Next ==
    \/ \E seq \in Seqs : pushed < MaxPush /\ Push(seq)
    \/ DrainAll

Spec == Init /\ [][Next]_vars

-----------------------------------------------------------------------------
(***************************************************************************)
(* Properties                                                              *)
(***************************************************************************)

\* Everything the buffer has handed to the decoder.
Emitted == delivered \cup out

\* Type invariant of the buffer's fields and of the history variables.
TypeOK ==
    /\ queue \in SUBSET Nat /\ IsFiniteSet(queue)
    /\ nextOut \in Nat \cup {NoSeq}
    /\ highSeen \in Nat \cup {NoSeq}
    /\ duplicate \in Nat /\ late \in Nat /\ reorder \in Nat
    /\ ended \in BOOLEAN
    /\ out \in SUBSET Nat /\ IsFiniteSet(out)
    /\ delivered \in SUBSET Nat /\ IsFiniteSet(delivered)
    /\ arrived \in SUBSET Nat
    /\ pushed \in Nat
    /\ anchor \in Nat \cup {NoSeq}
    /\ jumped \in BOOLEAN

\* Between two calls every held frame is strictly ahead of the watermark and
\* at most Window ahead of it: push never leaves a frame it can no longer emit.
HeldInWindow ==
    nextOut # NoSeq => \A k \in queue : nextOut < k /\ k <= nextOut + Window

\* "the queue is hard-capped at `cap`": the map never holds more than Cap frames.
HardCap == Cardinality(queue) <= Cap

\* Frames leave in ascending order and each at most once, over the whole life
\* of the buffer: across pushes, watermark jumps and the final drain_all.
InOrder == \A a \in delivered, b \in out : a < b

\* No frame disappears uncounted: each of the frames pushed was returned, is
\* held, or was counted exactly once as duplicate or late.
Conservation ==
    pushed = Cardinality(delivered) + Cardinality(out) + Cardinality(queue)
               + duplicate + late

\* As long as no arrival was more than Window ahead of the watermark, every
\* frame at or above the anchor that ever arrived was returned or is held:
\* reordering inside the window costs nothing.
NoLossWithoutJump ==
    ~jumped => \A s \in arrived : s >= anchor => s \in Emitted \cup queue

-----------------------------------------------------------------------------
(***************************************************************************)
(* The inductive strengthening behind the properties above, for a window   *)
(* smaller than the capacity.                                              *)
(***************************************************************************)

\* Before the first frame nothing is held.
Unanchored == nextOut = NoSeq => queue = {} /\ arrived = {} /\ anchor = NoSeq

\* Until the drain, everything returned is behind the watermark.
BehindWatermark == ~ended => \A a \in Emitted : a < nextOut

\* Without a jump the returned frames cover anchor .. nextOut - 1, and what
\* arrived at or above the watermark is held.
GapFree ==
    (~jumped /\ ~ended /\ nextOut # NoSeq) =>
        /\ anchor \in Nat
        /\ anchor .. (nextOut - 1) \subseteq Emitted
        /\ \A s \in arrived : s < nextOut \/ s \in queue

IInv ==
    /\ TypeOK
    /\ Unanchored
    /\ HeldInWindow
    /\ BehindWatermark
    /\ InOrder
    /\ GapFree
    /\ NoLossWithoutJump
    /\ Conservation
=============================================================================
