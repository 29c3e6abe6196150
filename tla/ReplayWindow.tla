---------------------------- MODULE ReplayWindow ----------------------------
(***************************************************************************)
(* The sliding replay window of crates/wdr_crypto/src/replay.rs: a bitmap   *)
(* of Words machine words of Bits bits (4 x u64 in the code) over the most  *)
(* recent packet indices, bit 0 standing for the newest.  A word is the set *)
(* of its set bits.  Every call holds the mutex from its first line to its  *)
(* return, so a call is one step and any number of threads may make it.     *)
(***************************************************************************)
EXTENDS Integers

CONSTANTS
    Words,      \* words of the bitmap: 4
    Bits,       \* bits of a word: 64
    MaxIndex    \* bound on the packet indices

ASSUME ReplayAssumption ==
    Words \in Nat \ {0} /\ Bits \in Nat \ {0} /\ MaxIndex \in Nat

VARIABLES
    newest,     \* newest accepted index, or NoIndex
    bitset,     \* the words, each the set of its bits that are 1
    asked,      \* its index
    decision,   \* its answer
    accepted    \* history: indices answered with Accept

window == <<newest, bitset>>
vars == <<window, asked, decision, accepted>>

NoIndex == -1
Size == Words * Bits
Indices == 0..MaxIndex
WordIds == 0..(Words - 1)
BitIds == 0..(Bits - 1)

Init ==
    /\ newest = NoIndex
    /\ bitset = [w \in WordIds |-> {}]
    /\ asked = NoIndex /\ decision = "None"
    /\ accepted = {}

\* split_shifted: value << shift within a word, and the part that spills over.
Shifted(word, shift) == {b \in BitIds : b >= shift /\ b - shift \in word}

Carry(word, shift) == {b \in BitIds : b < shift /\ b + Bits - shift \in word}

\* The window moved forward by a distance: word src goes to src + the whole
\* words of the distance, and its carry to the word above; bit 0 is the new
\* index.  A distance of a window or more leaves nothing.
Slide(distance) ==
    LET word_shift == distance \div Bits
        bit_shift  == distance % Bits
        Kept(w) == IF w - word_shift \in WordIds
                   THEN Shifted(bitset[w - word_shift], bit_shift) ELSE {}
        Spilt(w) == IF bit_shift # 0 /\ w - 1 - word_shift \in WordIds
                    THEN Carry(bitset[w - 1 - word_shift], bit_shift) ELSE {}
        moved(w) == IF distance < Size THEN Kept(w) \cup Spilt(w) ELSE {}
    IN  [w \in WordIds |-> IF w = 0 THEN moved(w) \cup {0} ELSE moved(w)]

\* The bit of an index that lies pos behind the newest.
Seen(pos) == pos % Bits \in bitset[pos \div Bits]

-----------------------------------------------------------------------------
Accept(index) == decision' = "Accept" /\ accepted' = accepted \cup {index}
Reject == decision' = "Reject" /\ UNCHANGED <<window, accepted>>

\* The first index of the key scope: only the word 0 is assigned.
CheckFirst(index) ==
    /\ newest = NoIndex
    /\ newest' = index
    /\ bitset' = [bitset EXCEPT ![0] = {0}]
    /\ Accept(index)

CheckNewer(index) ==
    /\ newest # NoIndex
    /\ index > newest
    /\ bitset' = Slide(index - newest)
    /\ newest' = index
    /\ Accept(index)

\* MUTANT: the oldest index of the window is taken for too old.
CheckTooOld_OffByOne(index) ==
    /\ newest # NoIndex
    /\ index <= newest
    /\ newest - index >= Size - 1
    /\ Reject

CheckTooOld(index) ==
    /\ newest # NoIndex
    /\ index <= newest
    /\ newest - index >= Size
    /\ Reject

CheckDuplicate(index) ==
    /\ newest # NoIndex
    /\ index <= newest
    /\ newest - index < Size
    /\ Seen(newest - index)
    /\ Reject

CheckLate(index) ==
    /\ newest # NoIndex
    /\ index <= newest
    /\ newest - index < Size
    /\ ~Seen(newest - index)
    /\ bitset' = [bitset EXCEPT ![(newest - index) \div Bits] =
                      @ \cup {(newest - index) % Bits}]
    /\ UNCHANGED newest
    /\ Accept(index)

check_and_record(index) ==
    /\ asked' = index
    /\ \/ CheckFirst(index)
       \/ CheckNewer(index)
       \/ CheckTooOld(index)
       \/ CheckDuplicate(index)
       \/ CheckLate(index)

\* would_accept is check_and_record with its answer turned into a Boolean: it
\* records the index too, whatever its doc says.
would_accept(index) == check_and_record(index)

Next == \E index \in Indices : check_and_record(index) \/ would_accept(index)

Spec == Init /\ [][Next]_vars

-----------------------------------------------------------------------------
(***************************************************************************)
(* Properties                                                              *)
(***************************************************************************)

TypeOK ==
    /\ newest \in Indices \cup {NoIndex}
    /\ bitset \in [WordIds -> SUBSET BitIds]
    /\ asked \in Indices \cup {NoIndex}
    /\ decision \in {"None", "Accept", "Reject"}
    /\ accepted \subseteq Indices

\* The bitmap is the accepted indices, one bit per index within the window,
\* after any sequence of slides by part of a word, whole words or more than the
\* window: no bit is lost in a carry and none survives that should fall out.
Faithful ==
    newest # NoIndex =>
        \A pos \in 0..(Size - 1) : Seen(pos) <=> (newest - pos) \in accepted

\* "accept only if not already seen", "above newest -> accept", "too old ->
\* reject": the window decides as the set of all accepted indices would.
Abstract == INSTANCE ReplaySpec WITH Window <- Size
ImplementsReplaySpec == Abstract!Spec

-----------------------------------------------------------------------------
(***************************************************************************)
(* The inductive strengthening: the newest index is accepted and is the     *)
(* largest of the accepted ones.                                           *)
(***************************************************************************)
Newest ==
    /\ newest = NoIndex <=> accepted = {}
    /\ newest # NoIndex => newest \in accepted
    /\ \A index \in accepted : index <= newest
    /\ newest = NoIndex => \A w \in WordIds : bitset[w] = {}

IInv == TypeOK /\ Newest /\ Faithful
=============================================================================
