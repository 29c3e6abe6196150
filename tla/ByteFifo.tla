------------------------------ MODULE ByteFifo ------------------------------
(***************************************************************************)
(* What SpscRing promises its two threads: a bounded queue of bytes in which*)
(* a push appends a whole frame and a pop removes exactly the bytes asked   *)
(* for, oldest first.  The n-th byte ever pushed is the number n (from 0).  *)
(***************************************************************************)
EXTENDS Integers

CONSTANTS
    Capacity,   \* bytes the queue can hold
    Lengths     \* frame lengths the two threads use

VARIABLES
    sent,       \* bytes pushed so far
    taken,      \* bytes popped so far
    frame       \* the bytes of the latest pop, in order

vars == <<sent, taken, frame>>

Init == sent = 0 /\ taken = 0 /\ frame = <<>>

\* A successful push makes a whole frame visible at once.
Enqueue(n) ==
    /\ sent + n - taken <= Capacity
    /\ sent' = sent + n
    /\ UNCHANGED <<taken, frame>>

\* A successful pop hands over the n oldest bytes, each once and in order.
Dequeue(n) ==
    /\ n <= sent - taken
    /\ taken' = taken + n
    /\ frame' = [i \in 1..n |-> taken + i - 1]
    /\ UNCHANGED sent

Next == \E n \in Lengths : Enqueue(n) \/ Dequeue(n)

Spec == Init /\ [][Next]_vars
=============================================================================
