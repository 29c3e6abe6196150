----------------------------- MODULE ReplaySpec -----------------------------
(***************************************************************************)
(* What ReplayWindow promises: an index is accepted at most once, an index  *)
(* newer than all others always, and one that lies Window or more behind    *)
(* the newest never.  The state is simply the set of accepted indices.      *)
(***************************************************************************)
EXTENDS Integers

CONSTANTS
    Window,     \* indices the window covers: 256 in the code
    Indices     \* packet indices

VARIABLES
    accepted,   \* indices accepted so far
    asked,      \* the index of the latest call, or -1
    decision    \* its answer: "None" | "Accept" | "Reject"

vars == <<accepted, asked, decision>>

Init == accepted = {} /\ asked = -1 /\ decision = "None"

\* Not yet accepted, and less than a window behind every accepted index.
Acceptable(index) ==
    /\ index \notin accepted
    /\ \A seen \in accepted : seen - index < Window

Check(index) ==
    /\ asked' = index
    /\ \/ /\ Acceptable(index)
          /\ accepted' = accepted \cup {index}
          /\ decision' = "Accept"
       \/ /\ ~Acceptable(index)
          /\ accepted' = accepted
          /\ decision' = "Reject"

Next == \E index \in Indices : Check(index)

Spec == Init /\ [][Next]_vars
=============================================================================
