------------------------------- MODULE MCFormats -------------------------------
(***************************************************************************)
(* What two peers must agree on, in one run: how a frame is framed (Wire),    *)
(* which lane the entitlement allows (Entitlement), how its samples are coded *)
(* (Codec) and at which pace they are played (Drift).  A behaviour is one of   *)
(* its subject; the other parts keep their initial states.                  *)
(***************************************************************************)
EXTENDS Wire, Entitlement, Codec, Drift

CONSTANT Subjects   \* a subset of {"wire", "policy", "codec", "drift"}

VARIABLE subject

FormatsInit ==
    /\ subject \in Subjects
    /\ subject # "policy" => tier = "Free" /\ remote = 0 /\ pref = "AskEachTime"
    /\ subject # "codec" => meta = canonical("pcm")
    /\ subject # "drift" => lane_repr = "i16"
    /\ subject # "wire" => lane = "datagram" /\ items = <<pack_known_end>>
    /\ PolicyInit /\ CodecInit /\ DriftInit /\ Init

FormatsNext ==
    /\ UNCHANGED subject
    /\ \/ subject = "wire" /\ Next /\ UNCHANGED <<policyVars, codecVars, driftVars>>
       \/ subject = "policy" /\ PolicyNext /\ UNCHANGED <<vars, codecVars, driftVars>>
       \/ subject = "codec" /\ CodecNext /\ UNCHANGED <<vars, policyVars, driftVars>>
       \/ subject = "drift" /\ DriftNext /\ UNCHANGED <<vars, policyVars, codecVars>>

FormatsSpec ==
    FormatsInit /\ [][FormatsNext]_<<subject, vars, policyVars, codecVars, driftVars>>
=============================================================================
