------------------------------ MODULE Entitlement ------------------------------
(***************************************************************************)
(* wdr_entitlement: what a tier grants, what two peers can agree on, and     *)
(* what a change of tier does to a session that is already streaming.       *)
(*                                                                         *)
(* A policy is the set of its axes.  The caller is the one the sources       *)
(* describe (provider.rs, set_dev_toggle_tier): it flips the toggle, runs    *)
(* renegotiate_live_change, and applies the plan or pauses for the user.     *)
(***************************************************************************)
EXTENDS Naturals, FiniteSets

CONSTANT MaxChanges   \* tier changes in a behaviour

ASSUME EntitlementAssumption == MaxChanges \in Nat

Tier    == {"Free", "Pro"}
Feature == {"LossyWifi", "LosslessWifi", "BluetoothSupportedCells", "Diagnostics",
            "BitPerfectVerify"}

\* The rows of DEFAULT_POLICY_TABLE that grant.
DEFAULT_POLICY_TABLE ==
    ({"Free"} \X {"LossyWifi", "BluetoothSupportedCells", "Diagnostics"})
        \cup ({"Pro"} \X Feature)

granted(tier, f) == <<tier, f>> \in DEFAULT_POLICY_TABLE

\* The second view of the same table, and the one policies are built from.
feature_level(tier, f) ==
    IF tier = "Pro" THEN "Lossless"
    ELSE IF f \in {"LossyWifi", "BluetoothSupportedCells", "Diagnostics"} THEN "Lossy"
    ELSE "None"

is_enabled(level) == level /= "None"

\* Axes of an EffectivePolicy, and the mask each has in Policy::bits.
Axis == {"lossy_wifi", "lossless_wifi", "bluetooth_cells"}

Bit(axis) == CASE axis = "lossy_wifi" -> 1
               [] axis = "lossless_wifi" -> 2
               [] axis = "bluetooth_cells" -> 4

FeatureOf(axis) == CASE axis = "lossy_wifi" -> "LossyWifi"
                     [] axis = "lossless_wifi" -> "LosslessWifi"
                     [] axis = "bluetooth_cells" -> "BluetoothSupportedCells"

effective_of_tier(tier) == {a \in Axis : is_enabled(feature_level(tier, FeatureOf(a)))}

\* A provider's own answer, through the trait.
feature_enabled(tier, f)   == granted(tier, f)
effective_policy(tier)     == {a \in Axis : feature_enabled(tier, FeatureOf(a))}
bit_perfect_enabled(tier)  == feature_enabled(tier, "BitPerfectVerify")

effective(bits) == {a \in Axis : (bits \div Bit(a)) % 2 = 1}

from_tier(tier) == CHOOSE b \in 0..7 : effective(b) = effective_of_tier(tier)

capability_eq(a, b) == a \div 2 = b \div 2

NoCommonLossy == [mismatch |-> TRUE, policy |-> {}]

intersect(a, b) ==
    LET eff == effective(a) \cap effective(b)
    IN  IF "lossy_wifi" \in eff THEN [mismatch |-> FALSE, policy |-> eff]
                                ELSE NoCommonLossy

policy_gate(lossless, tier) == lossless => feature_enabled(tier, "LosslessWifi")

\* The lane a codec rides once the gate has let it through.
lane_and_meta(lossless, codec) ==
    IF lossless /\ codec \in {"Flac", "Pcm"} THEN "stream" ELSE "datagram"

-----------------------------------------------------------------------------
PauseForConfirm == [plan |-> "PauseForConfirm", policy |-> {}]
ApplySaved(eff) == [plan |-> "ApplySaved", policy |-> eff]
NoChange        == [plan |-> "NoChange", policy |-> {}]

never_silently_drops_lossless(p) == p.plan = "ApplySaved" => "lossless_wifi" \notin p.policy

\* MUTANT: only a streaming session counts as live.
renegotiate_live_change_PausedIsIdle(old, new, mode, pref) ==
    IF mode /= "Streaming" \/ ~ ("lossless_wifi" \in effective_of_tier(old) \ effective_of_tier(new))
    THEN NoChange
    ELSE IF pref = "AskEachTime" THEN PauseForConfirm ELSE ApplySaved(effective_of_tier(new))

renegotiate_live_change(old, new, mode, pref) ==
    LET loses == "lossless_wifi" \in effective_of_tier(old) \ effective_of_tier(new)
    IN  IF mode = "Idle" \/ ~ loses THEN NoChange
        ELSE IF pref = "AskEachTime" THEN PauseForConfirm
        ELSE ApplySaved(effective_of_tier(new))

-----------------------------------------------------------------------------
VARIABLES
    tier,      \* the toggle's tier
    remote,    \* the peer's policy bits, as it advertises them
    pref,      \* the user's DowngradePreference
    mode,      \* SessionMode
    policy,    \* the policy the session runs on; {}: no session
    asked,     \* a pause for confirmation is waiting for the user
    changes    \* history: tier changes so far

policyVars == <<tier, remote, pref, mode, policy, asked, changes>>

PolicyInit ==
    /\ tier \in Tier /\ remote \in 0..7 /\ pref \in {"AskEachTime", "UseSaved"}
    /\ mode = "Idle" /\ policy = {} /\ asked = FALSE /\ changes = 0

\* A session starts on the common policy; without a lossy baseline it does not.
Negotiate ==
    /\ mode = "Idle" /\ ~ intersect(from_tier(tier), remote).mismatch
    /\ mode' = "Streaming" /\ policy' = intersect(from_tier(tier), remote).policy
    /\ UNCHANGED <<tier, remote, pref, asked, changes>>

\* set_dev_toggle_tier and the plan the caller runs after it.
ChangeTier(new) ==
    /\ changes < MaxChanges /\ changes' = changes + 1
    /\ tier' = new
    /\ LET p == renegotiate_live_change(tier, new, mode, pref)
       IN  /\ mode' = IF p.plan = "PauseForConfirm" THEN "Paused" ELSE mode
           /\ asked' = (asked \/ p.plan = "PauseForConfirm")
           /\ policy' = IF p.plan = "ApplySaved" THEN p.policy ELSE policy
    /\ UNCHANGED <<remote, pref>>

\* The user confirms the lower policy: the session negotiates again.
Confirm ==
    /\ asked
    /\ asked' = FALSE
    /\ LET agreed == intersect(from_tier(tier), remote)
       IN  /\ policy' = agreed.policy
           /\ mode' = IF agreed.mismatch THEN "Idle" ELSE "Streaming"
    /\ UNCHANGED <<tier, remote, pref, changes>>

\* The user pauses, resumes (unless a confirmation is due) or stops.
Pause  == mode = "Streaming" /\ mode' = "Paused" /\ UNCHANGED <<tier, remote, pref, policy, asked, changes>>
Resume == mode = "Paused" /\ ~ asked /\ mode' = "Streaming" /\ UNCHANGED <<tier, remote, pref, policy, asked, changes>>
Stop   == mode /= "Idle" /\ mode' = "Idle" /\ policy' = {} /\ asked' = FALSE /\ UNCHANGED <<tier, remote, pref, changes>>

PolicyNext == Negotiate \/ (\E t \in Tier : ChangeTier(t)) \/ Confirm \/ Pause \/ Resume \/ Stop

PolicySpec == PolicyInit /\ [][PolicyNext]_policyVars

-----------------------------------------------------------------------------
OneSourceOfTruth ==
    \A t \in Tier :
        /\ effective_policy(t) = effective_of_tier(t)
        /\ \A f \in Feature : granted(t, f) = is_enabled(feature_level(t, f))

\* Lossless audio flows only under a tier that grants it and to a peer that
\* offers it: no sequence of toggles, pauses and confirmations leaves a session
\* streaming on a lossless policy the current tier has lost.  And the views of
\* the grants agree for every tier, so that the gate in front of a lane, the
\* policy a session negotiates and the plan of a live change can not contradict
\* one another; and the agreed policy is the largest both sides offer.
LosslessOnlyWhileGranted ==
    /\ (mode = "Streaming" /\ "lossless_wifi" \in policy) =>
         /\ policy_gate(TRUE, tier)
         /\ "lossless_wifi" \in effective(remote)
    /\ OneSourceOfTruth
    /\ (mode = "Streaming" /\ changes = 0) =>
         /\ policy = effective_of_tier(tier) \cap effective(remote)
         /\ intersect(remote, from_tier(tier)) = intersect(from_tier(tier), remote)

-----------------------------------------------------------------------------
(***************************************************************************)
(* The strengthening the proof rests on: a session keeps what it agreed on   *)
(* until the tier changes, and one that lost lossless waits for the user.    *)
(***************************************************************************)
PolicyTypeOK ==
    /\ tier \in Tier /\ remote \in 0..7 /\ mode \in {"Idle", "Streaming", "Paused"}
    /\ asked \in BOOLEAN /\ changes \in Nat

PolicyInv ==
    /\ PolicyTypeOK
    /\ asked => mode = "Paused" /\ changes > 0
    /\ mode # "Idle" /\ ~asked /\ "lossless_wifi" \in policy =>
          "lossless_wifi" \in effective_of_tier(tier) \cap effective(remote)
    /\ mode # "Idle" /\ changes = 0 => policy = effective_of_tier(tier) \cap effective(remote)
=============================================================================
