------------------------------ MODULE DataCipher ------------------------------
(***************************************************************************)
(* One flow of sealed records: the SessionDataCipher of the sender and the    *)
(* one of the receiver (crates/wdr_crypto/src/data_cipher.rs, aead.rs), each  *)
(* behind the status its session core signals (session.rs), and between them  *)
(* a transport that may delay, repeat, reorder, lose or damage a record.  The *)
(* receiver's replay window is the one of ReplayWindow; a record is known by  *)
(* its index, which is its nonce.                                             *)
(***************************************************************************)
EXTENDS ReplayWindow, FiniteSets

CONSTANTS
    IndexLimit,  \* u64::MAX: the index that is never used
    MaxDamaged   \* bound: damaged records that reach the receiver

ASSUME CipherAssumption == IndexLimit \in 0..(MaxIndex + 1) /\ MaxDamaged \in Nat

VARIABLES
    status,      \* SessionStatus of the "tx" and the "rx" cipher
    out_index,   \* of the sender: the next index
    outcome,     \* of the latest call
    sealed,      \* history: how often each index was sealed
    opened,      \* history: records whose plaintext was handed out
    burnt        \* history: indices taken by a record that did not authenticate

Statuses == {"Handshaking", "Confirmed", "Rejected", "Terminated"}

cipher == <<status, out_index, outcome, sealed, opened, burnt>>

\* The 0-RTT guard.
can_transport_media(s) == s = "Confirmed"

CipherInit ==
    /\ Init
    /\ status = [end \in {"tx", "rx"} |-> "Handshaking"]
    /\ out_index = 0 /\ outcome = "None"
    /\ sealed = [index \in Indices |-> 0] /\ opened = {} /\ burnt = {}

\* The session core signals a new status to one of the two ends.
set_status(end, s) ==
    /\ \/ status[end] = "Handshaking" /\ s \in {"Confirmed", "Rejected"}
       \/ status[end] = "Confirmed" /\ s = "Terminated"
    /\ status' = [status EXCEPT ![end] = s]
    /\ UNCHANGED <<vars, out_index, outcome, sealed, opened, burnt>>

\* MUTANT: the index saturates at the limit instead of refusing.
encrypt_session_data_Saturating ==
    /\ UNCHANGED <<vars, status, opened, burnt>>
    /\ \/ /\ can_transport_media(status["tx"])
          /\ out_index' = IF out_index + 1 < IndexLimit THEN out_index + 1 ELSE out_index
          /\ sealed' = [sealed EXCEPT ![out_index] = @ + 1]
          /\ outcome' = "Sealed"
       \/ ~can_transport_media(status["tx"]) /\ outcome' = "None" /\ UNCHANGED <<out_index, sealed>>

\* The next record; nothing when the status refuses or the key is used up.
encrypt_session_data ==
    /\ UNCHANGED <<vars, status, opened, burnt>>
    /\ \/ /\ can_transport_media(status["tx"]) /\ out_index < IndexLimit
          /\ out_index' = out_index + 1
          /\ sealed' = [sealed EXCEPT ![out_index] = @ + 1]
          /\ outcome' = "Sealed"
       \/ /\ ~can_transport_media(status["tx"]) \/ out_index = IndexLimit
          /\ outcome' = "None"
          /\ UNCHANGED <<out_index, sealed>>

NotReady == ~can_transport_media(status["rx"])

\* A record that arrives: refused by the status, refused by the window, or
\* taken by the window and then authenticated.  The window is not given the
\* index back when the tag does not verify.
decrypt_session_data(index, intact) ==
    /\ UNCHANGED <<status, out_index, sealed>>
    /\ \/ NotReady /\ outcome' = "NotReady" /\ UNCHANGED <<vars, opened, burnt>>
       \/ /\ ~NotReady
          /\ check_and_record(index)
          /\ \/ /\ decision' = "Reject"
                /\ outcome' = "Rejected"
                /\ UNCHANGED <<opened, burnt>>
             \/ /\ decision' = "Accept" /\ intact
                /\ outcome' = "Ok"
                /\ opened' = opened \cup {index}
                /\ UNCHANGED burnt
             \/ /\ decision' = "Accept" /\ ~intact
                /\ outcome' = "AuthFailed"
                /\ burnt' = burnt \cup {index}
                /\ UNCHANGED opened

\* A sealed record arrives: any of them, any number of times.
Arrives == \E index \in Indices : sealed[index] > 0 /\ decrypt_session_data(index, TRUE)

\* A record damaged on the way arrives under the index it shows.
ArrivesDamaged ==
    /\ Cardinality(burnt) < MaxDamaged
    /\ \E index \in Indices : decrypt_session_data(index, FALSE)

CipherNext ==
    \/ \E end \in {"tx", "rx"}, s \in Statuses : set_status(end, s)
    \/ encrypt_session_data \/ Arrives \/ ArrivesDamaged

CipherSpec == CipherInit /\ [][CipherNext]_<<vars, cipher>>

-----------------------------------------------------------------------------
(***************************************************************************)
(* Properties                                                              *)
(***************************************************************************)

\* No nonce is used twice under a key, up to and at the last index, and no
\* record is sealed or opened before the session is confirmed.
NonceUnique ==
    /\ \A index \in Indices : sealed[index] <= 1
    /\ opened \subseteq {index \in Indices : sealed[index] = 1}
    /\ (\E index \in Indices : sealed[index] > 0) => status["tx"] \in {"Confirmed", "Terminated"}
    /\ opened # {} => status["rx"] \in {"Confirmed", "Terminated"}

\* A record is lost to the window only by having been opened before, by a
\* window of newer records ahead of it, or by a damaged one: it had the same
\* index, or it showed an index a window ahead.
RefusalExplained ==
    [][outcome' = "Rejected" /\ vars' # vars =>
          \/ asked' \in opened \cup burnt
          \/ \E seen \in opened \cup burnt : seen - asked' >= Size]_<<vars, cipher>>

-----------------------------------------------------------------------------
(***************************************************************************)
(* The inductive strengthening of NonceUnique: the sealed indices are those  *)
(* below the counter, and the window accepted what was opened or burnt.     *)
(***************************************************************************)
SealedBelow == sealed = [index \in Indices |-> IF index < out_index THEN 1 ELSE 0]

OnlyConfirmed ==
    /\ out_index > 0 => status["tx"] \in {"Confirmed", "Terminated"}
    /\ opened # {} => status["rx"] \in {"Confirmed", "Terminated"}

CipherInv ==
    /\ out_index \in 0..IndexLimit
    /\ status \in [{"tx", "rx"} -> Statuses]
    /\ SealedBelow
    /\ opened \subseteq {index \in Indices : sealed[index] = 1}
    /\ accepted = opened \cup burnt
    /\ OnlyConfirmed
=============================================================================
