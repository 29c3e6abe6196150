-------------------------------- MODULE MCSecure --------------------------------
(***************************************************************************)
(* The secure lane in one run: a behaviour is a pairing of two peers          *)
(* (SecurePairing), the traffic under the keys a pairing left behind          *)
(* (DataCipher), or the sink that fills a lane with what a capture worker     *)
(* delivers (LiveSink); the other parts keep their initial states.           *)
(***************************************************************************)
EXTENDS DataCipher, SecurePairing, LiveSink

VARIABLE subject

TheSetup == CHOOSE s \in Setups : TRUE

SecureInit ==
    /\ subject \in {"pairing", "cipher", "sink"}
    /\ CipherInit /\ PairInit /\ SinkInit
    /\ subject # "pairing" => setup = TheSetup
    /\ subject # "sink" => codec = "flac" /\ secure

SecureNext ==
    /\ UNCHANGED subject
    /\ \/ subject = "pairing" /\ PairNext /\ UNCHANGED <<vars, cipher, sinkVars>>
       \/ subject = "cipher" /\ CipherNext /\ UNCHANGED <<pairVars, sinkVars>>
       \/ subject = "sink" /\ SinkNext /\ UNCHANGED <<vars, cipher, pairVars>>

\* Fairness is that of PairSpec.
Pairing(A) == subject = "pairing" /\ A
SecureSpec ==
    /\ SecureInit /\ [][SecureNext]_<<subject, vars, cipher, pairVars, sinkVars>>
    /\ WF_pairVars(Pairing(dial_loopback \/ DialFails \/ write_hello))
    /\ WF_pairVars(Pairing(ReadMsg2 \/ IniReadFails))
    /\ WF_pairVars(Pairing(EmitFrame)) /\ WF_pairVars(Pairing(ListenerNext))
    /\ WF_pairVars(Pairing(CloseSeen))
=============================================================================
