-------------------------- MODULE SecureSessionProofs --------------------------
(***************************************************************************)
(* The secure session, from its pairing to its records.  For every set of     *)
(* identities, every pin on either side and every loss of the connection: a   *)
(* responder that has a session shares its key with the initiator, and a pin  *)
(* is never passed over.  And for every number of words, every word size,     *)
(* every index limit, every sequence of calls and every transport: the bitmap *)
(* of the replay window is the set of accepted indices of the last window,    *)
(* no nonce is used twice, what is opened was sealed once, and no record is   *)
(* refused without its reason.                                              *)
(***************************************************************************)
EXTENDS SecurePairing, DataCipher, ModularArithmetic

-----------------------------------------------------------------------------
(***************************************************************************)
(* The pairing.                                                            *)
(***************************************************************************)

\* A session key is never the absent one.
LEMMA KeyIsSome == SharedKey # None
BY DEF SharedKey, finish_session, derive_session_keys, None

LEMMA PairInitInv == PairInit => PairInv
BY DEF PairInit, PairInv, Shapes, InFlight, Sessions, Undecided, None

\* The role does not choose the key.
LEMMA SameKey == finish_session(transcript(static_public(setup.res_id), static_public(Emitter)),
                                "responder") = SharedKey
BY DEF SharedKey, finish_session

\* A step that leaves the messages and the keys alone, and that takes a peer at
\* most to its end.
LEMMA QuietInv ==
    ASSUME PairInv, UNCHANGED <<setup, up, down>>,
           \/ UNCHANGED ini
           \/ \E r : ini' = [ini EXCEPT !.state = "over", !.result = r],
           \/ UNCHANGED res
           \/ \E r : res' = [res EXCEPT !.state = "done", !.result = r]
    PROVE  PairInv'
<1>1. /\ ini'.key = ini.key /\ ini'.peer = ini.peer
      /\ ini'.state \in {ini.state, "over"}
      /\ ini' = [state |-> ini'.state, result |-> ini'.result,
                 peer |-> ini'.peer, key |-> ini'.key]
  BY DEF PairInv, Shapes
<1>2. /\ res'.key = res.key /\ res'.peer = res.peer /\ res'.rendered = res.rendered
      /\ res'.state \in {res.state, "done"}
      /\ res' = [state |-> res'.state, result |-> res'.result, peer |-> res'.peer,
                 key |-> res'.key, rendered |-> res'.rendered]
  BY DEF PairInv, Shapes
<1>3. SharedKey' = SharedKey /\ (IniHasSession' <=> IniHasSession)
      /\ (ResHasSession' <=> ResHasSession) /\ Msg1' = Msg1 /\ Msg2' = Msg2 /\ Msg3' = Msg3
  BY <1>1, <1>2 DEF SharedKey, IniHasSession, ResHasSession, Msg1, Msg2, Msg3, Matches
<1>4. InFlight'
  BY <1>1, <1>2, <1>3 DEF PairInv, InFlight, Undecided
<1>5. Sessions'
  BY <1>1, <1>2, <1>3 DEF PairInv, Sessions
<1>6. Shapes'
  BY <1>1, <1>2 DEF Shapes
<1>7. QED
  BY <1>4, <1>5, <1>6 DEF PairInv

LEMMA DialInv == PairInv /\ dial_loopback => PairInv'
<1> SUFFICES ASSUME PairInv, dial_loopback PROVE PairInv'
  OBVIOUS
<1>1. /\ UNCHANGED <<setup, res, up, down>> /\ ini.state = "start" /\ Admitted
      /\ ini' = [ini EXCEPT !.state = IF setup.kind = "secure" THEN "hello" ELSE "live"]
  BY DEF dial_loopback
<1>2. /\ ini'.key = ini.key /\ ini'.peer = ini.peer
      /\ ini'.state = IF setup.kind = "secure" THEN "hello" ELSE "live"
      /\ ini' = [state |-> ini'.state, result |-> ini'.result,
                 peer |-> ini'.peer, key |-> ini'.key]
  BY <1>1 DEF PairInv, Shapes
<1>3. (IniHasSession' <=> IniHasSession) /\ (ResHasSession' <=> ResHasSession)
      /\ Msg1' = Msg1 /\ Msg2' = Msg2 /\ Msg3' = Msg3
  BY <1>1, <1>2 DEF SharedKey, IniHasSession, ResHasSession, Msg1, Msg2, Msg3, Matches
<1>4. InFlight'
  BY <1>1, <1>2, <1>3 DEF PairInv, InFlight, Undecided
<1>5. Sessions'
  BY <1>1, <1>2, <1>3 DEF PairInv, Sessions, Admitted
<1>6. QED
  BY <1>1, <1>2, <1>4, <1>5 DEF PairInv, Shapes

LEMMA HelloInv == PairInv /\ write_hello => PairInv'
<1> SUFFICES ASSUME PairInv, write_hello PROVE PairInv'
  OBVIOUS
<1>1. CASE UNCHANGED up /\ IniEnds("Send")
  BY <1>1, QuietInv DEF write_hello, IniEnds
<1>2. CASE up' = Append(up, Msg1) /\ ini' = [ini EXCEPT !.state = "await2"]
  <2>1. UNCHANGED <<setup, res, down>> /\ ini.state = "hello"
    BY DEF write_hello
  <2>2. up = << >> /\ down = << >> /\ res.state \in Undecided \cup {"done"} /\ ini.key = None
    BY <2>1 DEF PairInv, InFlight
  <2>3. up' = <<Msg1>>
    BY <1>2, <2>2
  <2>4. /\ ini'.key = ini.key /\ ini'.peer = ini.peer /\ ini'.state = "await2"
        /\ ini' = [state |-> ini'.state, result |-> ini'.result,
                   peer |-> ini'.peer, key |-> ini'.key]
    BY <1>2 DEF PairInv, Shapes
  <2>5. (IniHasSession' <=> IniHasSession) /\ (ResHasSession' <=> ResHasSession)
        /\ Msg1' = Msg1 /\ Msg2' = Msg2 /\ Msg3' = Msg3
    BY <2>1, <2>4 DEF SharedKey, IniHasSession, ResHasSession, Msg1, Msg2, Msg3, Matches
  <2>6. InFlight'
    BY <2>1, <2>2, <2>3, <2>4, <2>5 DEF InFlight, Undecided
  <2>7. Sessions'
    BY <2>1, <2>4, <2>5 DEF PairInv, Sessions
  <2>8. QED
    BY <2>1, <2>4, <2>6, <2>7 DEF PairInv, Shapes
<1>3. QED
  BY <1>1, <1>2 DEF write_hello

LEMMA ReadMsg2Inv == PairInv /\ ReadMsg2 => PairInv'
<1> SUFFICES ASSUME PairInv, ReadMsg2 PROVE PairInv'
  OBVIOUS
<1> DEFINE m == Head(down)
<1>1. UNCHANGED <<setup, res>> /\ ini.state = "await2" /\ down # << >> /\ down' = Tail(down)
  BY DEF ReadMsg2
<1>2. down = <<Msg2>> /\ up = << >> /\ res.state \notin Undecided
  BY <1>1 DEF PairInv, InFlight
<1>3. down' = << >> /\ m.static = static_public(setup.res_id)
  BY <1>1, <1>2 DEF Msg2
<1>4. setup.kind = "secure" /\ setup.tier = "Pro" /\ setup.codec = "flac"
  BY <1>1 DEF PairInv, Sessions
<1>5. CASE UNCHANGED up /\ \E r : IniEnds(r)
  <2>1. /\ ini'.key = ini.key /\ ini'.peer = ini.peer /\ ini'.state = "over"
        /\ ini' = [state |-> ini'.state, result |-> ini'.result,
                   peer |-> ini'.peer, key |-> ini'.key]
    BY <1>5 DEF PairInv, Shapes, IniEnds
  <2>2. (IniHasSession' <=> IniHasSession) /\ (ResHasSession' <=> ResHasSession)
    BY <1>1, <2>1 DEF SharedKey, IniHasSession, ResHasSession, Matches
  <2>3. InFlight'
    BY <1>1, <1>2, <1>3, <1>5, <2>1 DEF InFlight
  <2>4. Sessions'
    BY <1>1, <2>1, <2>2 DEF PairInv, Sessions
  <2>5. QED
    BY <1>1, <2>1, <2>3, <2>4 DEF PairInv, Shapes
<1>6. CASE Matches(setup.ini_pin, m.static) /\ Completed(m)
  <2>1. up' = <<Msg3>> /\ Msg3' = Msg3
    BY <1>2, <1>6 DEF Completed, Msg3
  <2>2. /\ ini'.key = SharedKey /\ ini'.peer = static_public(setup.res_id)
        /\ ini'.state = "session"
        /\ ini' = [state |-> ini'.state, result |-> ini'.result,
                   peer |-> ini'.peer, key |-> ini'.key]
    BY <1>3, <1>6 DEF PairInv, Shapes, Completed, SharedKey
  <2>3. SharedKey' = SharedKey
    BY <1>1 DEF SharedKey
  <2>4. IniHasSession'
    BY <1>1, <1>3, <1>4, <1>6, <2>2, <2>3 DEF IniHasSession, Matches
  <2>5. res.key # None => ResHasSession'
    BY <1>1, <2>3, <2>4 DEF PairInv, Sessions, ResHasSession, Matches
  <2>6. InFlight'
    BY <1>1, <1>2, <1>3, <2>1, <2>2, <2>4 DEF InFlight
  <2>7. Sessions'
    BY <1>1, <1>4, <2>4, <2>5 DEF PairInv, Sessions
  <2>8. QED
    BY <1>1, <2>2, <2>6, <2>7 DEF PairInv, Shapes
<1>7. QED
  BY <1>5, <1>6 DEF ReadMsg2, complete_after_msg2

LEMMA AcceptInv == PairInv /\ AcceptConn => PairInv'
<1> SUFFICES ASSUME PairInv, AcceptConn PROVE PairInv'
  OBVIOUS
<1>1. CASE ResEnds("Internal")
  BY <1>1, QuietInv DEF AcceptConn, ResEnds
<1>2. CASE res' = [res EXCEPT !.state = IF setup.listens = "secure" THEN "first" ELSE "plain"]
  <2>1. UNCHANGED <<setup, ini, up, down>> /\ res.state = "accepting"
    BY DEF AcceptConn
  <2>2. /\ res'.key = res.key /\ res'.peer = res.peer /\ res'.rendered = res.rendered
        /\ res'.state \in {"first", "plain"}
        /\ res' = [state |-> res'.state, result |-> res'.result, peer |-> res'.peer,
                   key |-> res'.key, rendered |-> res'.rendered]
    BY <1>2 DEF PairInv, Shapes
  <2>3. (IniHasSession' <=> IniHasSession) /\ (ResHasSession' <=> ResHasSession)
        /\ Msg1' = Msg1 /\ Msg2' = Msg2 /\ Msg3' = Msg3
    BY <2>1, <2>2 DEF SharedKey, IniHasSession, ResHasSession, Msg1, Msg2, Msg3, Matches
  <2>4. InFlight'
    BY <2>1, <2>2, <2>3 DEF PairInv, InFlight, Undecided
  <2>5. Sessions'
    BY <2>1, <2>2, <2>3 DEF PairInv, Sessions
  <2>6. QED
    BY <2>1, <2>2, <2>4, <2>5 DEF PairInv, Shapes
<1>3. QED
  BY <1>1, <1>2 DEF AcceptConn

LEMMA ReadHelloInv == PairInv /\ read_hello => PairInv'
<1> SUFFICES ASSUME PairInv, read_hello PROVE PairInv'
  OBVIOUS
<1>1. UNCHANGED <<setup, ini>> /\ res.state = "first" /\ up # << >> /\ up' = Tail(up)
  BY DEF read_hello
<1>2. up = <<Msg1>> /\ down = << >>
  BY <1>1 DEF PairInv, InFlight, Undecided
<1>3. up' = << >>
  BY <1>1, <1>2
<1>4. ini.state \notin {"start", "hello", "live"}
  BY <1>1 DEF PairInv, InFlight
<1>5. ASSUME \/ res'.state = "await3" /\ down' = <<Msg2>>
             \/ res'.state = "done" /\ down' = down,
             res'.key = res.key, res'.peer = res.peer, res'.rendered = res.rendered,
             res' = [state |-> res'.state, result |-> res'.result, peer |-> res'.peer,
                     key |-> res'.key, rendered |-> res'.rendered]
      PROVE  PairInv'
  <2>1. (IniHasSession' <=> IniHasSession) /\ (ResHasSession' <=> ResHasSession) /\ Msg2' = Msg2
    BY <1>1, <1>5 DEF SharedKey, IniHasSession, ResHasSession, Msg2, Matches
  <2>2. InFlight'
    BY <1>1, <1>2, <1>3, <1>4, <1>5, <2>1 DEF InFlight, Undecided
  <2>3. Sessions'
    BY <1>1, <1>5, <2>1 DEF PairInv, Sessions
  <2>4. QED
    BY <1>1, <1>5, <2>2, <2>3 DEF PairInv, Shapes
<1>6. CASE down' = Append(down, Msg2) /\ res' = [res EXCEPT !.state = "await3"]
  BY <1>2, <1>5, <1>6 DEF PairInv, Shapes
<1>7. CASE UNCHANGED down /\ ResEnds("Transport")
  BY <1>5, <1>7 DEF PairInv, Shapes, ResEnds
<1>8. QED
  BY <1>6, <1>7 DEF read_hello

LEMMA ReadMsg3Inv == PairInv /\ ReadMsg3 => PairInv'
<1> SUFFICES ASSUME PairInv, ReadMsg3 PROVE PairInv'
  OBVIOUS
<1> DEFINE m == Head(up)
<1>1. UNCHANGED <<setup, ini, down>> /\ res.state = "await3" /\ up # << >> /\ up' = Tail(up)
  BY DEF ReadMsg3
<1>2. up = <<Msg3>> /\ IniHasSession
  BY <1>1 DEF PairInv, InFlight, Undecided
<1>3. up' = << >> /\ m.static = static_public(Emitter)
  BY <1>1, <1>2 DEF Msg3
<1>4. IniHasSession' /\ SharedKey' = SharedKey /\ Msg2' = Msg2
  BY <1>1, <1>2 DEF IniHasSession, SharedKey, Matches, Msg2
<1>5. ini.state \notin {"start", "hello", "live"} /\ down = << >>
  BY <1>1, <1>2 DEF PairInv, InFlight
<1>6. ASSUME res'.state \in {"sniff", "done"}, res'.key # None => ResHasSession',
             res'.state = "sniff" \/ res'.rendered => res'.key # None,
             res' = [state |-> res'.state, result |-> res'.result, peer |-> res'.peer,
                     key |-> res'.key, rendered |-> res'.rendered]
      PROVE  PairInv'
  <2>1. InFlight'
    BY <1>1, <1>3, <1>5, <1>6 DEF InFlight, Undecided
  <2>2. Sessions'
    BY <1>1, <1>4, <1>6 DEF PairInv, Sessions
  <2>3. QED
    BY <1>1, <1>6, <2>1, <2>2 DEF PairInv, Shapes
<1>7. CASE ResEnds("FingerprintMismatch")
  <2>1. /\ res'.key = res.key /\ res'.peer = res.peer /\ res'.rendered = res.rendered
        /\ res'.state = "done"
        /\ res' = [state |-> res'.state, result |-> res'.result, peer |-> res'.peer,
                   key |-> res'.key, rendered |-> res'.rendered]
    BY <1>7 DEF PairInv, Shapes, ResEnds
  <2>2. res'.key # None => ResHasSession'
    BY <1>1, <1>4, <2>1 DEF PairInv, Sessions, ResHasSession, Matches
  <2>3. res'.rendered => res'.key # None
    BY <2>1 DEF PairInv, Sessions
  <2>4. QED
    BY <1>6, <2>1, <2>2, <2>3
<1>8. CASE /\ Matches(setup.res_pin, m.static)
           /\ res' = [res EXCEPT !.state = "sniff", !.peer = m.static,
                     !.key = finish_session(transcript(static_public(setup.res_id), m.static),
                                            "responder")]
  <2>1. /\ res'.key = SharedKey /\ res'.peer = static_public(Emitter)
        /\ res'.state = "sniff"
        /\ res' = [state |-> res'.state, result |-> res'.result, peer |-> res'.peer,
                   key |-> res'.key, rendered |-> res'.rendered]
    BY <1>3, <1>8, SameKey DEF PairInv, Shapes
  <2>2. ResHasSession'
    BY <1>1, <1>3, <1>4, <1>8, <2>1 DEF ResHasSession, Matches
  <2>3. QED
    BY <1>6, <2>1, <2>2, KeyIsSome
<1>9. QED
  BY <1>7, <1>8 DEF ReadMsg3, complete_after_msg3

LEMMA ReadLaneInv == PairInv /\ ReadLane => PairInv'
<1> SUFFICES ASSUME PairInv, ReadLane PROVE PairInv'
  OBVIOUS
<1>1. UNCHANGED <<setup, ini, up, down>> /\ res.state \in {"sniff", "lane"}
  BY DEF ReadLane
<1>2. CASE UNCHANGED res \/ \E r : ResEnds(r)
  BY <1>1, <1>2, QuietInv DEF ResEnds
<1>3. CASE res' = [res EXCEPT !.state = "lane", !.rendered = TRUE]
  <2>1. /\ res'.key = res.key /\ res'.peer = res.peer /\ res'.state = "lane"
        /\ res' = [state |-> res'.state, result |-> res'.result, peer |-> res'.peer,
                   key |-> res'.key, rendered |-> res'.rendered]
    BY <1>3 DEF PairInv, Shapes
  <2>2. (IniHasSession' <=> IniHasSession) /\ (ResHasSession' <=> ResHasSession)
        /\ Msg1' = Msg1 /\ Msg2' = Msg2 /\ Msg3' = Msg3
    BY <1>1, <2>1 DEF SharedKey, IniHasSession, ResHasSession, Msg1, Msg2, Msg3, Matches
  <2>3. InFlight'
    BY <1>1, <2>1, <2>2 DEF PairInv, InFlight, Undecided
  <2>4. Sessions'
    BY <1>1, <2>1, <2>2 DEF PairInv, Sessions
  <2>5. QED
    BY <1>1, <2>1, <2>3, <2>4 DEF PairInv, Shapes
<1>4. QED
  BY <1>2, <1>3 DEF ReadLane

LEMMA PairNextInv == PairInv /\ [PairNext]_pairVars => PairInv'
<1> SUFFICES ASSUME PairInv, [PairNext]_pairVars PROVE PairInv'
  OBVIOUS
<1>1. CASE ConnectRefused \/ DialFails \/ IniReadFails \/ FinishSink \/ DropSink
  BY <1>1, QuietInv DEF ConnectRefused, DialFails, IniReadFails, FinishSink, DropSink, IniEnds
<1>2. CASE EmitFrame
  BY <1>2, QuietInv DEF EmitFrame, IniEnds
<1>3. CASE PeerWaitElapses \/ SniffMagic \/ NotSecure \/ ResReadFails
  BY <1>3, QuietInv DEF PeerWaitElapses, SniffMagic, NotSecure, ResReadFails, ResEnds
<1>4. CASE CloseSeen \/ Wait \/ UNCHANGED pairVars
  BY <1>4, QuietInv DEF CloseSeen, Wait, pairVars
<1>5. QED
  BY <1>1, <1>2, <1>3, <1>4, DialInv, HelloInv, ReadMsg2Inv, AcceptInv, ReadHelloInv,
     ReadMsg3Inv, ReadLaneInv DEF PairNext, EmitterNext, ListenerNext

\* The inductive invariant of the handshake: what is in flight at every stage of
\* secure.rs, and what a peer that has a session knows of the other.
THEOREM PairInvariance == PairSpec => []PairInv
<1>1. PairInit => PairInv
  BY PairInitInv
<1>2. PairInv /\ [PairNext]_pairVars => PairInv'
  BY PairNextInv
<1>3. QED
  BY <1>1, <1>2, PTL DEF PairSpec

-----------------------------------------------------------------------------
\* When the responder has a session, the initiator has the same one: the same
\* media key, and each the other's static key.
THEOREM PeersAgree == PairSpec => []Agreement
<1>1. PairInv => Agreement
  BY DEF PairInv, Sessions, ResHasSession, IniHasSession, Agreement
<1>2. QED
  BY <1>1, PairInvariance, PTL

\* Neither peer's pin is passed over, and nothing is rendered unless both agree
\* and the tier and the codec allow the secure lane.
THEOREM PinsHold == PairSpec => []PinRespected
<1>1. PairInv => PinRespected
  BY DEF PairInv, Sessions, ResHasSession, IniHasSession, PinRespected
<1>2. QED
  BY <1>1, PairInvariance, PTL

-----------------------------------------------------------------------------
(***************************************************************************)
(* The replay window.                                                      *)
(***************************************************************************)

LEMMA Sizes ==
    /\ Words \in Nat \ {0} /\ Bits \in Nat \ {0} /\ Size \in Nat \ {0}
    /\ Size = Words * Bits /\ 0 \in WordIds /\ 0 \in BitIds
BY ReplayAssumption DEF ReplayAssumption, Size, WordIds, BitIds

\* A position of the window has a word and a bit, and they determine it.
LEMMA Position ==
    ASSUME NEW pos \in 0..(Size - 1)
    PROVE  /\ pos \div Bits \in WordIds /\ pos % Bits \in BitIds
           /\ pos = Bits * (pos \div Bits) + (pos % Bits)
<1>1. PICK b \in 0..(Bits - 1) : pos % Bits = b
  BY Sizes, DivMod
<1>2. PICK w \in Int : pos \div Bits = w
  BY Sizes, DivMod
<1>3. pos = Bits * w + b
  BY <1>1, <1>2, Sizes, DivMod
<1>4. PICK x \in Int : x = Bits * w
  BY Sizes
<1>5. x + b >= 0 /\ x + b < Bits * Words /\ Bits * Words \in Int
  <2>1. Size = Bits * Words /\ Size \in Int
    BY Sizes
  <2>2. pos = x + b /\ 0 <= pos /\ pos < Size
    BY <1>3, <1>4, Sizes
  <2>3. QED
    BY <2>1, <2>2
<1>6. w >= 0
  <2>1. CASE w <= -1
    <3>1. x <= -Bits
      <4>1. Bits * w <= Bits * (-1)
        BY <2>1, Sizes
      <4>2. QED
        BY <1>4, <4>1, Sizes
    <3>2. QED
      BY <1>5, <3>1, Sizes
  <2>2. QED
    BY <2>1
<1>7. w < Words
  <2>1. CASE w >= Words
    <3>1. x >= Bits * Words
      BY <1>4, <2>1, Sizes
    <3>2. QED
      BY <1>5, <3>1, Sizes
  <2>2. QED
    BY <2>1, Sizes
<1>8. QED
  BY <1>1, <1>2, <1>3, <1>6, <1>7, Sizes DEF WordIds, BitIds

\* The position of a bit of a word.
LEMMA PositionOf ==
    ASSUME NEW w \in WordIds, NEW b \in BitIds
    PROVE  /\ Bits * w + b \in 0..(Size - 1)
           /\ (Bits * w + b) \div Bits = w
           /\ (Bits * w + b) % Bits = b
<1>1. w \in Int /\ 0 <= w /\ w <= Words - 1 /\ b \in 0..(Bits - 1)
  BY Sizes DEF WordIds, BitIds
<1>2. PICK x \in Int : x = Bits * w
  BY <1>1, Sizes
<1>3. Bits * w <= Bits * (Words - 1) /\ 0 <= Bits * w
  BY <1>1, Sizes
<1>4. Bits * (Words - 1) = Size - Bits
  BY Sizes
<1>5. Bits * w + b \in 0..(Size - 1)
  BY <1>1, <1>2, <1>3, <1>4, Sizes
<1>6. Bits * w + b \in Int
  BY <1>5
<1>7. QED
  BY <1>1, <1>5, <1>6, Sizes, DivModUnique

\* Bit c of word k stands for the position Bits * k + c, and no word below 0
\* holds a position.
LEMMA SeenAt ==
    ASSUME NEW k \in Int, NEW c \in BitIds, k <= Words - 1, NEW pos, pos = Bits * k + c
    PROVE  (0 <= pos /\ Seen(pos)) <=> (k \in WordIds /\ c \in bitset[k])
<1>1. c \in 0..(Bits - 1)
  BY DEF BitIds
<1>2. CASE k >= 0
  <2>1. k \in WordIds
    BY <1>2, Sizes DEF WordIds
  <2>2. 0 <= pos /\ pos \div Bits = k /\ pos % Bits = c
    BY <2>1, PositionOf, Sizes
  <2>3. QED
    BY <2>1, <2>2 DEF Seen
<1>3. CASE k < 0
  <2>1. k \notin WordIds
    BY <1>3, Sizes DEF WordIds
  <2>2. Bits * k <= Bits * (-1)
    BY <1>3, Sizes
  <2>3. PICK x \in Int : x = Bits * k
    BY Sizes
  <2>4. x <= -Bits
    BY <2>2, <2>3, Sizes
  <2>5. pos < 0 /\ pos \in Int
    BY <1>1, <2>3, <2>4, Sizes
  <2>6. QED
    BY <2>1, <2>5
<1>4. QED
  BY <1>2, <1>3

\* After a slide a position holds what lay a distance nearer to the newest
\* index, and position 0 is set: for a distance within a word, across words
\* with a carry, and beyond the window.
LEMMA SlideBit ==
    ASSUME NEW d \in Nat \ {0}, NEW pos \in 0..(Size - 1)
    PROVE  (pos % Bits \in Slide(d)[pos \div Bits])
              <=> (pos = 0 \/ (0 <= pos - d /\ Seen(pos - d)))
<1>1. PICK w \in WordIds, b \in BitIds : w = pos \div Bits /\ b = pos % Bits
  BY Position
<1>2. pos = Bits * w + b
  BY <1>1, Position
<1>3. w \in Int /\ 0 <= w /\ w <= Words - 1 /\ b \in 0..(Bits - 1)
  BY Sizes DEF WordIds, BitIds
<1>4. (pos = 0) <=> (w = 0 /\ b = 0)
  <2>1. (w = 0 /\ b = 0) => pos = 0
    BY <1>2, Sizes
  <2>2. pos = 0 => w = 0 /\ b = 0
    BY <1>1, Sizes, DivModUnique
  <2>3. QED
    BY <2>1, <2>2
<1>5. PICK ws \in Int, bs \in 0..(Bits - 1) :
        ws = d \div Bits /\ bs = d % Bits /\ d = Bits * ws + bs
  <2>1. d \in Int
    OBVIOUS
  <2>2. QED
    BY <2>1, Sizes, DivMod, Zenon
<1> DEFINE Kept == IF w - ws \in WordIds THEN Shifted(bitset[w - ws], bs) ELSE {}
           Spilt == IF bs # 0 /\ w - 1 - ws \in WordIds
                    THEN Carry(bitset[w - 1 - ws], bs) ELSE {}
           moved == IF d < Size THEN Kept \cup Spilt ELSE {}
<1>6. Slide(d)[w] = IF w = 0 THEN moved \cup {0} ELSE moved
  BY <1>5 DEF Slide
<1>7. SUFFICES (b \in moved) <=> (0 <= pos - d /\ Seen(pos - d))
  <2>1. (b \in Slide(d)[w]) <=> ((w = 0 /\ b = 0) \/ b \in moved)
    BY <1>6
  <2>2. QED
    BY <1>1, <1>4, <1>7, <2>1
<1>8. CASE d >= Size
  <2>1. pos - d < 0 /\ pos - d \in Int
    BY <1>8, Sizes
  <2>2. QED
    BY <1>8, <2>1, Sizes
<1>9. CASE d < Size
  <2> PICK x \in Int : x = Bits * w
    BY <1>3, Sizes
  <2> PICK y \in Int : y = Bits * ws
    BY Sizes
  <2>1. pos = x + b /\ d = y + bs
    BY <1>2, <1>5
  <2>2. ws >= 0
    <3>1. CASE ws <= -1
      <4>1. Bits * ws <= Bits * (-1)
        BY <3>1, Sizes
      <4>2. QED
        BY <2>1, <4>1, Sizes
    <3>2. QED
      BY <3>1
  <2>3. CASE b >= bs
    <3>1. Bits * (w - ws) = x - y
      BY <1>3, Sizes, Distribute
    <3>2. pos - d = Bits * (w - ws) + (b - bs) /\ b - bs \in BitIds
          /\ w - ws \in Int /\ w - ws <= Words - 1
      BY <1>3, <2>1, <2>2, <2>3, <3>1, Sizes DEF BitIds
    <3>3. (0 <= pos - d /\ Seen(pos - d)) <=> (w - ws \in WordIds /\ b - bs \in bitset[w - ws])
      BY <3>2, SeenAt
    <3>4. b \in Kept <=> (w - ws \in WordIds /\ b - bs \in bitset[w - ws])
      BY <2>3 DEF Shifted
    <3>5. b \notin Spilt
      BY <1>3, <2>3 DEF Carry
    <3>6. QED
      BY <1>9, <3>3, <3>4, <3>5
  <2>4. CASE b < bs
    <3>1. bs # 0 /\ b + Bits - bs \in BitIds
      BY <1>3, <2>4, Sizes DEF BitIds
    <3>2. Bits * (w - 1 - ws) = x - Bits - y
      <4>1. Bits * ((w - 1) - ws) = Bits * (w - 1) - Bits * ws
        BY <1>3, Sizes, Distribute
      <4>2. Bits * (w - 1) = Bits * w - Bits * 1
        BY <1>3, Sizes, Distribute
      <4>3. QED
        BY <4>1, <4>2, Sizes
    <3>3. pos - d = Bits * (w - 1 - ws) + (b + Bits - bs)
          /\ w - 1 - ws \in Int /\ w - 1 - ws <= Words - 1
      BY <1>3, <2>1, <2>2, <3>2, Sizes
    <3>4. (0 <= pos - d /\ Seen(pos - d))
             <=> (w - 1 - ws \in WordIds /\ b + Bits - bs \in bitset[w - 1 - ws])
      BY <3>1, <3>3, SeenAt
    <3>5. b \in Spilt <=> (w - 1 - ws \in WordIds /\ b + Bits - bs \in bitset[w - 1 - ws])
      BY <2>4, <3>1 DEF Carry
    <3>6. b \notin Kept
      BY <1>3, <2>4 DEF Shifted
    <3>7. QED
      BY <1>9, <3>4, <3>5, <3>6
  <2>5. QED
    BY <1>3, <2>3, <2>4
<1>10. QED
  BY <1>8, <1>9, Sizes

-----------------------------------------------------------------------------
(***************************************************************************)
(* The inductive invariant.                                                *)
(***************************************************************************)

LEMMA InitInv == Init => IInv
BY Sizes DEF Init, IInv, TypeOK, Newest, Faithful, WordIds, BitIds, NoIndex, Indices

\* The first index: bit 0 of word 0 is the only one set.
LEMMA FirstInv ==
    ASSUME IInv, NEW index \in Indices, CheckFirst(index),
           asked' = index
    PROVE  IInv'
<1> USE DEF CheckFirst, Accept
<1>1. index \in Nat /\ accepted = {} /\ accepted' = {index} /\ newest' = index
      /\ index # NoIndex
  BY DEF IInv, Newest, Indices, NoIndex
<1>2. bitset' = [w \in WordIds |-> IF w = 0 THEN {0} ELSE {}]
  BY DEF IInv, TypeOK, Newest
<1>3. TypeOK'
  BY <1>1, <1>2, Sizes DEF TypeOK
<1>4. Newest'
  BY <1>1 DEF Newest
<1>5. Faithful'
  <2>1. SUFFICES ASSUME NEW pos \in 0..(Size - 1)
                 PROVE  pos % Bits \in bitset'[pos \div Bits] <=> (index - pos) \in {index}
    BY <1>1 DEF Faithful, Seen
  <2>2. pos \div Bits \in WordIds /\ pos % Bits \in BitIds
        /\ pos = Bits * (pos \div Bits) + (pos % Bits)
    BY Position
  <2>3. (pos % Bits \in bitset'[pos \div Bits]) <=> (pos \div Bits = 0 /\ pos % Bits = 0)
    BY <1>2, <2>2
  <2>4. (pos \div Bits = 0 /\ pos % Bits = 0) => pos = 0
    BY <2>2, Sizes
  <2>5. pos = 0 => (pos \div Bits = 0 /\ pos % Bits = 0)
    BY Sizes, DivModUnique
  <2>6. (index - pos) \in {index} <=> pos = 0
    BY <1>1, Sizes
  <2>7. QED
    BY <2>3, <2>4, <2>5, <2>6
<1>6. QED
  BY <1>3, <1>4, <1>5 DEF IInv

\* A newer index: the window slides and keeps what it still covers.
LEMMA NewerInv ==
    ASSUME IInv, NEW index \in Indices, CheckNewer(index),
           asked' = index
    PROVE  IInv'
<1> USE DEF CheckNewer, Accept
<1>1. newest \in Nat /\ index \in Nat /\ newest < index /\ newest' = index /\ index # NoIndex
  BY DEF IInv, TypeOK, Indices, NoIndex
<1>2. PICK d \in Nat \ {0} : d = index - newest
  BY <1>1
<1>3. bitset' = Slide(d)
  BY <1>2
<1>4. TypeOK'
  <2>1. Slide(d) \in [WordIds -> SUBSET BitIds]
    BY Sizes DEF Slide, Shifted, Carry
  <2>2. QED
    BY <1>3, <2>1 DEF IInv, TypeOK
<1>5. Newest'
  <2>1. accepted' = accepted \cup {index} /\ \A i \in accepted : i <= newest /\ i \in Int
    BY DEF IInv, TypeOK, Newest, Indices
  <2>2. QED
    BY <1>1, <2>1 DEF Newest
<1>6. Faithful'
  <2>1. SUFFICES ASSUME NEW pos \in 0..(Size - 1)
                 PROVE  pos % Bits \in Slide(d)[pos \div Bits]
                          <=> (index - pos) \in accepted \cup {index}
    BY <1>1, <1>3 DEF Faithful, Seen
  <2>2. (pos % Bits \in Slide(d)[pos \div Bits]) <=> (pos = 0 \/ (0 <= pos - d /\ Seen(pos - d)))
    BY SlideBit
  <2>3. (index - pos) \in {index} <=> pos = 0
    BY <1>1, Sizes
  <2>4. CASE 0 <= pos - d
    <3>1. pos - d \in 0..(Size - 1) /\ newest - (pos - d) = index - pos
      BY <1>1, <1>2, <2>4, Sizes
    <3>2. Seen(pos - d) <=> (index - pos) \in accepted
      BY <3>1 DEF IInv, Faithful
    <3>3. QED
      BY <2>2, <2>3, <2>4, <3>2
  <2>5. CASE ~(0 <= pos - d)
    <3>1. index - pos > newest /\ index - pos \in Int
      BY <1>1, <1>2, <2>5, Sizes
    <3>2. index - pos \notin accepted
      BY <1>1, <3>1 DEF IInv, Newest, TypeOK, Indices
    <3>3. QED
      BY <2>2, <2>3, <2>5, <3>2
  <2>6. QED
    BY <2>4, <2>5
<1>7. QED
  BY <1>4, <1>5, <1>6 DEF IInv

\* A late index sets its own bit and no other.
LEMMA LateInv ==
    ASSUME IInv, NEW index \in Indices, CheckLate(index),
           asked' = index
    PROVE  IInv'
<1> USE DEF CheckLate, Accept
<1>1. newest \in Nat /\ index \in Nat /\ index <= newest /\ newest' = newest
  BY DEF IInv, TypeOK, Indices, NoIndex
<1>2. PICK p \in 0..(Size - 1) : p = newest - index
  BY <1>1, Sizes
<1>3. p \div Bits \in WordIds /\ p % Bits \in BitIds /\ p = Bits * (p \div Bits) + (p % Bits)
  BY Position
<1>4. bitset' = [bitset EXCEPT ![p \div Bits] = @ \cup {p % Bits}]
  BY <1>2
<1>5. TypeOK'
  BY <1>3, <1>4 DEF IInv, TypeOK
<1>6. Newest'
  BY <1>1 DEF IInv, Newest, TypeOK
<1>7. Faithful'
  <2>1. SUFFICES ASSUME NEW pos \in 0..(Size - 1)
                 PROVE  pos % Bits \in bitset'[pos \div Bits]
                          <=> (newest - pos) \in accepted \cup {index}
    BY <1>1 DEF Faithful, Seen
  <2>2. pos \div Bits \in WordIds /\ pos % Bits \in BitIds
        /\ pos = Bits * (pos \div Bits) + (pos % Bits)
    BY Position
  <2>3. (pos % Bits \in bitset'[pos \div Bits])
          <=> (Seen(pos) \/ (pos \div Bits = p \div Bits /\ pos % Bits = p % Bits))
    BY <1>3, <1>4, <2>2 DEF IInv, TypeOK, Seen
  <2>4. (pos \div Bits = p \div Bits /\ pos % Bits = p % Bits) <=> pos = p
    BY <1>3, <2>2, Zenon
  <2>5. (newest - pos) \in {index} <=> pos = p
    BY <1>1, <1>2, Sizes
  <2>6. Seen(pos) <=> (newest - pos) \in accepted
    BY DEF IInv, Faithful
  <2>7. QED
    BY <2>3, <2>4, <2>5, <2>6
<1>8. QED
  BY <1>5, <1>6, <1>7 DEF IInv

LEMMA RejectInv ==
    ASSUME IInv, Reject, asked' \in Indices
    PROVE  IInv'
BY DEF Reject, window, IInv, TypeOK, Newest, Faithful, Seen

LEMMA CheckInv ==
    ASSUME IInv, NEW index \in Indices, check_and_record(index)
    PROVE  IInv'
BY FirstInv, NewerInv, LateInv, RejectInv DEF check_and_record, CheckTooOld, CheckDuplicate

LEMMA NextInv == IInv /\ [Next]_vars => IInv'
<1> SUFFICES ASSUME IInv, [Next]_vars PROVE IInv'
  OBVIOUS
<1>1. CASE UNCHANGED vars
  BY <1>1 DEF vars, window, IInv, TypeOK, Newest, Faithful, Seen
<1>2. CASE Next
  BY <1>2, CheckInv DEF Next, would_accept
<1>3. QED
  BY <1>1, <1>2

-----------------------------------------------------------------------------
(***************************************************************************)
(* Theorems.                                                               *)
(***************************************************************************)

\* The bitmap window's inductive invariant holds after every advance.
THEOREM Invariance == Spec => []IInv
<1>1. Init => IInv
  BY InitInv
<1>2. IInv /\ [Next]_vars => IInv'
  BY NextInv
<1>3. QED
  BY <1>1, <1>2, PTL DEF Spec

\* The type invariant of the window.
THEOREM TypeCorrect == Spec => []TypeOK
<1>1. IInv => TypeOK
  BY DEF IInv
<1>2. QED
  BY <1>1, Invariance, PTL

\* The bitmap holds exactly the accepted indices of the last window, however
\* check_and_record has slid it.
THEOREM BitmapFaithful == Spec => []Faithful
<1>1. IInv => Faithful
  BY DEF IInv
<1>2. QED
  BY <1>1, Invariance, PTL

\* Every call of check_and_record decides as ReplaySpec does.
LEMMA StepRefines == IInv /\ [Next]_vars => [Abstract!Next]_(Abstract!vars)
<1> SUFFICES ASSUME IInv, [Next]_vars PROVE [Abstract!Next]_(Abstract!vars)
  OBVIOUS
<1>1. CASE UNCHANGED vars
  BY <1>1 DEF vars, Abstract!vars
<1>2. ASSUME NEW index \in Indices, check_and_record(index)
      PROVE  Abstract!Check(index)
  <2> asked' = index
    BY <1>2 DEF check_and_record
  <2>1. index \in Nat /\ \A i \in accepted : i \in Nat /\ i <= newest
    BY DEF IInv, TypeOK, Newest, Indices
  <2>2. newest # NoIndex => newest \in accepted /\ newest \in Nat
    BY DEF IInv, TypeOK, Newest, Indices, NoIndex
  <2>3. CASE CheckFirst(index)
    <3>1. accepted = {}
      BY <2>3 DEF CheckFirst, IInv, Newest
    <3>2. Abstract!Acceptable(index)
      BY <3>1 DEF Abstract!Acceptable
    <3>3. QED
      BY <2>3, <3>2 DEF CheckFirst, Accept, Abstract!Check
  <2>4. CASE CheckNewer(index)
    <3>1. index > newest /\ newest \in Nat
      BY <2>2, <2>4 DEF CheckNewer
    <3>2. Abstract!Acceptable(index)
      <4>1. index \notin accepted
        BY <2>1, <3>1
      <4>2. \A seen \in accepted : seen - index < Size
        BY <2>1, <3>1, Sizes
      <4>3. QED
        BY <4>1, <4>2 DEF Abstract!Acceptable
    <3>3. QED
      BY <2>4, <3>2 DEF CheckNewer, Accept, Abstract!Check
  <2>5. CASE CheckTooOld(index)
    <3>1. newest \in accepted /\ newest \in Nat /\ newest - index >= Size
      BY <2>2, <2>5 DEF CheckTooOld
    <3>2. ~Abstract!Acceptable(index)
      BY <2>1, <3>1, Sizes DEF Abstract!Acceptable
    <3>3. QED
      BY <2>5, <3>2 DEF CheckTooOld, Reject, Abstract!Check
  <2>6. CASE CheckDuplicate(index)
    <3>1. newest \in Nat /\ newest - index \in 0..(Size - 1) /\ Seen(newest - index)
          /\ newest # NoIndex
      BY <2>1, <2>2, <2>6, Sizes DEF CheckDuplicate
    <3>2. newest - (newest - index) = index
      BY <2>1, <3>1
    <3>3. index \in accepted
      BY <3>1, <3>2 DEF IInv, Faithful
    <3>4. QED
      BY <2>6, <3>3 DEF CheckDuplicate, Reject, Abstract!Check, Abstract!Acceptable
  <2>7. CASE CheckLate(index)
    <3>1. newest \in Nat /\ newest - index \in 0..(Size - 1) /\ ~Seen(newest - index)
          /\ newest # NoIndex /\ newest - index < Size
      BY <2>1, <2>2, <2>7, Sizes DEF CheckLate
    <3>2. newest - (newest - index) = index
      BY <2>1, <3>1
    <3>3. index \notin accepted
      BY <3>1, <3>2 DEF IInv, Faithful
    <3>4. \A seen \in accepted : seen - index < Size
      BY <2>1, <3>1, Sizes
    <3>5. Abstract!Acceptable(index)
      BY <3>3, <3>4 DEF Abstract!Acceptable
    <3>6. QED
      BY <2>7, <3>5 DEF CheckLate, Accept, Abstract!Check
  <2>8. QED
    BY <1>2, <2>3, <2>4, <2>5, <2>6, <2>7 DEF check_and_record
<1>3. CASE Next
  BY <1>2, <1>3 DEF Next, would_accept, Abstract!Next
<1>4. QED
  BY <1>1, <1>3

\* The bitmap of a fixed number of words implements the set of accepted
\* indices: no index twice, none beyond the window, every newer one.
THEOREM Refinement == Spec => ImplementsReplaySpec
<1>1. Init => Abstract!Init
  BY DEF Init, NoIndex, Abstract!Init
<1>2. IInv /\ [Next]_vars => [Abstract!Next]_(Abstract!vars)
  BY StepRefines
<1>3. QED
  BY <1>1, <1>2, Invariance, PTL DEF Spec, ImplementsReplaySpec, Abstract!Spec

-----------------------------------------------------------------------------
(***************************************************************************)
(* The data cipher, whose receiving end is the replay window.               *)
(***************************************************************************)

\* The index limit is at most one past the largest index.
LEMMA Limits == IndexLimit \in Nat /\ IndexLimit - 1 <= MaxIndex /\ MaxIndex \in Nat
BY CipherAssumption, ReplayAssumption DEF CipherAssumption, ReplayAssumption

LEMMA CipherInitInv == CipherInit => CipherInv
BY Limits DEF CipherInit, Init, CipherInv, SealedBelow, OnlyConfirmed, Statuses, Indices

\* A step of the cipher is a call of the window, or leaves the window alone.
LEMMA CipherStepsWindow == [CipherNext]_<<vars, cipher>> => [Next]_vars
<1> SUFFICES ASSUME [CipherNext]_<<vars, cipher>> PROVE [Next]_vars
  OBVIOUS
<1>1. ASSUME NEW end \in {"tx", "rx"}, NEW s \in Statuses, set_status(end, s)
      PROVE  UNCHANGED vars
  BY <1>1 DEF set_status
<1>2. ASSUME encrypt_session_data PROVE UNCHANGED vars
  BY <1>2 DEF encrypt_session_data
<1>3. ASSUME NEW index \in Indices, NEW intact \in BOOLEAN,
             decrypt_session_data(index, intact)
      PROVE  [Next]_vars
  BY <1>3 DEF decrypt_session_data, Next
<1>4. CASE UNCHANGED <<vars, cipher>>
  BY <1>4
<1>5. QED
  BY <1>1, <1>2, <1>3, <1>4 DEF CipherNext, Arrives, ArrivesDamaged

LEMMA SetStatusInv ==
    ASSUME CipherInv, NEW end \in {"tx", "rx"}, NEW s \in Statuses, set_status(end, s)
    PROVE  CipherInv'
<1>1. UNCHANGED <<out_index, sealed, opened, burnt, accepted>>
  BY DEF set_status, vars
<1>2. status' = [status EXCEPT ![end] = s] /\ status \in [{"tx", "rx"} -> Statuses]
  BY DEF set_status, CipherInv
<1>3. \A e \in {"tx", "rx"} : status[e] \in {"Confirmed", "Terminated"}
                                => status'[e] \in {"Confirmed", "Terminated"}
  BY <1>2 DEF set_status
<1>4. status' \in [{"tx", "rx"} -> Statuses]
  BY <1>2
<1>5. OnlyConfirmed'
  BY <1>1, <1>3 DEF OnlyConfirmed, CipherInv
<1>6. QED
  BY <1>1, <1>4, <1>5 DEF CipherInv, SealedBelow, Indices

LEMMA EncryptInv ==
    ASSUME CipherInv, encrypt_session_data
    PROVE  CipherInv'
<1>1. UNCHANGED <<status, opened, burnt, accepted>>
  BY DEF encrypt_session_data, vars
<1>2. CASE UNCHANGED <<out_index, sealed>>
  BY <1>1, <1>2 DEF CipherInv, SealedBelow, OnlyConfirmed, Indices
<1>3. CASE /\ can_transport_media(status["tx"]) /\ out_index < IndexLimit
           /\ out_index' = out_index + 1
           /\ sealed' = [sealed EXCEPT ![out_index] = @ + 1]
  <2>1. out_index \in 0..(IndexLimit - 1) /\ out_index' \in 0..IndexLimit
    BY <1>3, Limits DEF CipherInv
  <2>2. out_index \in Indices
    BY <2>1, Limits DEF Indices
  <2>3. sealed = [index \in Indices |-> IF index < out_index THEN 1 ELSE 0]
    BY DEF CipherInv, SealedBelow
  <2>4. SealedBelow'
    <3>1. \A index \in Indices : sealed'[index] = IF index < out_index' THEN 1 ELSE 0
      <4>1. SUFFICES ASSUME NEW index \in Indices
                     PROVE  sealed'[index] = IF index < out_index' THEN 1 ELSE 0
        OBVIOUS
      <4>2. index \in Int /\ out_index \in Int
        BY <2>2 DEF Indices
      <4>3. CASE index = out_index
        BY <1>3, <2>2, <2>3, <4>2, <4>3
      <4>4. CASE index # out_index
        BY <1>3, <2>3, <4>2, <4>4
      <4>5. QED
        BY <4>3, <4>4
    <3>2. sealed' = [index \in Indices |-> sealed'[index]]
      BY <1>3, <2>3
    <3>3. QED
      BY <3>1, <3>2 DEF SealedBelow, Indices
  <2>5. \A index \in opened : index \in Indices /\ sealed[index] = 1
    BY DEF CipherInv
  <2>6. \A index \in opened : sealed'[index] = 1
    <3>1. SUFFICES ASSUME NEW index \in opened PROVE sealed'[index] = 1
      OBVIOUS
    <3>2. index \in Indices /\ sealed[index] = 1
      BY <2>5
    <3>3. index # out_index
      BY <2>2, <2>3, <3>2 DEF Indices
    <3>4. QED
      BY <1>3, <2>3, <3>2, <3>3
  <2>7. OnlyConfirmed'
    BY <1>1, <1>3 DEF OnlyConfirmed, CipherInv, can_transport_media
  <2>8. QED
    BY <1>1, <2>1, <2>4, <2>5, <2>6, <2>7 DEF CipherInv, Indices
<1>4. QED
  BY <1>2, <1>3 DEF encrypt_session_data

\* A record is opened only if it was sealed, and burnt if it does not verify.
LEMMA DecryptInv ==
    ASSUME CipherInv, NEW index \in Indices, NEW intact \in BOOLEAN,
           intact => sealed[index] > 0,
           decrypt_session_data(index, intact)
    PROVE  CipherInv'
<1>1. UNCHANGED <<status, out_index, sealed>>
  BY DEF decrypt_session_data
<1>2. CASE UNCHANGED <<opened, burnt, accepted>>
  BY <1>1, <1>2 DEF CipherInv, SealedBelow, OnlyConfirmed, Indices
<1>3. CASE /\ ~NotReady /\ check_and_record(index) /\ decision' = "Accept"
           /\ \/ intact /\ opened' = opened \cup {index} /\ UNCHANGED burnt
              \/ ~intact /\ burnt' = burnt \cup {index} /\ UNCHANGED opened
  <2>1. accepted' = accepted \cup {index}
    BY <1>3 DEF check_and_record, CheckFirst, CheckNewer, CheckTooOld, CheckDuplicate,
                CheckLate, Accept, Reject
  <2>2. accepted' = (opened \cup burnt)'
    BY <1>3, <2>1 DEF CipherInv
  <2>3. intact => sealed[index] = 1
    BY DEF CipherInv, SealedBelow
  <2>4. opened' \subseteq {i \in Indices : sealed'[i] = 1}
    BY <1>1, <1>3, <2>3 DEF CipherInv
  <2>5. status["rx"] = "Confirmed"
    BY <1>3 DEF NotReady, can_transport_media
  <2>6. OnlyConfirmed'
    BY <1>1, <2>5 DEF OnlyConfirmed, CipherInv
  <2>7. QED
    BY <1>1, <2>2, <2>4, <2>6 DEF CipherInv, SealedBelow, Indices
<1>4. CASE check_and_record(index) /\ decision' = "Reject" /\ UNCHANGED <<opened, burnt>>
  <2>1. UNCHANGED accepted
    BY <1>4 DEF check_and_record, CheckFirst, CheckNewer, CheckTooOld, CheckDuplicate,
                CheckLate, Accept, Reject
  <2>2. QED
    BY <1>2, <1>4, <2>1
<1>5. QED
  BY <1>2, <1>3, <1>4 DEF decrypt_session_data, vars

LEMMA CipherNextInv == CipherInv /\ [CipherNext]_<<vars, cipher>> => CipherInv'
<1> SUFFICES ASSUME CipherInv, [CipherNext]_<<vars, cipher>> PROVE CipherInv'
  OBVIOUS
<1>1. CASE UNCHANGED <<vars, cipher>>
  BY <1>1 DEF vars, cipher, CipherInv, SealedBelow, OnlyConfirmed, Indices
<1>2. CASE CipherNext
  BY <1>2, SetStatusInv, EncryptInv, DecryptInv DEF CipherNext, Arrives, ArrivesDamaged
<1>3. QED
  BY <1>1, <1>2

\* The inductive invariant of the two ciphers: the sealed indices are those below
\* the counter of encrypt_session_data.
THEOREM CipherInvariance == CipherSpec => []CipherInv
<1>1. CipherInit => CipherInv
  BY CipherInitInv
<1>2. CipherInv /\ [CipherNext]_<<vars, cipher>> => CipherInv'
  BY CipherNextInv
<1>3. QED
  BY <1>1, <1>2, PTL DEF CipherSpec

-----------------------------------------------------------------------------
\* No nonce seals twice up to and at the index limit, only what was sealed once
\* is opened, and neither before the session is confirmed, whatever the
\* transport does with the records.
THEOREM NonceNeverReused == CipherSpec => []NonceUnique
<1>1. CipherInv => NonceUnique
  BY DEF CipherInv, SealedBelow, OnlyConfirmed, NonceUnique, Indices
<1>2. QED
  BY <1>1, CipherInvariance, PTL

\* The window inside the cipher is one of ReplayWindow: all that is proved of
\* the window holds of the one that decrypt_session_data asks.
THEOREM CipherUsesWindow == CipherSpec => Spec
<1>1. CipherInit => Init
  BY DEF CipherInit
<1>2. [CipherNext]_<<vars, cipher>> => [Next]_vars
  BY CipherStepsWindow
<1>3. QED
  BY <1>1, <1>2, PTL DEF CipherSpec, Spec

\* What decrypt_session_data accepts is what the set of all accepted indices
\* would accept.
THEOREM CipherRefines == CipherSpec => ImplementsReplaySpec
BY CipherUsesWindow, Refinement, PTL

\* A refused record has its reason: it was taken before, or something a whole
\* window ahead of it was.
LEMMA RefusalStep ==
    ASSUME IInv, CipherInv, [CipherNext]_<<vars, cipher>>,
           outcome' = "Rejected", vars' # vars
    PROVE  \/ asked' \in opened \cup burnt
           \/ \E seen \in opened \cup burnt : seen - asked' >= Size
<1>1. PICK index \in Indices : check_and_record(index) /\ decision' = "Reject"
  <2>1. ASSUME NEW end \in {"tx", "rx"}, NEW s \in Statuses, set_status(end, s) PROVE FALSE
    BY <2>1 DEF set_status
  <2>2. ASSUME encrypt_session_data PROVE FALSE
    BY <2>2 DEF encrypt_session_data
  <2>3. ASSUME NEW index \in Indices, NEW intact \in BOOLEAN,
               decrypt_session_data(index, intact)
        PROVE  check_and_record(index) /\ decision' = "Reject"
    BY <2>3 DEF decrypt_session_data
  <2>4. QED
    BY <2>1, <2>2, <2>3 DEF CipherNext, Arrives, ArrivesDamaged
<1>2. UNCHANGED <<window, accepted>>
  BY <1>1 DEF check_and_record, CheckFirst, CheckNewer, CheckTooOld, CheckDuplicate,
              CheckLate, Accept, Reject
<1>3. ~ UNCHANGED Abstract!vars
  BY <1>2 DEF Abstract!vars, vars
<1>4. [Next]_vars
  BY <1>1 DEF Next
<1>5. PICK i \in Indices : Abstract!Check(i)
  BY <1>3, <1>4, StepRefines DEF Abstract!Next
<1>6. asked' = i /\ ~ Abstract!Acceptable(i)
  BY <1>1, <1>5 DEF Abstract!Check
<1>7. i \in accepted \/ \E seen \in accepted : ~(seen - i < Size)
  BY <1>6 DEF Abstract!Acceptable
<1>8. accepted \subseteq Int /\ i \in Int /\ Size \in Int
  BY Sizes DEF IInv, TypeOK, Indices
<1>9. accepted = opened \cup burnt
  BY DEF CipherInv
<1>10. QED
  BY <1>6, <1>7, <1>8, <1>9

\* No record is refused by the window without a reason.
THEOREM RefusalsExplained == CipherSpec => RefusalExplained
<1>1. IInv /\ CipherInv /\ [CipherNext]_<<vars, cipher>> =>
        [outcome' = "Rejected" /\ vars' # vars =>
          \/ asked' \in opened \cup burnt
          \/ \E seen \in opened \cup burnt : seen - asked' >= Size]_<<vars, cipher>>
  BY RefusalStep
<1>2. CipherSpec => []IInv
  BY CipherUsesWindow, Invariance, PTL
<1>3. QED
  BY <1>1, <1>2, CipherInvariance, PTL DEF CipherSpec, RefusalExplained
=============================================================================
