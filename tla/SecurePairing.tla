----------------------------- MODULE SecurePairing -----------------------------
(***************************************************************************)
(* Pairing over a fresh QUIC connection: QuicAudioSink::connect_secure on the *)
(* emitter's side, QuicRenderReceiver::listen_secure and its thread on the    *)
(* other (sink.rs, receiver_server.rs), the Noise XX halves they run over the *)
(* first stream (secure.rs, noise.rs, identity.rs) and the first frames that  *)
(* follow.  A plain emitter may dial a secure listener, a secure emitter a    *)
(* plain listener, and either side may pin a key the other no longer has.     *)
(* Keys are their derivations: a transcript is the tuple of the public keys   *)
(* exchanged, a session key is its label and its transcript.                 *)
(***************************************************************************)
EXTENDS Integers, Sequences

CONSTANTS
    Identities,  \* ed25519 identities; the emitter's is Emitter
    Emitter,
    Window       \* frames the lane holds before a send has to wait

ASSUME PairingAssumption == Emitter \in Identities /\ Window \in Nat \ {0}

VARIABLES
    setup,   \* who is configured how: fixed
    ini,     \* the emitter
    res,     \* the listener's thread
    conn,    \* the connection as either end sees it: "none", "up" or "closed"
    up,      \* items on the handshake stream, towards the listener
    down,    \* and towards the emitter
    lane,    \* items of the frame streams, in order
    waiter   \* the shell in QuicRenderReceiver::wait

pairVars == <<setup, ini, res, conn, up, down, lane, waiter>>

None == << >>

\* The two public halves of an identity: the ed25519 key it is known by and
\* the X25519 static key it derives for Noise.
public_bytes(id)  == <<"ed25519", id>>
static_public(id) == <<"x25519", id>>
Pins == {None} \cup {static_public(id) : id \in Identities}
               \cup {public_bytes(id) : id \in Identities}

\* "secure" pairs, "stream" and "datagram" are plain emitters on either lane.
Setups == [kind : {"secure", "stream", "datagram"}, tier : {"Free", "Pro"},
           codec : {"flac", "opus"}, listens : {"secure", "plain"},
           ini_pin : Pins, res_pin : Pins, res_id : Identities \ {Emitter},
           peer_wait : BOOLEAN]

PairInit ==
    /\ setup \in Setups
    /\ setup.kind = "secure" \/ setup.ini_pin = None
    /\ setup.listens = "secure" \/ (setup.res_pin = None /\ setup.kind = "secure")
    /\ setup.kind = "secure" \/ (setup.codec = "opus") = (setup.kind = "datagram")
    /\ ini = [state |-> "start", result |-> "none", peer |-> None, key |-> None]
    /\ res = [state |-> "accepting", result |-> "none", peer |-> None, key |-> None,
              rendered |-> FALSE]
    /\ conn = [ini |-> "none", res |-> "none"] /\ up = << >> /\ down = << >> /\ lane = << >>
    /\ waiter = "waiting"

-----------------------------------------------------------------------------
(***************************************************************************)
(* Noise.                                                                  *)
(***************************************************************************)

\* The three messages: each carries what its sender reveals with it.
Msg1 == [magic |-> TRUE, ephemeral |-> "e_ini"]
Msg2 == [ephemeral |-> "e_res", static |-> static_public(setup.res_id)]
Msg3 == [static |-> static_public(Emitter)]

\* transcript_from, read before the split: both halves have hashed the same
\* public keys in the same order.
transcript(res_static, ini_static) == <<"e_ini", "e_res", res_static, ini_static>>

\* verify_peer_static: the pin is compared with the X25519 static key.
Matches(pin, static) == pin = None \/ pin = static

\* derive_session_keys: four keys, told apart by plane and direction, of the
\* split keys and the session id, both read off the transcript.
derive_session_keys(t) ==
    [label \in {"control_tx", "control_rx", "media_tx", "media_rx"} |-> <<label, t>>]

\* MUTANT: each side picks the key by its own label of the direction.
finish_session_ByDirection(t, role) ==
    derive_session_keys(t)[IF role = "initiator" THEN "media_tx" ELSE "media_rx"]

\* finish_session: whatever the role and the direction, the media ciphers of
\* both peers are built on media_tx.
finish_session(t, role) == derive_session_keys(t)["media_tx"]

\* The shell and the thread let go of the connection when they end.  The other
\* end learns of it later.
Closed(end) == [conn EXCEPT ![end] = IF @ = "up" THEN "closed" ELSE @]
IniEnds(result) ==
    /\ ini' = [ini EXCEPT !.state = "over", !.result = result]
    /\ conn' = Closed("ini")
ResEnds(result) ==
    /\ res' = [res EXCEPT !.state = "done", !.result = result]
    /\ conn' = Closed("res")

\* MUTANT: the close of the listener never reaches the emitter.
CloseSeen_OneWay ==
    /\ conn.res = "up" /\ conn.ini = "closed"
    /\ conn' = Closed("res")
    /\ UNCHANGED <<setup, ini, res, up, down, lane, waiter>>

\* The close frame arrives, or the idle timeout of QUIC stands in for it.
CloseSeen ==
    \E end \in {"ini", "res"}, other \in {"ini", "res"} :
        /\ conn[end] = "up" /\ conn[other] = "closed"
        /\ conn' = Closed(end)
        /\ UNCHANGED <<setup, ini, res, up, down, lane, waiter>>

-----------------------------------------------------------------------------
(***************************************************************************)
(* The emitter.                                                            *)
(***************************************************************************)

\* connect_secure refuses Opus; the tier refuses a lossless lane.  Nothing has
\* been dialled.
ConnectRefused ==
    /\ ini.state = "start"
    /\ \/ setup.kind = "secure" /\ setup.codec = "opus" /\ IniEnds("Format")
       \/ setup.codec = "flac" /\ setup.tier = "Free" /\ IniEnds("Policy")
    /\ UNCHANGED <<setup, res, up, down, lane, waiter>>

Admitted == \/ setup.codec = "flac" /\ setup.tier = "Pro"
            \/ setup.codec = "opus" /\ setup.kind # "secure"

dial_loopback ==
    /\ ini.state = "start" /\ Admitted
    /\ res.state = "accepting" /\ conn.res = "none"
    /\ conn' = [ini |-> "up", res |-> "up"]
    /\ ini' = [ini EXCEPT !.state = IF setup.kind = "secure" THEN "hello" ELSE "live"]
    /\ UNCHANGED <<setup, res, up, down, lane, waiter>>

\* Nobody answers within 5 s.
DialFails ==
    /\ ini.state = "start" /\ Admitted
    /\ IniEnds("Send")
    /\ UNCHANGED <<setup, res, up, down, lane, waiter>>

write_hello ==
    /\ ini.state = "hello"
    /\ IF conn.ini = "up"
       THEN /\ up' = Append(up, Msg1)
            /\ ini' = [ini EXCEPT !.state = "await2"]
            /\ UNCHANGED conn
       ELSE IniEnds("Send") /\ UNCHANGED up
    /\ UNCHANGED <<setup, res, down, lane, waiter>>

\* The initiator's half after message 2.
Completed(m) ==
    /\ up' = Append(up, Msg3)
    /\ ini' = [ini EXCEPT !.state = "session", !.peer = m.static,
                  !.key = finish_session(transcript(m.static, static_public(Emitter)),
                                         "initiator")]
    /\ UNCHANGED conn

\* MUTANT: the pin is checked by the responder only.
complete_after_msg2_Unpinned(m) ==
    \/ conn.ini = "up" /\ Completed(m)
    \/ conn.ini = "closed" /\ IniEnds("Send") /\ UNCHANGED up

\* Message 3 is written into a buffer before the peer's static key is compared
\* with the pin, and sent after.  The initiator then has its session: nothing
\* comes back from the responder.
complete_after_msg2(m) ==
    \/ ~Matches(setup.ini_pin, m.static) /\ IniEnds("FingerprintMismatch") /\ UNCHANGED up
    \/ Matches(setup.ini_pin, m.static) /\ conn.ini = "up" /\ Completed(m)
    \/ /\ Matches(setup.ini_pin, m.static) /\ conn.ini = "closed"
       /\ IniEnds("Send") /\ UNCHANGED up

ReadMsg2 ==
    /\ ini.state = "await2" /\ down # << >>
    /\ complete_after_msg2(Head(down))
    /\ down' = Tail(down)
    /\ UNCHANGED <<setup, res, lane, waiter>>

\* Message 2 does not arrive within 5 s, or the connection is closed under it.
IniReadFails ==
    /\ ini.state = "await2"
    /\ IniEnds("Send")
    /\ UNCHANGED <<setup, res, up, down, lane, waiter>>

Live == ini.state \in {"session", "live"}

\* A frame, sealed in a session.  A stream waits for room, a datagram that
\* finds none is gone; on a closed connection the send fails and the shell
\* gives the sink up.
EmitFrame ==
    /\ Live
    /\ \/ /\ conn.ini = "up" /\ Len(lane) < Window
          /\ lane' = Append(lane, [item |-> setup.kind, key |-> ini.key])
          /\ UNCHANGED <<ini, conn>>
       \/ /\ conn.ini = "up" /\ Len(lane) = Window /\ setup.kind = "datagram"
          /\ UNCHANGED <<ini, conn, lane>>
       \/ conn.ini = "closed" /\ IniEnds("Send") /\ UNCHANGED lane
    /\ UNCHANGED <<setup, res, up, down, waiter>>

\* finish: the end marker, 50 ms, and the sink is dropped with its runtime.  Ok
\* says nothing of the listener: it may never have accepted the session.
FinishSink ==
    /\ Live
    /\ \/ /\ conn.ini = "up" /\ Len(lane) < Window
          /\ lane' = Append(lane, [item |-> "End"])
          /\ IniEnds("Ok")
       \/ conn.ini = "closed" /\ IniEnds("Send") /\ UNCHANGED lane
    /\ UNCHANGED <<setup, res, up, down, waiter>>

\* A shell that drops the sink without finishing it, or dies.
DropSink ==
    /\ conn.ini = "up" /\ ini.state # "over"
    /\ IniEnds("Dropped")
    /\ UNCHANGED <<setup, res, up, down, lane, waiter>>

-----------------------------------------------------------------------------
(***************************************************************************)
(* The listener.  An item that has arrived can still be read after the        *)
(* connection is closed; one that has not is lost, and which is which is not  *)
(* known: while it waits, a read may fail at any time.                        *)
(***************************************************************************)

\* run_listener, run_listener_secure: WDR_PEER_WAIT_SECS bounds the wait for a
\* peer, when it is set.
PeerWaitElapses ==
    /\ res.state = "accepting" /\ setup.peer_wait
    /\ ResEnds("EndTimeout")
    /\ UNCHANGED <<setup, ini, up, down, lane, waiter>>

AcceptConn ==
    /\ res.state = "accepting" /\ conn.res # "none"
    /\ IF conn.res = "up"
       THEN /\ res' = [res EXCEPT !.state =
                          IF setup.listens = "secure" THEN "first" ELSE "plain"]
            /\ UNCHANGED conn
       ELSE ResEnds("Internal")
    /\ UNCHANGED <<setup, ini, up, down, lane, waiter>>

\* A plain listener finds the magic where it expects a frame header.
SniffMagic ==
    /\ res.state = "plain" /\ up # << >>
    /\ ResEnds("Framing")
    /\ UNCHANGED <<setup, ini, up, down, lane, waiter>>

\* The first stream of a plain emitter on the reliable lane is a frame.
NotSecure ==
    /\ res.state = "first" /\ setup.kind = "stream" /\ lane # << >>
    /\ ResEnds("NotSecure")
    /\ UNCHANGED <<setup, ini, up, down, lane, waiter>>

read_hello ==
    /\ res.state = "first" /\ up # << >>
    /\ up' = Tail(up)
    /\ \/ /\ conn.res = "up"
          /\ down' = Append(down, Msg2)
          /\ res' = [res EXCEPT !.state = "await3"]
          /\ UNCHANGED conn
       \/ conn.res = "closed" /\ ResEnds("Transport") /\ UNCHANGED down
    /\ UNCHANGED <<setup, ini, lane, waiter>>

\* The responder's half after message 3.
complete_after_msg3(m) ==
    \/ ~Matches(setup.res_pin, m.static) /\ ResEnds("FingerprintMismatch")
    \/ /\ Matches(setup.res_pin, m.static)
       /\ res' = [res EXCEPT !.state = "sniff", !.peer = m.static,
                     !.key = finish_session(transcript(static_public(setup.res_id), m.static),
                                            "responder")]
       /\ UNCHANGED conn

ReadMsg3 ==
    /\ res.state = "await3" /\ up # << >>
    /\ complete_after_msg3(Head(up))
    /\ up' = Tail(up)
    /\ UNCHANGED <<setup, ini, down, lane, waiter>>

\* MUTANT: the accept of the first stream is not woken by the end of the
\* connection.
ResReadFails_FirstForever ==
    /\ \/ res.state \in {"plain", "await3", "sniff", "lane"}
       \/ res.state = "first" /\ up # << >>
    /\ ResEnds("EndTimeout")
    /\ UNCHANGED <<setup, ini, up, down, lane, waiter>>

\* Every read and the probe for the first frame are bounded in time; the
\* accept of the first stream is not, and only the end of the connection wakes
\* it: a datagram emitter keeps a secure listener there for as long as it runs.
ResReadFails ==
    /\ \/ res.state \in {"plain", "await3", "sniff", "lane"}
       \/ res.state = "first" /\ (up # << >> \/ conn.res = "closed")
    /\ ResEnds("EndTimeout")
    /\ UNCHANGED <<setup, ini, up, down, lane, waiter>>

\* run_lane_secure: the first item must be a frame that opens; a later frame
\* that does not is dropped; the end marker ends the stream.
ReadLane ==
    /\ res.state \in {"sniff", "lane"} /\ lane # << >>
    /\ LET i == Head(lane)
       IN  \/ i.item = "End" /\ ResEnds(IF res.state = "sniff" THEN "Internal" ELSE "Ok")
           \/ /\ i.item # "End"
              /\ IF i.key = res.key
                 THEN /\ res' = [res EXCEPT !.state = "lane", !.rendered = TRUE]
                      /\ UNCHANGED conn
                 ELSE IF res.state = "sniff" THEN ResEnds("Internal")
                 ELSE UNCHANGED <<res, conn>>
    /\ lane' = Tail(lane)
    /\ UNCHANGED <<setup, ini, up, down, waiter>>

-----------------------------------------------------------------------------
\* QuicRenderReceiver::wait: the outcome the thread has sent, or the timeout.
Wait ==
    /\ waiter = "waiting"
    /\ \/ res.state = "done" /\ waiter' = res.result
       \/ res.state # "done" /\ waiter' = "timed out"
    /\ UNCHANGED <<setup, ini, res, conn, up, down, lane>>

EmitterNext == \/ ConnectRefused \/ dial_loopback \/ DialFails
               \/ write_hello \/ ReadMsg2 \/ IniReadFails
               \/ EmitFrame \/ FinishSink \/ DropSink
ListenerNext == \/ PeerWaitElapses \/ AcceptConn \/ SniffMagic \/ NotSecure
                \/ read_hello \/ ReadMsg3 \/ ResReadFails \/ ReadLane

PairNext == EmitterNext \/ ListenerNext \/ CloseSeen \/ Wait

\* Both ends run, and a capture goes on for ever: nothing makes the shell
\* finish or drop its sink.
PairSpec == /\ PairInit /\ [][PairNext]_pairVars
        /\ WF_pairVars(dial_loopback \/ DialFails \/ write_hello)
        /\ WF_pairVars(ReadMsg2 \/ IniReadFails)
        /\ WF_pairVars(EmitFrame) /\ WF_pairVars(ListenerNext) /\ WF_pairVars(CloseSeen)

-----------------------------------------------------------------------------
(***************************************************************************)
(* Properties                                                              *)
(***************************************************************************)

\* The responder's pairing is never one-sided: when it has a session, the
\* initiator completed the same handshake, each holds the other's static key,
\* and the two media ciphers are on one key, so that no frame fails to open.
Agreement ==
    res.key # None =>
        /\ ini.key = res.key
        /\ ini.peer = static_public(setup.res_id) /\ res.peer = static_public(Emitter)

\* A peer with a pin never has a session with another key, whichever of the two
\* finds the mismatch, and then nothing is rendered, though the initiator
\* believes it is paired when the mismatch is the responder's to find.
PinRespected ==
    /\ ini.key # None => Matches(setup.ini_pin, static_public(setup.res_id))
    /\ res.rendered =>
        /\ Matches(setup.ini_pin, static_public(setup.res_id))
        /\ Matches(setup.res_pin, static_public(Emitter))
        /\ setup.kind = "secure" /\ setup.tier = "Pro" /\ setup.codec = "flac"

\* A listener that has accepted a connection comes to a decision, whether the
\* peer falls silent, dies or speaks the plain protocol.  The exception is the
\* peer that only sends datagrams: it holds a secure listener in its unbounded
\* accept for as long as it streams.
ListenerDecides ==
    (res.state \in {"first", "await3", "plain"} /\ setup.kind # "datagram")
        ~> (res.state \in {"sniff", "lane", "done"})

\* An initiator alone with its session (the responder refused message 3, or
\* never read it) finds out, without being told in the handshake, by streaming.
OrphanEnds == (ini.state = "session" /\ res.state = "done") ~> (ini.state = "over")

-----------------------------------------------------------------------------
(***************************************************************************)
(* The inductive strengthening of Agreement and PinRespected: what may be on *)
(* its way between the two, at every stage of the handshake.               *)
(***************************************************************************)
Undecided == {"accepting", "first", "plain"}

SharedKey ==
    finish_session(transcript(static_public(setup.res_id), static_public(Emitter)), "initiator")

IniHasSession ==
    /\ ini.key = SharedKey /\ ini.peer = static_public(setup.res_id)
    /\ Matches(setup.ini_pin, static_public(setup.res_id))
    /\ setup.kind = "secure" /\ setup.tier = "Pro" /\ setup.codec = "flac"

ResHasSession ==
    /\ IniHasSession
    /\ res.key = SharedKey /\ res.peer = static_public(Emitter)
    /\ Matches(setup.res_pin, static_public(Emitter))

Shapes ==
    /\ ini = [state |-> ini.state, result |-> ini.result, peer |-> ini.peer, key |-> ini.key]
    /\ res = [state |-> res.state, result |-> res.result, peer |-> res.peer, key |-> res.key,
              rendered |-> res.rendered]

InFlight ==
    /\ up # << >> => \/ up = <<Msg1>> /\ res.state \in Undecided \cup {"done"}
                     \/ up = <<Msg3>> /\ IniHasSession
    /\ down # << >> => down = <<Msg2>> /\ up = << >>
    /\ res.state \in Undecided => down = << >> /\ up \in {<< >>, <<Msg1>>}
    /\ ini.state \in {"start", "hello", "live"} =>
          up = << >> /\ down = << >> /\ ini.key = None /\ res.state \in Undecided \cup {"done"}

Sessions ==
    /\ ini.state \in {"hello", "await2", "session"} =>
          setup.kind = "secure" /\ setup.tier = "Pro" /\ setup.codec = "flac"
    /\ ini.key # None => IniHasSession
    /\ res.key # None => ResHasSession
    /\ res.state \in {"sniff", "lane"} \/ res.rendered => res.key # None

PairInv == Shapes /\ InFlight /\ Sessions
=============================================================================
