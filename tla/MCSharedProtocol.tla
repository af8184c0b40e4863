-------------------------- MODULE MCSharedProtocol --------------------------
(***************************************************************************)
(* The portable protocol library, each component with its own instance:    *)
(* both ends of an ESP-NOW session, the ESP-NOW requests, payloads and     *)
(* link keys, the command cache and the replay window.  They share no      *)
(* state in the code, so a behaviour moves one of them, `part`, and leaves *)
(* the others at one initial state: all are explored, their product is not.*)
(***************************************************************************)
EXTENDS SequenceReplay, FiniteSets

CONSTANTS
    Keys, CacheCapacity, RetentionMs, MaxGeneration, Results, CacheTtls, MaxTime,
                                                        \* CacheService
    SessionTypes, Protections, SessionModulus, SessionWindow, TimeModulus,
    SessionStart, SessionEnd, SampleTarget, RxLimit, ErrorLimit, ErrorPeriod,
    FailureLimit, BackoffBase, BackoffSteps, BackoffMax, MaxAge, MaxSequence,
    InFlight, MaxSessions,                              \* EspNowSession
    QosSlots, MaxAttempts, Initial, Shortest, Longest, Margin, QosModulus,
    QosTtls, Tokens, Requests, QosStart, QosEnd, FirstSequence,
                                                        \* EspNowQos
    KeyGenerations, Roots                               \* LinkKeys

VARIABLES
    part,
    cache, clock, handles, admitted,                    \* CacheService
    now, link, peer, air, held, delivered, acked, failed, syncedAt,
                                                        \* EspNowSession
    time, pending, srtt, sequence, ended, sent, heard,  \* EspNowQos
    kind, payload,                                      \* EspNowCodec
    store, ready                                        \* LinkKeys

\* Two identities, one of them with two digests; two slots.
MCKeys == {[id |-> 1, digest |-> "a"], [id |-> 1, digest |-> "b"],
           [id |-> 2, digest |-> "a"]}

Cache == INSTANCE CacheService WITH Ttls <- CacheTtls, now <- clock

\* Two sessions with a full handshake, over the wrap of the clock.
Session == INSTANCE EspNowSession WITH
    Types <- SessionTypes, Modulus <- SessionModulus, WindowSize <- SessionWindow,
    StartNow <- SessionStart, MaxNow <- SessionEnd

\* Two requests with one token, over the wrap of clock and numbering.
Qos == INSTANCE EspNowQos WITH
    Slots <- QosSlots, Modulus <- QosModulus, Ttls <- QosTtls,
    StartNow <- QosStart, MaxNow <- QosEnd, now <- time

Codec == INSTANCE EspNowCodec WITH Units <- 0 .. 4, MaxSize <- 6, Critical <- 4

LinkStore == INSTANCE LinkKeys WITH Generations <- KeyGenerations

\* The instances satisfy what the theorems assume: the assumptions of the
\* modules, a window of which a session sees less than half a turn, clocks
\* seen for less than one turn (half a turn by the requests, whose deadlines
\* the code compares as signed differences), and fewer transmissions than
\* sequence numbers.
ASSUME CacheInstance ==
    /\ CacheCapacity \in Nat \ {0} /\ RetentionMs \in Nat \ {0} /\ MaxGeneration \in Nat \ {0}
    /\ Cache!ServiceAssumption
ASSUME SessionInstance ==
    /\ SessionTypes \subseteq {"PAIR_REQUEST", "HELLO", "CAPABILITIES", "TIME_SYNC",
                              "HEARTBEAT", "SNAPSHOT_REQUEST", "STATE_SNAPSHOT",
                              "COMMAND_REQUEST"}
    /\ Protections \subseteq BOOLEAN
    /\ SessionModulus \in Nat /\ SessionWindow \in Nat \ {0}
    /\ SessionModulus % 2 = 0 /\ 2 * SessionWindow <= SessionModulus
    /\ MaxSequence \in Nat /\ 2 * MaxSequence < SessionModulus
    /\ SampleTarget \in Nat \ {0} /\ RxLimit \in Nat /\ ErrorLimit \in Nat
    /\ MaxSessions \in Nat /\ InFlight \in Nat
    /\ TimeModulus \in Nat \ {0} /\ TimeModulus % 2 = 0
    /\ SessionStart \in Nat /\ SessionEnd \in Nat /\ SessionStart <= SessionEnd
    /\ SessionEnd - SessionStart < TimeModulus
    /\ FailureLimit \in Nat \ {0} /\ BackoffSteps \in Nat
    /\ \A k \in 0 .. BackoffSteps : BackoffBase * 2 ^ k \in Nat
    /\ BackoffMax \in Nat /\ 2 * BackoffMax <= TimeModulus
    /\ MaxAge \in Nat
ASSUME QosInstance ==
    /\ QosSlots \in Nat /\ MaxAttempts \in Nat \ {0}
    /\ {Initial, Shortest, Longest, Margin} \subseteq Nat
    /\ QosModulus \in Nat \ {0} /\ FirstSequence \in 0 .. QosModulus - 1
    /\ Requests * MaxAttempts \in Nat
    /\ Requests * MaxAttempts + QosSlots * (MaxAttempts - 1) < QosModulus
    /\ QosTtls \subseteq 0 .. (TimeModulus \div 2)
    /\ QosStart \in Nat /\ QosEnd \in Nat /\ QosStart <= QosEnd
    /\ QosEnd - QosStart < TimeModulus \div 2
    /\ TimeModulus \in Nat \ {0}

cacheVars  == <<cache, clock, handles, admitted>>
linkVars   == <<now, link, peer, air, held, delivered, acked, failed, syncedAt>>
qosVars    == <<time, pending, srtt, sequence, ended, sent, heard>>
codecVars  == <<kind, payload>>
keyVars    == <<store, ready>>
otherVars  == <<cacheVars, linkVars, qosVars, codecVars, keyVars>>

MCInit ==
    /\ part \in {"session", "cache", "replay", "qos", "codec", "keys"}
    /\ Init /\ Cache!Init /\ Qos!Init /\ LinkStore!Init
    /\ Session!Init /\ (part # "session" => Session!PeerRole = "CONTROLLER")
    /\ Codec!Init /\ (part # "codec" => kind = "TLV")

MCNext ==
    /\ UNCHANGED part
    /\ \/ part = "replay" /\ Next /\ UNCHANGED otherVars
       \/ /\ part # "replay" /\ UNCHANGED vars
          /\ \/ /\ part = "session" /\ Session!Next
                /\ UNCHANGED <<cacheVars, qosVars, codecVars, keyVars>>
             \/ /\ part = "cache" /\ Cache!Next
                /\ UNCHANGED <<linkVars, qosVars, codecVars, keyVars>>
             \/ /\ part = "qos" /\ Qos!Next
                /\ UNCHANGED <<cacheVars, linkVars, codecVars, keyVars>>
             \/ /\ part = "codec" /\ Codec!Next
                /\ UNCHANGED <<cacheVars, linkVars, qosVars, keyVars>>
             \/ /\ part = "keys" /\ LinkStore!Next
                /\ UNCHANGED <<cacheVars, linkVars, qosVars, codecVars>>

MCSpec == MCInit /\ [][MCNext]_<<part, vars, otherVars>>

-----------------------------------------------------------------------------
\* The state of every component has its type; a replay window holds exactly
\* the ages of the packets it accepted.
PartsTyped ==
    /\ part = "session" => Session!TypeOK
    /\ part = "cache" => Cache!TypeOK
    /\ part = "replay" => TypeOK /\ WindowMirrorsAccepted
    /\ part = "qos" => Qos!TypeOK
    /\ part = "keys" => LinkStore!TypeOK

\* A session is online only by a handshake of its own, and a frame is
\* acknowledged only if the application got it.
SessionEarned ==
    part = "session" => Session!ProgressIsEarned /\ Session!AckMeansDelivered

\* Nothing is accepted during the back-off, and no command without a recent
\* time sync of the session.
SessionGuarded == Session!LockoutHolds /\ Session!CommandIsFresh

\* One live cache entry speaks for an identity, its result is its own, and a
\* command is admitted once per retention time.
CacheSound ==
    part = "cache" => Cache!IdentityUnique /\ Cache!ResultBelongs /\ Cache!AdmittedOnce

\* A recorded result does not change.
ResultStable == Cache!ResultStable

\* A request has one true outcome and none is kept beyond its life; it goes on
\* the air only while it lives, and the round trip is that of the transmission
\* that was answered.
QosTrue ==
    /\ [](part = "qos" => Qos!EndsInTime /\ Qos!OneTrueOutcome)
    /\ Qos!NeverSentLate /\ Qos!SampleIsRoundTrip

\* A payload of one of the six contracts is accepted exactly if it is made of
\* what the contract says, and what a tag covers names one message.
CodecSound == part = "codec" => Codec!AcceptsExactly /\ Codec!CanonicalIsInjective

\* The active link key was ready, and only a newer one replaces it.
KeysAdvance == LinkStore!KeysAdvance
=============================================================================
