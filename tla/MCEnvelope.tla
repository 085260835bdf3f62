---------------------------- MODULE MCEnvelope ----------------------------
(***************************************************************************)
(* Small instances of the two layers that authenticate a message:          *)
(* EnvelopeVerifier, and MutualTls for the channel.                        *)
(***************************************************************************)
EXTENDS EnvelopeVerifier, Functions, TLC

CONSTANTS
    Process, CA, CaDomain, CaName, SpiffeId, IdDomain, Endpoint, Foreign, SvidTtl,
    TlsHorizon, MaxOpens, MaxSends, MaxDeaths, Nobody

VARIABLES
    workload,     \* what a behaviour exercises, see below
    seconds, identity, listening, conn, frames, ended, opens, sends, deaths

T == INSTANCE MutualTls WITH clock <- seconds, Workload <- Process, Id <- SpiffeId,
                             MaxTime <- TlsHorizon

ASSUME TlsAssumption == T!TlsConstants

\* An envelope that passes every check that is not about time.
Genuine(k, j, iat, exp) ==
    [key |-> k, kid |-> "kid", issuer |-> "iss", jti |-> j,
     issued_at |-> iat, expires_at |-> exp, nbf |-> iat, exp |-> exp,
     flaw |-> NoFlaw]

\* The genuine envelope, a copy that fails one check, and a second envelope
\* the sender built with the same nonce and a longer life.
RaceEnvelopes ==
    {Genuine("k1", "j1", 1, 2), Genuine("k1", "j1", 1, 3),
     [Genuine("k1", "j1", 1, 2) EXCEPT !.flaw = "capability_binding_mismatch"]}

\* One envelope of every fate.
FateEnvelopes ==
    {Genuine("k1", "j1", 1, 3)}
    \cup {[Genuine("k1", "j1", 1, 3) EXCEPT !.kid = "short"],
          [Genuine("k1", "j1", 1, 3) EXCEPT !.issuer = "short"]}
    \cup {[Genuine("k1", "j1", 1, 3) EXCEPT !.flaw = f] :
             f \in {"missing_required_field", "payload_digest_mismatch",
                    "signature_invalid", "capability_signature_invalid",
                    "revocation_list_corrupt"}}
    \cup {[Genuine("k1", "j1", 1, 3) EXCEPT !.kid = "stranger"],
          [Genuine("k1", "j1", 1, 3) EXCEPT !.issuer = "stranger"],
          Genuine("k1", "j1", 3, 1),
          Genuine("k1", "j1", 0, 4),
          [Genuine("k1", "j1", 1, 3) EXCEPT !.exp = 0, !.nbf = 0],
          [Genuine("k1", "j1", 1, 3) EXCEPT !.exp = 6]}

\* The keys of the fate envelopes expire within the bound.
MCKeys == [k \in {"kid", "short"} |-> IF k = "short" THEN 3 ELSE MaxClock]
MCIssuers == [i \in {"iss", "short"} |-> IF i = "short" THEN 2 ELSE MaxClock]

\* Two CAs that call themselves the same and claim the same domain, an id of
\* another domain, and a certificate that may sign others and names two ids.
MCCaDomain == [ca |-> "x", other |-> "x"]
MCCaName == [ca |-> "wt-workload-ca", other |-> "wt-workload-ca"]
MCIdDomain == [p |-> "x", o |-> "y"]
MCForeign == {[id |-> "p", ca |-> "ca", sans |-> 2, usage |-> "cert_sign"]}

-----------------------------------------------------------------------------
MCEnvelopes == RaceEnvelopes \cup FateEnvelopes

InRace == Range(env) \subseteq RaceEnvelopes \cup {NoEnvelope} /\ failures = {}

InFates ==
    /\ Cardinality({c \in Caller : pc[c] # "idle"}) <= 1
    /\ Range(env) \subseteq FateEnvelopes \cup {NoEnvelope}
    /\ calls <= 2

tlsVars == <<seconds, identity, listening, conn, frames, ended, opens, sends, deaths>>

\* A behaviour exercises callers racing on one nonce, or envelopes of every fate,
\* one at a time, with a failing audit sink; or the channel.
MCInit == Init /\ T!Init /\ workload \in {"race", "fates", "channel"}

MCNext ==
    /\ UNCHANGED workload
    /\ \/ workload = "race" /\ Next /\ InRace' /\ UNCHANGED tlsVars
       \/ workload = "fates" /\ Next /\ InFates' /\ UNCHANGED tlsVars
       \/ workload = "channel" /\ T!Next /\ UNCHANGED vars

MCSpec == MCInit /\ [][MCNext]_<<vars, workload, tlsVars>>

ChannelAuthentic == T!ChannelAuthentic

CallerSymmetry == Permutations(Caller)
=============================================================================
