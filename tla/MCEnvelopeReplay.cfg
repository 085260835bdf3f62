SPECIFICATION MCSpec
CONSTANTS
    Caller = {c1, c2}
    Envelope <- MCEnvelopes
    Key = {"k1"}
    Kid = {"kid", "short", "stranger"}
    Issuer = {"iss", "short", "stranger"}
    Jti = {"j1"}
    KeyNotAfter <- MCKeys
    IssuerNotAfter <- MCIssuers
    MaxClockSkew = 1
    MaxEnvelopeTtl = 3
    MaxCapabilityTtl = 3
    NoFlaw = NoFlaw
    NoEnvelope = NoEnvelope
    MaxClock = 4
    MaxCalls = 3
    MaxSinkFailures = 2
    Process = {"w1", "w2"}
    CA = {"ca", "other"}
    CaDomain <- MCCaDomain
    CaName <- MCCaName
    SpiffeId = {"p", "o"}
    IdDomain <- MCIdDomain
    Endpoint = {"e1", "e2"}
    Foreign <- MCForeign
    SvidTtl = 1
    TlsHorizon = 2
    MaxOpens = 3
    MaxSends = 2
    MaxDeaths = 1
    Nobody = Nobody
INVARIANTS AcceptedOnce
CHECK_DEADLOCK FALSE
