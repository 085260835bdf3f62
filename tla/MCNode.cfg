SPECIFICATION MCSpec
CONSTANTS
    Rules <- MCRules
    NoStepUp = NoStepUp
    GateSkew = 1
    MaxStepUpTtl = 3
    Identity = {"alice", "bob"}
    EffectiveLimit <- MCLimit
    Window = 1
    MaxBucket = 4
    Requests <- MCRequests
    Tools <- MCTools
    OutputOf <- MCOutputOf
    EgressAllows = {"low"}
    NoRequest = NoRequest
    MaxClockSkew = 1
    MaxTime = 2
    MaxRequests = 3
    MaxSinkFailures = 1
    Caller = {c1, c2}
    Key = {k1}
    Backends = {"memory", "sqlite"}
    Second = 2
    Ttls = {0, 1, 3}
    StartClock = 6
    MaxClock = 10
    Idle = Idle
    NoOne = NoOne
    Writer = {w1, w2}
    Body = {"b1", "b2"}
    MaxEvents = 4
    MaxBadWrites = 2
    Mail = {m1, m2}
    Reader = {r1, r2}
    Daemon = daemon
    Empty = Empty
    MaxFrames = 3
    MaxCrashes = 1
INVARIANTS
    RunsRightly
    
    InboxExact
PROPERTIES
    ForgeryCostsNothing
    KeepsContract
SYMMETRY Interchangeable
CHECK_DEADLOCK FALSE
