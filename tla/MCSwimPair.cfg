SPECIFICATION FairSpec
CONSTANTS
    a = a
    b = b
    c = c
    Node = {a, b}
    Started = {a, b}
    Seeds <- PairSeeds
    Policy <- AbPolicy
    Gated <- NoGate
    PeerTier <- ProdTiers
    PeerKey <- OwnKeys
    NoPin = NoPin
    NoTier = NoTier
    NoKey = NoKey
    SuspectAfter = 1
    DeadAfter = 1
    InboxCap = 2
    MaxIncarnation = 1
    MaxFaults = 2
INVARIANTS IncarnationOwned
PROPERTIES RowsOnlyAdvance OneSidedDeathHeals CrashDetected
