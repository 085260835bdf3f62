SPECIFICATION Spec
CONSTANTS
    a = a
    b = b
    c = c
    Node = {a, b, c}
    Started = {a, b}
    Seeds <- GateSeeds
    Policy <- AbPolicy
    Gated <- AllGated
    PeerTier <- ProdTiers
    PeerKey <- OwnKeys
    NoPin = NoPin
    NoTier = NoTier
    NoKey = NoKey
    SuspectAfter = 2
    DeadAfter = 1
    InboxCap = 1
    MaxIncarnation = 0
    MaxFaults = 2
INVARIANT TableBounded
