SPECIFICATION MCSpec
CONSTANTS
    Pools <- MCPools
    Budgets <- MCBudgets
    Reserved <- MCReserved
    Reserve <- MCReserve
    Ceilings <- MCCeilings
    InitBurst <- MCBurst
    Total = 6
    Cost = {1, 2}
    StressThreshold <- MCStress
    SlackThreshold <- MCSlack
    TransferFraction <- MCFraction
    CascadeMin = 2
    Identity = {"a", "b"}
    EffectiveLimit <- MCLimit
    Window = 2
    MaxTime = 5
    MaxBucket = 4
    Issuer = {"x", "y"}
    TenantOf <- MCTenantOf
    Admitter = {"p", "q"}
    Proofs <- MCProofs
    MaxPerIssuer = 1
    MaxPerTenant = 2
    MinReputation = 1
    InitialScore = 1
    Floor = 0
    Ceiling = 2
    MinWorkUnits = 1
    Nothing = Nothing
    MaxMinted = 4
    MintWindow = 1
    Retention = 1
    MaxDay = 2
    DecayInterval = 2
    DecayPerInterval = 1
    Amount = 1
INVARIANTS
    ReservedHeldAside
CHECK_DEADLOCK FALSE
