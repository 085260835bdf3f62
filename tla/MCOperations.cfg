SPECIFICATION MCSpec
CONSTANTS
    Kind <- MCKind
    Triggers <- MCTriggers
    Approvals <- MCApprovals
    MaxSkew = 1
    MaxTtl = 2
    MaxTime = 4
    MaxTransitions = 4
    Bundles <- MCBundles
    Request = {"r1", "r2"}
    Sampled = {"r1", "r2"}
    FirstPolicy = {"r1", "r2"}
    RollbackAfterDenials = 2
    Torn = Torn
    NoBundle = NoBundle
    MaxCrashes = 2
    Broadcasts <- MCBroadcasts
    Policies <- MCPolicies
    Outputs <- MCOutputs
    Cells <- MCCells
    RestrictedNoExport = TRUE
    Decisions <- MCDecisions
    Workload = {"w1", "w2"}
    Kid = {"k1", "k2", "k3"}
    EntryId = {1, 2, 3}
    Attestations <- MCAttestations
    FirstKid <- MCFirstKid
    None = None
    ReviewSkew = 1
    MaxReviewTtl = 2
    MaxSinkFailures = 1
    Actor = {"a", "b"}
    TenantOf <- MCTenantOf
    Rules <- MCRules
    Purpose = {"support", "audit"}
    Budgets <- MCBudgets
    Segments <- MCSegments
    Findings <- MCFindings
    MaxObjects = 3
    MaxRetrievals = 2
    MaxMatches = 3
    Nothing = Nothing
INVARIANTS
    ModeFaithful
    SloExact
    LeavesCleared
    FlowBounded
    TextContained
PROPERTIES
    RolloutContained
    LiftedOnce
CHECK_DEADLOCK FALSE
