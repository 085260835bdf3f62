SPECIFICATION MCSpec
CONSTANTS
    Receipts <- MCReceipts
    Capabilities <- MCCapabilities
    NoParent = NoParent
    MaxChainDepth = 3
    MaxReceiptTtl = 3
    MaxClockSkew = 1
    MaxTime = 6
    Tokens <- MCTokens
    Sessions = {"s", "t"}
    NoJti = NoJti
    NoToken = NoToken
    MaxTokenTtl = 3
    MaxSessionLifetime = 4
    Tasks = {"t1", "t2"}
    Exp <- MCExp
    Jti <- MCJti
    Policy <- MCPolicy
    Epochs = {"e1", "e2"}
    NoEpoch = NoEpoch
    Thread = {one, two}
    Calls <- MCCalls
    Grants <- MCGrants
    PolicyMaxTtl = 2
    IssuerSkew = 1
    AllowedCallers = {"alice"}
    LowRiskTools <- MCLowRiskTools
    StepUpTools <- MCStepUpTools
    AllowedWorkloads = {"w1"}
    AcceptedVersions = {"v0"}
    AlertWindow = 1
    Threshold <- MCThreshold
    MaxDecisionTime = 2
    MaxDecisions = 3
    MaxFaults = 1
    Nobody = Nobody
    Revoker = {"r1", "r2"}
    Checker = {"c1"}
    Revocable = {"j1", "j2"}
    MaxRevocations = 4
    MaxBrokenWrites = 1
SYMMETRY ThreadSymmetry
INVARIANTS
    ChainSound
    ChainStrict
    AnswersOnRecord
    NoBurstMissed
    RevocationStands
PROPERTIES
    CommitsAuthorized
CHECK_DEADLOCK FALSE
