SPECIFICATION MCSpec
CONSTANTS
    NA = NA
    NB = NB
    NC = NC
    ND = ND
    none = none
    Node = {NA, NB, NC, ND}
    MsgId = {"m"}
    NoRoute = none
    DefaultTtl = 5
    Tables <- MCTables
    Admissions <- MCAdmissions
    MaxOriginations = 2
    MaxDuplicates = 1
    MaxChanges = 1
    Sender = {s1, s2}
    Frame = {"f1", "f2", "f3"}
    Dest = {"x", "y"}
    DestOf <- MCDestOf
    MaxConnections = 1
    Retries = 2
    MaxConns = 3
    MaxBreaks = 1
    NoOne = NoOne
    Records <- MCRecords
    Workload = {1, 2, 3, 4}
    DomainOf <- MCDomainOf
    AdmissionPolicy <- MCPolicy
    EnvTier = "prod"
    RecordSkew = 1
    MaxRecordTtl = 2
    LimiterWindow = 1
    MaxPerWindow = 1
    TargetCount = 2
    MaxPerTrustDomain = 1
    EvictionAge = 3
    NoRecord = NoRecord
    MaxTime = 4
    NoPin = NoPin
    NoTier = NoTier
    NoKey = NoKey
    Gateways = {"g1"}
    Watchers = {"w1", "w2"}
    Instance = {"r1", "r2", "v1", "u1"}
    Server = {"repo", "ws", "lan"}
    NameOf <- MCNameOf
    Tools = {"t"}
    Asked = {"t", "x"}
    Workspaces = {"ws", "lan"}
    Trusting = {"ws"}
    Allow = {"w1"}
    Ids = {"w1", "w2"}
    MaxCalls = 2
    MaxFailures = 1
    MaxEdits = 1
    Missing = Missing
    Empty = Empty
    Garbled = Garbled
    NoCall = NoCall
INVARIANTS
    RoutingSafe
    PoolSound
    NoRewind
    NotEclipsed
    AnswersExact
    RegistryTruthful
PROPERTIES
    EventuallyQuiet
CHECK_DEADLOCK FALSE
