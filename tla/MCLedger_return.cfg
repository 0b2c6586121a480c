CONSTANTS
    Messages <- MCMessages
    Header <- MCHeader
    MasterShard = 9
    Anchors <- MCAnchors
    Candidates <- MCCandidates
    MaxBatch = 2
    MaxBalance = 1
    MaxLt = 2
    Bodies = {0}
    Offers <- MCOffers
    U64 = 256
    MaxLoadFactor = 1000
    ValidatorCap = 2
    EpochsPerYear = {0, 1}
    Fees = {5}
    MaxCandidates = 3
    MaxSlashes = 2
    Depth = 2
    MaxPrefix = 2
    Genesis <- MCGenesis
    Pending <- MCPending
    Owners <- MCOwners
    SplitWindow = 1
    MergeWindow = 1
    PrepareLead = 1
    MaxHeight = 4
    MaxEpoch = 1
    MaxRoutePrefix = 2
    Amounts = {0, 5}
    HopFees = {1, 2}
    MaxFee = 5
    Programs <- MCPrograms
    MaxStackDepth = 4
    IntBits = 3
    Parts = {"vm"}
SPECIFICATION LedgerSpec
CHECK_DEADLOCK FALSE
INVARIANT ReturnResumesCaller
