SPECIFICATION NodeSpec
CONSTANTS
    Parts = {"rldp", "adnl", "dht", "journal", "cells", "channel"}
    Count = 3
    Redundancy = 2
    PacketsPerRound = 3
    MaxRounds = 3
    OldChunks = {0, 1}
    MaxAcks = 4
    Nodes = {1, 2, 3}
    Tasks = {"a", "b", "c"}
    Home <- MCHome
    Ids <- MCIds
    Faulty <- MCFaulty
    Forged <- MCForged
    Clients <- MCClients
    Bits = 3
    K = 2
    Alpha = 1
    Keys <- MCKeys
    Records <- MCRecords
    Bootstrap <- MCBootstrap
    MaxClock = 1
    MaxOps = 2
    Paths = {"x", "y", "root"}
    Values = {"a", "b"}
    Absent = Absent
    Batches <- MCBatches
    NoJournal = NoJournal
    Truncated = Truncated
    Unparsable = Unparsable
    MaxCrashes = 3
    Cells = {"r1", "r2", "m", "l"}
    Children <- MCChildren
    Shards = {s, t}
    Retainers = {p, q}
    None = None
    MaxRefs = 4
    Deposit = 1
    MaxSum = 1
    Window = 1
    MaxSeq = 3
    MaxLt = 3
    Never = Never
CHECK_DEADLOCK FALSE
INVARIANTS
    NetTypeOK
    SuccessMeansDelivered
    NoSymbolStarves
    ChannelsHaveSessions
    NoStaleAnswer
    RoutingTableSound
    JournalTypeOK
    NoStrayTmp
    CellTypeOK
    HeldTreesStored
    HeldRootsCanBeReleased
    ChannelTypeOK
    AllocationIsCovered
    MirrorFollowsArbiter
    NoRollbackBeforeSettlement
PROPERTIES
    SenderReturns
    PeersAgreeOnChannel
    OperationsEnd
    ImplementsAtomicStore
    NodeRecovers
