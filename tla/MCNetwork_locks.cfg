CONSTANTS
    Count = 3
    Redundancy = 2
    PacketsPerRound = 3
    MaxRounds = 3
    OldChunks = {0, 1}
    MaxAcks = 4
    Nodes = {1, 2, 3}
    Tasks = {"a", "b", "c"}
    Home <- MCHome
    Ids <- MCIds
    Faulty <- MCFaulty
    Forged <- MCForged
    Clients <- MCClients
    Bits = 3
    K = 2
    Alpha = 1
    Keys <- MCKeys
    Records <- MCRecords
    Bootstrap <- MCBootstrap
    MaxClock = 1
    MaxOps = 2
    Parts = {"adnl"}
SPECIFICATION NetSpec
CHECK_DEADLOCK FALSE
INVARIANT NoWaitCycle
