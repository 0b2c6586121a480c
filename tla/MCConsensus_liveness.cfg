SPECIFICATION FairSpec
CONSTANTS
    N = 3
    MaxStake = 3
    Byzantine = {0}
    Hashes = {a}
    NoHash = NoHash
    MaxRound = 1
    MaxTime = 1
    Stake <- LeaderFaultyStake
    Timeout <- OneTick
PROPERTY
    SomeEngineFinalizes
CHECK_DEADLOCK FALSE
