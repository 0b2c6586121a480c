SPECIFICATION Spec
CONSTANTS
    N = 3
    MaxStake = 3
    Byzantine = {0}
    Hashes = {a, b}
    NoHash = NoHash
    MaxRound = 1
    MaxTime = 1
    Stake <- LeaderFaultyStake
    Timeout <- OneTick
SYMMETRY HashSymmetry
INVARIANTS
    TypeOK
    SameRoundAgreement
    NoHonestEquivocation
    CountedVotesAreCurrent
    FinalityHasQuorumChain
PROPERTY
    ImplementsRoundFinality
CHECK_DEADLOCK FALSE
