SPECIFICATION Spec
CONSTANTS
    N = 3
    MaxStake = 3
    Byzantine = {2}
    Hashes = {a, b}
    NoHash = NoHash
    MaxRound = 1
    MaxTime = 1
    Stake <- SmallFaultyStake
    Timeout <- OneTick
SYMMETRY HashSymmetry
INVARIANT
    NoForkDivergence
CHECK_DEADLOCK FALSE
