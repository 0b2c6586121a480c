CONSTANTS
    Count = 3
    Redundancy = 2
    PacketsPerRound = 3
    MaxRounds = 3
    OldChunks = {0, 1}
    MaxAcks = 4
SPECIFICATION RldpSpec
CHECK_DEADLOCK FALSE
INVARIANT CeasesOnFullAck
