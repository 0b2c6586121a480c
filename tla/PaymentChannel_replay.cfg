SPECIFICATION ChannelSpec
CONSTANTS
    Deposit = 1
    MaxSum = 1
    Window = 1
    MaxSeq = 2
    MaxLt = 2
    Never = Never
INVARIANT
    SettledStateIsHighest
CHECK_DEADLOCK FALSE
