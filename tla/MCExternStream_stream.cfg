SPECIFICATION FairSpec
CHECK_DEADLOCK FALSE
CONSTANTS
    Kinds <- WithBody
    Fixed = 2
    Capacity = 9
    MaxMsgs = 4
    MaxFds = 1
INVARIANT StreamSound
PROPERTY FifoSpec
PROPERTY AllReceived
