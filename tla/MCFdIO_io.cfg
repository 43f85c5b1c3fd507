SPECIFICATION FairSpec
CHECK_DEADLOCK FALSE
CONSTANTS
    ReadSize = 2
    WriteSizes = {1, 3}
    Pipe = 2
    MaxData = 3
    MaxReads = 3
    MaxWrites = 2
INVARIANT BytesSound
PROPERTY RequestsAnswered
