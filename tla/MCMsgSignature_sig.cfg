SPECIFICATION Spec
CHECK_DEADLOCK FALSE
CONSTANTS
    Types <- Plain
    Pads = FALSE
    Values = {1}
    Bytes = {0, 1, 2}
    MaxArgs = 2
    MaxString = 4
    MaxElements = 2
INVARIANT WrittenValid
INVARIANT ReceivedValid
INVARIANT ReadsExactly
