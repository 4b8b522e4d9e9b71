\* One late write after end, on a stream that closes itself.
CONSTANTS
    Limit = 7
    Sizes = {1}
    HighWaterMark = 2
    MaxCalls = 2
    MaxCorked = 0
    MaxForeign = 0
SPECIFICATION Spec
PROPERTIES
    NoErrorAfterClose
CHECK_DEADLOCK FALSE
