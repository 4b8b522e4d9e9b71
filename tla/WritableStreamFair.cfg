\* Two calls, with another stream taking and giving back one of the seven
\* places of the queue at any moment.
CONSTANTS
    Limit = 7
    Sizes = {1}
    HighWaterMark = 1
    MaxCalls = 2
    MaxCorked = 0
    MaxForeign = 1
SPECIFICATION FairSpec
INVARIANTS
    NeverStarved
PROPERTIES
    EndReported
    CloseReported
CHECK_DEADLOCK FALSE
