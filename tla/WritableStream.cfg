\* Three calls with and without callback on room for seven notifications: five
\* lifecycle places and two callbacks fill the queue, a third is refused.
CONSTANTS
    Limit = 7
    Sizes = {1}
    HighWaterMark = 2
    MaxCalls = 3
    MaxCorked = 1
    MaxForeign = 0
SPECIFICATION Spec
INVARIANTS
    PlacesOwned
    ReportsTrue
PROPERTIES
    DrainNotLost
    CalledOnce
    OrderSeen
CHECK_DEADLOCK FALSE
