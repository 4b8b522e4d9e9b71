\* Two units through one destination, to the end, beside a data listener.
CONSTANTS
    Limit = 4
    Total = 2
    Sizes = {}
    Listens = {"data"}
    Sinks = {d1}
    Foreign = FALSE
SPECIFICATION FairSpec
INVARIANTS
    PipesComplete
PROPERTIES
    PipeEnds
CHECK_DEADLOCK FALSE
