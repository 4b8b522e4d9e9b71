\* Two units, read by sizes up to two and by both kinds of listeners, with the
\* queue just large enough for the stream alone.
CONSTANTS
    Limit = 3
    Total = 2
    Sizes = {0, 2}
    Listens = {"data", "readable"}
    Sinks = {}
    Foreign = TRUE
SPECIFICATION Spec
INVARIANTS
    ReadInOrder
    NeverStarved
    KeptByLoop
CHECK_DEADLOCK FALSE
