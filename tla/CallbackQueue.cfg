\* Four notifications and two reservations against room for two: the limit is
\* reached with every mix of pending, batched and reserved places.
CONSTANTS
    Limit = 2
    Callbacks = {c1, c2, c3, c4}
    Reservations = {r1, r2}
    None = None
SPECIFICATION FairSpec
INVARIANTS
    TypeOK
    CountersExact
    WithinLimit
    CommitOrder
    GuardMatchesPoll
PROPERTIES
    EventuallyCalled
    ImplementsFifo
CHECK_DEADLOCK FALSE
