\* A timer whose callback schedules another.
CONSTANTS
    Ids = {t1, t2}
    Delays = {0, 1}
    MaxLate = 1
    MaxTimers = 2
SPECIFICATION Spec
INVARIANTS
    LoopEndsWithoutRefs
