\* Two timers due at once or after one unit of time, with time passing once
\* during a poll.
CONSTANTS
    Ids = {t1, t2}
    Delays = {0, 1}
    MaxLate = 1
    MaxTimers = 2
SPECIFICATION FairSpec
INVARIANTS
    EarlierTimersKept
PROPERTIES
    CalledRightly
    TimersCalled
