\* Two reads of two or three bytes, on a worker or in the pool, against four
\* bytes in memory and one waiting worker.
CONSTANTS
    Reads = {r1, r2}
    Sizes = {2, 3}
    ReadLimit = 2
    ByteLimit = 4
    WorkerLimit = 1
SPECIFICATION FairSpec
INVARIANTS
    TypeOK
    FreedByLastOwner
    NoLostWakeup
PROPERTIES
    ResultStable
    ReadyConsumed
    DroppedFreed
