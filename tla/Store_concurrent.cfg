\* Two Upserts at a time (the default max_concurrency).
\* A torn sessions.json stops the daemon for good, hence the deadlocks.
CONSTANTS
    w1 = w1  w2 = w2  a = a  b = b
    Writers <- TwoWriters
    IDs <- TwoIDs
    MaxConcurrency = 2
    MaxClock = 4
SPECIFICATION RememberSpec
SYMMETRY Symmetry
INVARIANTS
    TypeOK
    DiskIsPast
    CopyIsPast
PROPERTIES
    ImplementsLossyMap
CHECK_DEADLOCK FALSE
