\* One Upsert at a time (max_concurrency: 1).
CONSTANTS
    w1 = w1  w2 = w2  a = a  b = b
    Writers <- TwoWriters
    IDs <- TwoIDs
    MaxConcurrency = 1
    MaxClock = 5
SPECIFICATION Spec
SYMMETRY Symmetry
INVARIANTS
    FileWhole
    AckedDurable
PROPERTIES
    ImplementsDurableMap
