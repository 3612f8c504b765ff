\* Is sessions.json replaced atomically with two Upserts at a time?
CONSTANTS
    w1 = w1  w2 = w2  a = a  b = b
    Writers <- TwoWriters
    IDs <- TwoIDs
    MaxConcurrency = 2
    MaxClock = 2
SPECIFICATION Spec
SYMMETRY Symmetry
INVARIANTS
    FileWhole
CHECK_DEADLOCK FALSE
