\* Are the runs that last longer than a shutdown cancelled?
CONSTANTS
    s1 = s1  p1 = p1  p2 = p2
    Reqs <- Mixed
    Streams <- OneStream
    MaxConcurrency = 2
    HasTimeout = TRUE
    ToolUsers <- NoReqs
    PipeLines = 1
SPECIFICATION LifeSpec
INVARIANTS
    LongRunsCancelled
