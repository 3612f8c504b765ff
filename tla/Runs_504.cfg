\* Is a plain run that its deadline killed answered 504?
CONSTANTS
    s1 = s1  s2 = s2  p1 = p1  p2 = p2
    Reqs <- Mixed
    Streams <- OneStream
    MaxConcurrency = 2
    HasTimeout = TRUE
    ToolUsers <- NoReqs
    PipeLines = 1
SPECIFICATION Spec
INVARIANTS
    KilledByDeadlineIs504
