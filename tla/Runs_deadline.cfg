\* Does the deadline end a run whose claude left a command running?
CONSTANTS
    s1 = s1  s2 = s2  p1 = p1  p2 = p2
    Reqs <- Plain
    Streams <- NoReqs
    MaxConcurrency = 1
    HasTimeout = TRUE
    ToolUsers <- Plain
    PipeLines = 1
SPECIFICATION FairSpec
PROPERTIES
    DeadlineEndsRun
