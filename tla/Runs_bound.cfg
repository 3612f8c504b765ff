\* Are there never more than MaxConcurrency claude processes?
CONSTANTS
    s1 = s1  s2 = s2  p1 = p1  p2 = p2
    Reqs <- TwoOfEach
    Streams <- TwoStreams
    MaxConcurrency = 1
    HasTimeout = TRUE
    ToolUsers <- NoReqs
    PipeLines = 1
SPECIFICATION Spec
INVARIANTS
    ExecutionsBounded
