\* A stream and a plain request that compete for one slot; both use tools.
CONSTANTS
    s1 = s1  p1 = p1  p2 = p2
    Reqs <- Mixed
    Streams <- OneStream
    MaxConcurrency = 1
    HasTimeout = TRUE
    ToolUsers <- Mixed
    PipeLines = 1
SPECIFICATION LifeFairSpec
INVARIANTS
    VerdictMatchesProcess
    DoneAfterEveryLine
    AnsweredAfterTools
PROPERTIES
    RequestsEnd
    AbandonedDie
    DrainEnds
