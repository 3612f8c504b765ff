\* A stream and two plain requests on one slot, with no RunTimeout;
\* the daemon may be told to end, and end, at any moment.
CONSTANTS
    s1 = s1  p1 = p1  p2 = p2
    Reqs <- Three
    Streams <- OneStream
    MaxConcurrency = 1
    HasTimeout = FALSE
    ToolUsers <- NoReqs
    PipeLines = 1
SPECIFICATION LifeSpec
SYMMETRY Symmetry
INVARIANTS
    LifeTypeOK
    SlotsBalanced
    NoLostWakeup
    OnlyAbandonedOutlive
    AttendedBounded
    UnreapedOnlyAbandoned
    UpsertsBounded
    CleanExit
PROPERTIES
    NoOvertaking
    ImplementsService
