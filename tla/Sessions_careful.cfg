CONSTANTS
    r1 = r1  r2 = r2  r3 = r3  i1 = i1  i2 = i2  d1 = d1  d2 = d2  link = link
    NoID = NoID
    NoDir = NoDir
    Reqs <- ThreeReqs
    Streams <- OneStream
    IDs <- TwoIDs
    Dirs <- TwoDirs
    Links <- OneLink
    RootSets <- Roots
    Careful <- OneCareful
SPECIFICATION Spec
SYMMETRY Symmetry
INVARIANTS TypeOK RunsUnderRoots BoundWhereHistoryIs ResumesInPlace
PROPERTIES StaysTied ReportedIsTied
CHECK_DEADLOCK FALSE
