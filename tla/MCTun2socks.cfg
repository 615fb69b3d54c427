SPECIFICATION FairSpec
CONSTANTS
    f1 = f1  f2 = f2
    i1 = i1  i2 = i2
    Flows <- MCFlows
    Readers <- MCReaders
    Capacity = 1
    MaxRuns = 2
    MaxSessions = 2
INVARIANTS
    NoLostStop
    ClosedLast
    ServedHasReader
PROPERTIES
    StopEnds
