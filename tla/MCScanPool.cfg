SPECIFICATION FairSpec
CONSTANTS
    a = a  b = b  c = c
    Candidates <- MCCandidates
    Delays = {1, 2}
    Expecteds = {0, 2}
    Concurrencies = {1, 2}
    MaxScans = 2
    Open = Open  Nobody = Nobody  Abandoned = Abandoned
INVARIANTS
    PoolFull
PROPERTIES
    ScanSpec
    ScanEnds
