SPECIFICATION LibrarySpec
CONSTANTS
    a = a  b = b  l = l  t1 = t1  t2 = t2  f1 = f1  f2 = f2
    None = None  NoServers = NoServers  Nobody = Nobody
    Lists <- MCLists
    Configs <- MCConfigs
    Default = a
    Threads <- MCThreads
    Frames = 1
    Fetches <- MCFetches
INVARIANTS
    JavaAgrees
    MarkedWhileTun
    OrderlyIsClean
    NothingLeft
    NoChangeLost
    CompletionIsLast
PROPERTIES
    KeepsPromise
    DnsFollows
    FailureEnds
    NoWriteAfterCancel
    CancelEnds
CHECK_DEADLOCK FALSE
