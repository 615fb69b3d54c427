SPECIFICATION FairSpec
CONSTANTS
    None = None
    g1 = g1
    a = a
    b = b
    c = c
    direct = direct
    Groups = {g1}
    Nodes = {a, b}
    Leaves = {a, b}
    Clients = {c1}
    Profiles <- RestoreProfile
    Default <- Unset
    MemberSets <- AllMembers
    Weathers <- ClearWeathers
    RestoreSuccesses = 2
    BackoffCap = 1
    MaxGen = 2
    WithStart = FALSE
VIEW Mechanism
PROPERTIES
    RequestsFinish
    FailedReplaced
    OriginRestored
