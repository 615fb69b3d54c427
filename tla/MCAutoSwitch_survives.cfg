SPECIFICATION Spec
CONSTANTS
    None = None
    g1 = g1
    a = a
    b = b
    c = c
    direct = direct
    Groups = {g1}
    Nodes = {a, b}
    Leaves = {a, b}
    Clients = {c1}
    Profiles <- RestoreProfile
    Default <- Unset
    MemberSets <- AllMembers
    Weathers <- Flaky
    RestoreSuccesses = 3
    BackoffCap = 2
    MaxGen = 2
    WithStart = FALSE
PROPERTIES
    PendingRestoreSurvives
