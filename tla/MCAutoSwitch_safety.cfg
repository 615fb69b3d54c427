SPECIFICATION Spec
CONSTANTS
    None = None
    g1 = g1
    a = a
    b = b
    c = c
    direct = direct
    Groups = {g1}
    Nodes = {a, b, c}
    Leaves = {a, b, c}
    Clients = {c1}
    Profiles <- OnOffProfiles
    Default <- Unset
    MemberSets <- AllButOne
    Weathers <- Flaky
    RestoreSuccesses = 1
    BackoffCap = 1
    MaxGen = 2
    WithStart = FALSE
SYMMETRY Interchangeable
INVARIANTS
    OriginIsHome
    SwitchesRemembered
PROPERTIES
    ManualWins
    NoStaleTable
