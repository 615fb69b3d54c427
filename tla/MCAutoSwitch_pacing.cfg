SPECIFICATION Spec
CONSTANTS
    None = None
    g1 = g1
    a = a
    b = b
    c = c
    direct = direct
    Groups = {g1}
    Nodes = {a, b, direct}
    Leaves = {a, b}
    Clients = {c1}
    Profiles <- CountProfiles
    Default <- Unset
    MemberSets <- SomeMembers
    Weathers <- Flaky
    RestoreSuccesses = 1
    BackoffCap = 4
    MaxGen = 2
    WithStart = TRUE
CONSTRAINT StartIsShort
VIEW MechanismAndStreaks
INVARIANTS
    LockInv
    ServiceConsistent
    RestoresAllowed
    NoWaitCycle
PROPERTIES
    ThresholdHeld
    ScanPacing
