SPECIFICATION FairSpec
CONSTANTS
    g = g  a = a  b = b  d = d  c1 = c1  c2 = c2
    None = None
    Groups = {g}
    Nodes = {a, b, d}
    Leaves = {a, b}
    Clients = {c1}
    Profiles <- Patient
    MemberSets <- MCMembers
    RestoreSuccesses = 2
    MaxBackoff = 1
    MaxGen = 2
INVARIANTS
    GoServiceConsistent
    GoRestoresAllowed
    SwitchIsUndone
PROPERTIES
    CallsReturn
