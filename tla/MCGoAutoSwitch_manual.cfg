SPECIFICATION Spec
CONSTANTS
    g = g  a = a  b = b  d = d  c1 = c1  c2 = c2
    None = None
    Groups = {g}
    Nodes = {a, b, d}
    Leaves = {a, b, d}
    Clients = {c1}
    Profiles <- Hasty
    MemberSets <- ThreeNodes
    RestoreSuccesses = 1
    MaxBackoff = 1
    MaxGen = 2
PROPERTIES
    ManualAlwaysWins
