CONSTANTS
    a1 = a1
    a2 = a2
    a3 = a3
    a4 = a4
    Addrs = {a1, a2, a3, a4}
    Bits = 3
    Self <- MCSelf
    K = 2
    MaxFailures = 2
    Nodes <- MCNodes
    Valid <- MCValid
    Dead = {a2, a4}
    BEP42 = "off"
    g1 = g1
    Replacers = {g1}
    Free = Free
SPECIFICATION FairTableSpec
PROPERTY OffNeverEvicts
