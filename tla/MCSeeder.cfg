CONSTANTS
    c1 = c1
    c2 = c2
    Conns = {c1, c2}
    MaxPeers = 1
    UnchokeSlots = 1
    None = None
SPECIFICATION FairSpec
INVARIANT TypeOK
INVARIANT UnchokedWithinSlots
INVARIANT ToldItsState
INVARIANT ChokedNotServed
PROPERTY RunReturns
