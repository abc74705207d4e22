CONSTANTS
    Bits = 3
    Addrs = {a}
    K = 2
    MaxFailures = 2
    Alpha = 2
    MaxRounds = 3
    MaxRotations = 1
    None = None
    Self <- me
    Node <- MCNode
    Known <- MCKnown
    Reliable <- MCReliable
    Holders <- MCHolders
    InfoHash <- MCInfoHash
    FindTargets <- MCFindTargets
SPECIFICATION FairSpec
INVARIANT TypeOK
INVARIANT SearchFinds
INVARIANT NearestStores
PROPERTY NeverRefused
PROPERTY CallReturns
