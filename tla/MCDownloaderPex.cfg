CONSTANTS
    w1 = w1
    w2 = w2
    p1 = p1
    p2 = p2
    Pieces = {p1, p2}
    Addrs = {w1, w2}
    Subscribers = {w1, w2}
    Workers = {w1, w2}
    InitialWorkers = {w1}
    NoOwner = NoOwner
    NoPiece = NoPiece
    EndgameThreshold = 1
    HasStore = TRUE
    HaveCap = 1
    PexCap = 1
    MaxAvailability = 2
    MinOffer = 2
    AddrOf <- MCAddrOf
    Offers <- MCOffers
SPECIFICATION Spec
INVARIANT TypeOK
INVARIANT NoOrphan
INVARIANT Accounting
INVARIANT Recoverable
INVARIANT Exclusive
INVARIANT HavesServable
PROPERTY CompletedForever
PROPERTY ImplementsBoard
