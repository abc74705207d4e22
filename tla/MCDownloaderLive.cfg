CONSTANTS
    w1 = w1
    w2 = w2
    p1 = p1
    Pieces = {p1}
    Addrs = {w1, w2}
    Subscribers = {w1, w2}
    Workers = {w1, w2}
    InitialWorkers = {w1, w2}
    NoOwner = NoOwner
    NoPiece = NoPiece
    EndgameThreshold = 2
    HasStore = FALSE
    HaveCap = 1
    PexCap = 1
    MaxAvailability = 2
    MinOffer = 0
    AddrOf <- MCAddrOf
    Offers <- MCOffers
SPECIFICATION FairSpec
PROPERTY CompletionReturns
PROPERTY WorkersEnd
