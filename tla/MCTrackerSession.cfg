CONSTANTS
    Callers = {"main", "updater"}
    MaxN = 1
    Old = "old"
    SocketCap = 2
    PieceLength = 2
    TotalLength = 3
SPECIFICATION FairSpec
INVARIANT TypeOK
INVARIANT OwnAnswer
INVARIANT NothingLeftIsComplete
PROPERTY MainGoesOn
