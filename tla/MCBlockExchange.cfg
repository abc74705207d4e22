CONSTANTS
    Pieces = {p1, p2, p3}
    NumBlocks = 3
    MaxPipeline = 2
    EndgameThreshold = 2
    Remotes = {"seeder", "worker"}
    MaxChanges = 3
    NoPiece = NoPiece
SPECIFICATION FairSpec
INVARIANT TypeOK
INVARIANT BlocksAsRequested
PROPERTY GetBlocksReturns
