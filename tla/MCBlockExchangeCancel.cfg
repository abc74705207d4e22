CONSTANTS
    Pieces = {p1, p2}
    NumBlocks = 3
    MaxPipeline = 2
    EndgameThreshold = 2
    Remotes = {"seeder", "worker"}
    MaxChanges = 1
    NoPiece = NoPiece
SPECIFICATION FairSpec
INVARIANT AbortIsClean
