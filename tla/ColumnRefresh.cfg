SPECIFICATION FairSpec
CONSTANTS
    None = None
    NumColumns = 2
    Readable = {1, 2}
    Lookalikes = {1}
    Sessions = {1}
    MaxMoves = 1
    MaxGeneration = 2
    MaxFields = 2
INVARIANTS
    RowsHonourAnnounced

    
