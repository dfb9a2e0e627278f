SPECIFICATION FairSpec
CONSTANTS
    u = u
    s = s
    a = a
    b = b
    n = n
    c = c
    begin = begin
    end = end
    txt = txt
    bin = bin
    None = None
    StatementNames = {u}
    PortalNames = {u}
    LongNames = {}
    Params = {a, b, n, c, begin, end}
    Positions = {a, b, n}
    EmptyPositions = n
    Formats = {txt}
    TextFormats = txt
    MaxStatements = 2
    MaxPortals = 1
    MaxPending = 9
    Shapes = {a, b}
    NoRows = n
    CopyStmt = c
    Begin = begin
    End = end
    Unnamed = u
    Texts <- RowTexts
    Preparable = {a, b}
    FrameTypes = {"Parse", "Sync", "Query"}
    Habits = {"refusedMidBatch"}
    MayRefuse = TRUE
    RefusedShapes = {}
    RelayFunctionResults = TRUE
    MaxFrames = 5
    MaxInFlight = 1
PROPERTIES
    EverySyncAnswered
CHECK_DEADLOCK FALSE
