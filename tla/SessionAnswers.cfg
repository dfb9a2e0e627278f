SPECIFICATION FairSpec
CONSTANTS
    u = u
    s = s
    a = a
    b = b
    n = n
    c = c
    begin = begin
    end = end
    txt = txt
    bin = bin
    None = None
    StatementNames = {u, s}
    PortalNames = {u}
    LongNames = {s}
    Params = {a, b, n, c, begin, end}
    Positions = {a, b, n}
    EmptyPositions = n
    Formats = {txt}
    TextFormats = txt
    MaxStatements = 2
    MaxPortals = 1
    MaxPending = 3
    Shapes = {a, b}
    NoRows = n
    CopyStmt = c
    Begin = begin
    End = end
    Unnamed = u
    Texts <- RowTexts
    Preparable = {a, n}
    FrameTypes = {"Parse", "Bind", "Describe", "Execute", "Sync", "Query", "FunctionCall", "Terminate"}
    Habits = {"pipelines"}
    MayRefuse = TRUE
    RefusedShapes = {b}
    RelayFunctionResults = TRUE
    MaxFrames = 5
    MaxInFlight = 2
INVARIANTS
    MarkersMatchReady
PROPERTIES
    EverySyncAnswered
