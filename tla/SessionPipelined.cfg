SPECIFICATION Spec
CONSTANTS
    u = u
    s = s
    a = a
    b = b
    n = n
    c = c
    begin = begin
    end = end
    txt = txt
    bin = bin
    None = None
    StatementNames = {u, s}
    PortalNames = {u}
    LongNames = {}
    Params = {a, b, n, c, begin, end}
    Positions = {a, b, n}
    EmptyPositions = n
    Formats = {txt, bin}
    TextFormats = txt
    MaxStatements = 2
    MaxPortals = 1
    MaxPending = 9
    Shapes = {a, b}
    NoRows = n
    CopyStmt = c
    Begin = begin
    End = end
    Unnamed = u
    Texts <- NoTexts
    Preparable = {a, b}
    FrameTypes = {"Parse", "Bind", "Describe", "Execute", "Close", "Sync"}
    Habits = {"pipelines", "describes", "refusedMidBatch"}
    MayRefuse = TRUE
    RefusedShapes = {}
    RelayFunctionResults = TRUE
    MaxFrames = 6
    MaxInFlight = 1
INVARIANTS
    RowAttribution
    BindAttribution
    NoOrphanedRows
SYMMETRY ShapeSymmetry
