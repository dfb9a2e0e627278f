SPECIFICATION Spec
CONSTANTS
    u = u
    s = s
    x = x
    e = e
    p = p
    None = None
    StatementNames = {u, s}
    PortalNames = {u, p}
    LongNames = {}
    Params = {x}
    Positions = {e}
    EmptyPositions = e
    Formats = {x}
    TextFormats = x
    MaxStatements = 2
    MaxPortals = 1
    MaxPending = 3
    MaxStatementIds = 2
    MaxExecuteIds = 2
INVARIANTS
    DescriptionsFollowIncarnation
    DescribedExecutesFilled
PROPERTIES
    QueuedExecuteKeepsItsRows
