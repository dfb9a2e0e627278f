SPECIFICATION MCSpec
CONSTANTS
    Conns = {c1, c2, c3}
    CommandLines <- MCCommandLines
    MaxSessions = 2
    MaxErrors = 2
    Drain = 2
    None = None
    Configs <- MCConfigs
    MaxFrame = 1
    Generators = {g1, g2}
    Loaders = {l1, l2}
    NoFile = NoFile
INVARIANTS
    PermitsAccounted
    HopsAsConfigured
    
    OneMasterKey
PROPERTY
    ShutdownCompletes
CHECK_DEADLOCK FALSE
