SPECIFICATION MCSpec
CONSTANTS
    StartupTimeout = 3
    StepTimeout = 1
    MaxAsks = 2
    Scripts <- MCScripts
    Grace = 1
INVARIANTS
    LegsAsConfigured
    WholeFrames
    RefusalIsLast
PROPERTIES
    StartupEnds
    SessionEnds
CHECK_DEADLOCK FALSE
