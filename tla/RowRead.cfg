SPECIFICATION MCSpec
CONSTANTS
    Numeric = {t1, k1, k2}
    None = None
    Rows = {r1, r2}
    Keys = {k1, k2}
    Texts = {t1, t2}
    Long = {t2}
    Plans <- MCPlans
    Projections <- MCProjections
    MaxValue = 4
    MaxBody = 8
    MaxEdits = 4
    Declarations <- MCDeclarations
    Deployments <- MCDeployments
    RecordKeys = {k1, k2}
    RecordTexts = {t1, t2, b1}
    Binary = {b1}
    MaxSteps = 3
INVARIANTS
    NeverSealedForm
    NeverUnmasked
    ReadsBack
    ReadWhereWritten
    RecordsReadBack
SYMMETRY Interchangeable
CHECK_DEADLOCK FALSE
