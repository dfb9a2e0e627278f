SPECIFICATION MCSpec
CONSTANTS
    Layout <- MCLayout
    UniqueColumn = "id"
    Canonical <- MCCanonical
    Precedes <- MCPrecedes
    Backslashed = {"c:"}
    Unescaped <- MCUnescaped
    Protected <- MCProtected
    RowKeys <- MCRowKeys
    KeyTexts = {"1", "01", "2", "3"}
    Texts <- MCTexts
    Prepared <- MCPrepared
    Bindings <- MCBindings
    Startups <- MCStartups
    SeedRows <- MCSeedRows
    Schemas = {"public", "other"}
    MaxTexts = 3
    None = None
    Half = 4
    Messages <- MCMessages
    MaxElements = 3
    MaxText = 5
    SqlPieces <- MCSqlPieces
    MaxPieces = 4
INVARIANTS
    
    SealedInPlace
    
    
    
    
    
    
CHECK_DEADLOCK FALSE
