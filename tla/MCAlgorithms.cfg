SPECIFICATION Spec
CONSTANTS
    RootLength = 3
    Context = 1
    Dashes <- MCDashes
    Pluses <- MCPluses
    Nulls <- MCNulls
    MaxCommits = 3
    MaxTraces = 2
    Changes <- MCChanges
    MaxTokens = 6
    Pieces <- MCPieces
    MaxPieces = 4
INVARIANTS
    AnchorOnLine
    OutdatedMeansGone
    HashCatches
    ViewOnLine
    RangesDisjoint
    CodeLinesKept
    AdjustedExact
    ScanExact
    ScanOrdered
CHECK_DEADLOCK FALSE
