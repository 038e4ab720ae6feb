SPECIFICATION Spec
CONSTANTS
    RootLength = 3
    Context = 1
    Dashes <- MCDashes
    Pluses <- MCPluses
    Nulls <- MCNulls
    MaxCommits = 3
    MaxTraces = 0
    Changes <- MCChanges
    MaxTokens = 0
    Pieces <- MCPieces
    MaxPieces = 0
INVARIANT
    HunkLinesExact
CHECK_DEADLOCK FALSE
