\* Every stream of at most MaxChunks chunks.
CONSTANTS
    Chunks <- MCChunks
    Limit = 6
    MaxToolIndex = 1
    MaxChunks = 4
    Pieces = {"a", "b", "c", "r", "v", "w", "x", "y", "z"}
    Plain <- MCPlain
    None = None
    Null = Null
    Other = Other
SPECIFICATION Spec
INVARIANTS
    TextsWhole
    ToolCallsWhole
    AnswerInOrder
CHECK_DEADLOCK FALSE
