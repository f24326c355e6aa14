\* Every kind of line, in streams of at most MaxLines lines.
CONSTANTS
    Lines <- MCLines
    Limit = 6
    MaxLines = 5
SPECIFICATION Spec
INVARIANTS
    TypeOK
    RelaysEveryEvent
    CleanCloseMeansDone
    FrameBounded
PROPERTIES
    ContractSpec
CHECK_DEADLOCK FALSE
