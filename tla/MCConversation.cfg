\* Every protocol, bodies of at most four turns, three configurations.
CONSTANTS
    Env = Env
    Odd = Odd
    Junk = Junk
    NoName = NoName
    None = None
    Texts <- MCTexts
    ToolNames <- MCToolNames
    DefaultTools <- MCDefaultTools
    Openings <- MCOpenings
    Turns <- MCTurns
    Answers <- MCAnswers
    Prompts <- MCPrompts
    Configs <- MCConfigs
    MaxItems = 4
SPECIFICATION Spec
INVARIANTS
    IdentitySettles
    IdentityKept
    ShapedOnce
    EnvironmentOnce
    ToolsComplete
CHECK_DEADLOCK FALSE
