SPECIFICATION FairSpec
CONSTANTS
    s1 = s1
    Samples = {s1}
    N = 2
    Servers = {v1, v2}
    PromptLength = 1
    ResponseLength = 2
    PromptLen <- MCPromptLen
    MaxVersion = 2
    MaxFailures = 1
    None = None
INVARIANTS
    QuietDuringCopy
    TokensAreContiguous
    NothingAfterTheLastToken
    VersionsBracketTokens
    OnlyEmptyRequestsLeak
PROPERTIES
    PauseEnds
CHECK_DEADLOCK FALSE
