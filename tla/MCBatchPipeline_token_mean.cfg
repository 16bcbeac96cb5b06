SPECIFICATION Spec
CONSTANTS
    Configs <- Cases
    PromptLength = 1
    MaxTokenLen = 5
    None = None
INVARIANT
    TokensWeighEqually
