SPECIFICATION Spec
CONSTANTS
    Configs <- Cases
    PromptLength = 1
    MaxTokenLen = 5
    None = None
INVARIANTS
    RowsStayTogether
    MicroBatchesAgree
    AdvantagesAreGroupRelative
    LoadsAreBalanced
    EveryRowTrainsOnce
