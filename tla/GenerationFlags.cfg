SPECIFICATION FairSpec
CONSTANTS
    Threads = {1, 2}
    Kinds = {"chat_batch", "completion", "completion_batch", "speech"}
    BatchSizes = {1, 2}
    TokenLimits = {2}
    Supported = {2}
    MaxModels = 2
INVARIANTS
    TypeOK
    EvaluationIsFlagged
    StopHonoured
PROPERTY Terminates
