SPECIFICATION Spec
CONSTANTS
    Threads = {1, 2}
    Kinds = {"chat"}
    BatchSizes = {1}
    TokenLimits = {1}
    Supported = {1, 2}
    MaxModels = 2
INVARIANT FinishedWhenPolled
