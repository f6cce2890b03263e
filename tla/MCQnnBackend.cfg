SPECIFICATION Spec
CONSTANTS
    a = a
    b = b
    Raw = Raw
    Lost = Lost
    NoState = NoState
    Graphs = 2
    PrefillLength = 2
    EmbdLength = 3
    MaxCalls = 3
    Tokens <- MCTokens
    Inputs <- MCInputs
    BatchGraphs <- MCBatchGraphs
INVARIANTS
    TypeOK
    LayersInStep
PROPERTY
    Implements
CHECK_DEADLOCK FALSE
