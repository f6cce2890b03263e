SPECIFICATION Spec
CONSTANTS
    a = a
    stop = stop
    m1 = m1
    m2 = m2
    Models <- MCModels
    Penalised <- MCModels
    Vocab <- MCVocab
    StopCode = stop
    Prompts <- MCPrompts
    ChunkSize = 2
    BatchSizes = {1, 2}
    MaxLength = 2
    MaxCalls = 2
INVARIANTS
    TypeOK
    SlotsFollowText
    SampledAfterOwn
    ProgressOfCall
    CountsFollowText
CHECK_DEADLOCK FALSE
SYMMETRY MCSymmetry
