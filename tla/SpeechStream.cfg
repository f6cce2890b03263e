SPECIFICATION FairSpec
CONSTANTS
    InitialChunk = 3
    ChunkSize = 2
    OverlapSize = 1
    MaxLength = 4
    MaxTexts = 2
    MaxCalls = 2
INVARIANTS
    TypeOK
    InOrder
    SeamsOverlap
    CompleteAtEnd
    OneSpeaker
PROPERTIES
    NeverTakenBack
    Implements
    CallEnds
