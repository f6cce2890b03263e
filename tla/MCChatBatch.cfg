SPECIFICATION Spec
CONSTANTS
    Token = {"u", "r", "z"}
    ActivationInit = 1
    ActivationConst = 2
    Texts <- OneText
    Backends <- AllBackends
    EosTok = "z"
    RewindTokens = {"r"}
    MaxChunk = 1
    MaxLength = 2
    MaxNode = 1
INVARIANTS
    TypeOK
    SlotsFollowRequests
    RowsFollowSlots
    EndTokenNotFed
    FinishedCoherent
