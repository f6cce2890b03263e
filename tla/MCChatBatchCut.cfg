SPECIFICATION Spec
CONSTANTS
    Token = {"u", "r", "z"}
    ActivationInit = 1
    ActivationConst = 2
    Texts <- OneText
    Backends <- SmallBackend
    EosTok = "z"
    RewindTokens = {"r"}
    MaxChunk = 1
    MaxLength = 1
    MaxNode = 1
INVARIANTS
    UnfinishedCoherent
