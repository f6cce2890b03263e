SPECIFICATION Spec
CONSTANTS
    Token = {"u", "A", "r"}
    ActivationInit = 1
    ActivationConst = 2
    Inputs <- CacheInputs
    Prompts = {}
    AudioTags = {}
    StateTags = {}
    ChatIds <- MCChatIds
    Reencode <- MCReencode
    AssistantTok = "A"
    ImageTags = {}
    RewindTokens = {"r"}
    MaxChunk = 2
    MaxLength = 2
    MaxNode = 5
    MaxCount = 4
    MaxLive = 0
INVARIANTS
    HotPath
    LogitsOfNode
    SampledAfterHistory
PROPERTY CleanupKeepsActive
