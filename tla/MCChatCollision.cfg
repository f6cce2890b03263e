SPECIFICATION Spec
CONSTANTS
    Token = {"u", "A", "x"}
    ActivationInit = 1
    ActivationConst = 2
    Inputs <- CollisionInputs
    Prompts = {}
    AudioTags = {}
    StateTags = {}
    ChatIds <- MCChatIds
    Reencode <- MCReencode
    AssistantTok = "A"
    ImageTags = {}
    RewindTokens = {}
    MaxChunk = 3
    MaxLength = 1
    MaxNode = 4
    MaxCount = 3
    MaxLive = 0
INVARIANT Coherent
