SPECIFICATION Spec
CONSTANTS
    Token = {"u", "A", "uA", "i", "a", "t"}
    ActivationInit = 1
    ActivationConst = 2
    Inputs <- FileInputs
    Prompts <- FilePrompts
    AudioTags <- FileAudio
    StateTags <- FileStates
    ChatIds <- MCChatIds
    Reencode <- MCReencode
    AssistantTok = "A"
    ImageTags = {"i"}
    RewindTokens = {"u"}
    MaxChunk = 2
    MaxLength = 1
    MaxNode = 3
    MaxCount = 3
    MaxLive = 1
INVARIANTS
    TypeOK
    TreeShape
    CoherentUnlessCollided
    ContinuesParent
    PromptRead
PROPERTY Implements
