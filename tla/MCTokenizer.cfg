SPECIFICATION FairSpec
CONSTANTS
    a = a
    b = b
    e = e
    Bytes <- MCBytes
    VocabFiles <- MCVocabFiles
    Texts <- MCTexts
    Eod <- MCEod
    Garbage <- MCGarbage
INVARIANTS
    TypeOK
    DecodesBack
    DropsOnlyUnknown
PROPERTIES
    LongestTaken
    EncodeEnds
