SPECIFICATION FairSpec
CONSTANTS
    Ids = {a, b}
    Chatty = {a}
    Cap = 2
    ExcerptLen = 1
    Prefetch = 1
    Chunks = {1}
    MaxOutput = 3
    MaxLife = 2
INVARIANTS
    EntriesAreSound
    QuietWhenPutAway
    ExcerptIsExact
PROPERTIES
    StopIsThorough
    OnlyRestartsDouble
    StopsEnd
CHECK_DEADLOCK FALSE
