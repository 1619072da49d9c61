SPECIFICATION FairSpec
CONSTANTS
    asker = asker
    reader = reader
    Sessions = {asker, reader}
    NULL = NULL
    SeqMod = 8
    FirstSeq = 6
    Wnd = 2
    AckAt = 1
    Timeouts = TRUE
    GiveUps = FALSE
    Losses = FALSE
    MaxAsked <- LongAsk
    MaxAnswered <- ShortAnswer
PROPERTIES PutsReturn ReadersGetTheirPackets
CHECK_DEADLOCK FALSE
