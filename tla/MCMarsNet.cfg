SPECIFICATION Spec
CONSTANTS
    asker = asker
    reader = reader
    Sessions = {asker, reader}
    NULL = NULL
    SeqMod = 8
    FirstSeq = 6
    Wnd = 2
    AckAt = 1
    Timeouts = TRUE
    GiveUps = TRUE
    Losses = TRUE
    MaxAsked <- LongAsk
    MaxAnswered <- LongAnswer
INVARIANTS TypeOK OneNetworkThread  NothingOutOfOrder SentMeansWritten
CHECK_DEADLOCK FALSE
