SPECIFICATION FairSpec
CONSTANTS
    Apps = {"plain", "bulkcancel", "threads", "race"}
    MaxQueries = 2
    MaxTokens = 1
    MaxPackets = 1
INVARIANTS TypeOK  StaysInStep AskedCancelsAreSent
PROPERTIES CancelEndsTheCall
CHECK_DEADLOCK FALSE
