CONSTANTS
    Answers <- AnswersDef
    Acks <- AcksDef
    MaxProcs = 2
    MaxQueries = 2
    MaxCommands = 1
SPECIFICATION Spec
INVARIANTS
    TypeOK
    NoRowIsSwallowed
    ResultSetsAreAnnounced
PROPERTIES
    RowsFollowTheirAnnouncement
CHECK_DEADLOCK FALSE
