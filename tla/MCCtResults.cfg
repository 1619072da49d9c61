CONSTANTS
    Cmds = {c1, c2}
    Answers <- AnswersDef
    MaxSends = 2
    BindCount = 2
    Disciplined = TRUE
SPECIFICATION Spec
INVARIANTS
    TypeOK
    RowsGoToTheirCommand
    NoRowIsSwallowed
    FetchFindsAnAnswer
CHECK_DEADLOCK FALSE
SYMMETRY Symmetry
PROPERTIES
    ResultsAreReported
