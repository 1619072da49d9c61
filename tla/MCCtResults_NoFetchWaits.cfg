CONSTANTS
    Cmds = {c1}
    Answers <- AnswersDef
    MaxSends = 1
    BindCount = 2
    Disciplined = TRUE
SPECIFICATION Spec
INVARIANTS
    NoFetchWaits
CHECK_DEADLOCK FALSE
