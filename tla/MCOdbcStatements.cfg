CONSTANTS
    Stmts = {a, b}
    Dyns = {p, q}
    Cursors = {k}
    MaxSid = 1
    None = None
    Threads = FALSE
    Careful = TRUE
SPECIFICATION Spec
SYMMETRY Symmetry
CHECK_DEADLOCK FALSE
INVARIANTS
    TypeOK
    RefCountsMatch
    AnswersHaveTheirOwner
    
