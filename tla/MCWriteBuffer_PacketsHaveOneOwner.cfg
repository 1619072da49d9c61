CONSTANTS
    BufMax = 3
    Extra = 2
    Widths = {1, 2}
    SizeLens = {0, 2}
    Base = 3
    Data = 3
    MaxChain = 3
    MaxDepth = 2
    Fails = TRUE
SPECIFICATION Spec
CHECK_DEADLOCK FALSE
INVARIANT
    PacketsHaveOneOwner
