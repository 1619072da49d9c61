SPECIFICATION Spec
CONSTANTS
    Users = {u1, u2, u3}
    Members = {m1, m2, m3}
    Versions = {v1, v2}
    NULL = NULL
    MinOpen = 1
    MaxOpen = 2
    MaxUsers = 2
    MaxMemberAge = 1
    Exhaustion = TRUE
    MaxLate = 2
SYMMETRY Symmetry
INVARIANTS TypeOK ListsAreConsistent JobsOwnTheirUser NoDirectionGoesDeaf
PROPERTY SessionsAreIsolated
CHECK_DEADLOCK FALSE
