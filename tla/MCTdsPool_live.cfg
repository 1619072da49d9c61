SPECIFICATION FairSpec
CONSTANTS
    Users = {u1, u2}
    Members = {m1}
    Versions = {v1}
    NULL = NULL
    MinOpen = 1
    MaxOpen = 1
    MaxUsers = 2
    MaxMemberAge = 1
    Exhaustion = FALSE
    MaxLate = 2
PROPERTIES EventsAreExecuted 
CHECK_DEADLOCK FALSE
