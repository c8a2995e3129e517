SPECIFICATION Spec
CONSTANTS
    Users = {u1, u2}
    Null = Null
    MaxRevs = 4
    MaxClock = 5
    Overlap = TRUE
    SameSecond = FALSE
PROPERTY NoUnseenLoss
CHECK_DEADLOCK FALSE
