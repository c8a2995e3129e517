SPECIFICATION Spec
CONSTANTS
    Users = {u1, u2}
    Null = Null
    MaxRevs = 3
    MaxClock = 5
    Overlap = FALSE
    SameSecond = FALSE
PROPERTY EditsOfOthersChecked
CHECK_DEADLOCK FALSE
