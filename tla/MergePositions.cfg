\* Merges of a text that the other user has taken lines from.
SPECIFICATION TextSpec
CONSTANTS
    Requests = {"r1"}
    Jobs = {"j1"}
    Values = {"v1", "v2"}
    None = None
    Merges <- LongMerges
    Parts = {"merge"}
PROPERTY OtherTakenUnchanged
CHECK_DEADLOCK FALSE
