SPECIFICATION ServicesSpec
CONSTANTS
    Docs = {"post", "page"}
    Posts = {"post"}
    BlockSize = 2
    FlushEvery = 2
    MaxRows = 3
    MaxCrashes = 1
    None = None
INVARIANTS QueueIsSafe RightsFollowRules
PROPERTIES ChangesIndexed AcceptedArrives SearchAnswers
CHECK_DEADLOCK FALSE
