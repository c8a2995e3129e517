SPECIFICATION PortalSpec
CONSTANTS
    one = one
    two = two
    Users = {one, two}
    Null = Null
    MaxRevs = 4
    MaxClock = 4
    Overlap = FALSE
    SameSecond = FALSE
    Emails = {one, two}
    Dead = "dead"
    None = None
    Gone = Gone
    MaxTx = 2
    MaxLinks = 1
    MaxKeys = 1
    MaxPosts = 1
    People = {"u"}
    Groups = {one, two}
    Perms = {"p"}
    MaxForms = 2
    PMUsers = {one, two}
    Messages = {"m1"}
    Unset = Unset
    MaxPMRequests = 2
    Requests = {one, two}
    Timeout = 2
    Delta = 1
    Age = 1
    MaxTime = 3
    MaxRequests = 4
    MaxSessionKeys = 2
    MaxTold = 1
    NoCookie = NoCookie
INVARIANTS AccountsAsMeant CopiesCurrent MessagesTrue SessionsTrue
PROPERTIES NoUnseenLoss PagesCachedRight
SYMMETRY Symmetry
CHECK_DEADLOCK FALSE
