SPECIFICATION SeenSpec
CONSTANTS
    category = category
    talk = talk
    sub = sub
    chat = chat
    t1 = t1
    t2 = t2
    t3 = t3
    one = one
    two = two
    Null = Null
    Forums = {category, talk, sub, chat}
    Parent <- MCParent
    Topics = {t1, t2, t3}
    MaxPosts = 4
    MaxMoves = 1
    LimitUnread = 2
    PollIds = {"q1", "q2"}
    Options = {"o1", "o2"}
    Voters = {"v1"}
    NoPoll = NoPoll
    NoOption = NoOption
    DeletedPoll = DeletedPoll
    MaxBallots = 2
    MaxVotes = 2
    ListTopics = {t1, t2, t3}
    ListForums = {one, two}
    PerPage = 1
    ListPage = 2
    Newest = 2
    ListTime = 1
    FeedTime = 2
    MaxTime = 1
    MaxWrites = 5
    NoEntry = NoEntry
    GoneTopic = GoneTopic
    MaxTotal = 0
    PageSize = 1
    MaxPagesList = 1
    Thresholds = {1}
INVARIANTS ForumsAgreeWithTopics FirstUnreadIsNext TopicPagesTrue PollsAreTrue
PROPERTY StaysRead
SYMMETRY SeenSymmetry
CHECK_DEADLOCK FALSE
