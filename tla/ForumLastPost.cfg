\* Refutes LastPostFromTopic.
SPECIFICATION TopicSpec
CONSTANTS
    None = None
    Gone = Gone
    Null = Null
    category = category
    talk = talk
    child = child
    chat = chat
    alice = alice
    Forums <- MCForums
    Parent <- MCParent
    OldRows <- MCOldRows
    UserCountPosts <- MCUserCountPosts
    Users = {alice}
    MaxTopics = 2
    MaxPosts = 3
    MaxModerations = 2
    CrossForumSplit = FALSE
    t1 = t1
    t2 = t2
    t3 = t3
    Nothing = Nothing
    NoRow = NoRow
    Texts = {t1, t2, t3}
    MaxRevs = 3
    MaxEdits = 2
    Uploads = {"a1", "a2"}
    MaxUploads = 2
    Readers = {"u1"}
    MaxWritten = 3
    MaxReplies = 2
    MaxViews = 1
    Ids = {1, 2}
    Root = 1
    Slugs = {"a", "b", "c"}
    Nil = Nil
    MaxForumEdits = 2
    q1 = q1
    q2 = q2
    o1 = o1
    o2 = o2
PROPERTY
    LastPostFromTopic
SYMMETRY Symmetry
CHECK_DEADLOCK FALSE
