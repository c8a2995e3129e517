CONSTANTS
  None = None
  Gone = Gone
  Nil = Nil
  Sites = {p, q}
  Rules = {"rules"}
  MaxPages = 3
  Articles = {"a1"}
  Users = {"u1", "e1"}
  Editors = {"e1"}
  Subscribers = {"u1"}
  MaxText = 2
  MaxComments = 2
  MaxTx = 2
  Blogs = {"b1"}
  Guids = {"g1", "g2"}
  LongGuids = {"g2"}
  BlogOf <- OneBlog
  Null = Null
  MaxTime = 3
  MaxEdits = 1
  MaxVersions = 2
  Topics = {"s"}
  Team = {"u", "v"}
  Names = {"a", "b"}
  Void = Void
  MaxIds = 2
  MaxRequests = 3
  Plain = "plain"
SPECIFICATION NewsSpec
INVARIANTS ArticlesKept SubscribersTold CachedIsCurrent  WikiShownTrue TeamSeesWhatWaits
PROPERTY SitesKept
SYMMETRY Symmetry
CHECK_DEADLOCK FALSE
