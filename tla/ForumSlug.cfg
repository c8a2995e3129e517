CONSTANTS
  Ids = {1, 2, 3}
  Root = 1
  Slugs = {"a", "b", "c"}
  Nil = Nil
  MaxForumEdits = 1
SPECIFICATION TreeSpec
INVARIANT AsksAreAnswered
CHECK_DEADLOCK FALSE
