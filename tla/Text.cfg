SPECIFICATION TextSpec
CONSTANTS
    Requests = {"r1"}
    Jobs = {"j1"}
    Values = {"v1", "v2"}
    None = None
    Merges <- MCMerges
    Parts = {"storage", "merge", "markup", "nodes", "headlines", "kinds", "renderings", "lists",
             "codes", "tags", "blocks", "operators", "phrases", "differences", "dates", "pages"}
INVARIANTS CachedIsStored AddedLinesKept ParserFollowsLexer DocumentsWhole TemplatesMean ShownTrue
PROPERTIES StoresOneValue MergeKeepsEdits
CHECK_DEADLOCK FALSE
