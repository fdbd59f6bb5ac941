CONSTANTS
    i1 = i1  i2 = i2  c1 = c1
    Issues = {i1, c1}
    Refs <- OneChild
    Labelled = {i1}
    Linkable = {}
    Talked = {c1}
    MaxComments = 1
    MaxDepth = 1
    MaxNodes = 2
    AutoSubmit = TRUE
    Outcomes = {"nothing", "raises", "text", "silent", "talk", "ready"}
    Focus = {f1}
    People = {p1}
    MaxInFlight = 1
    MaxStarts = 2
    MaxReqs = 1
    Apart = TRUE
    NoIssue = NoIssue
    DraftIds = {d1}
    Reviewers = {u1, u2}
    MaxBody = 1
SPECIFICATION Spec
INVARIANTS TypeOK OneAnalysis OneCrawl HoldersAlive  PostedIsOnGitHub
PROPERTIES GuardReleased 
CHECK_DEADLOCK FALSE
