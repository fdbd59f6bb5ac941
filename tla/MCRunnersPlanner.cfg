SPECIFICATION Spec
CONSTANTS
    Runs = {r1}
    Tasks = {t1}
    Jobs <- AllJobs
    Paths = {src}
    Artifacts = {}
    Answers = {"result"}
    HasServer = FALSE
    Ping = FALSE
INVARIANT PlanIsTaken
CHECK_DEADLOCK FALSE
