SPECIFICATION Spec
CONSTANTS
    Runs = {r1, r2}
    Tasks = {t1}
    Jobs <- WorktreeJobs
    Paths = {src}
    Artifacts = {}
    Answers = {"result"}
    HasServer = TRUE
    Ping = TRUE
INVARIANTS
    NoServerLeft
    
SYMMETRY RunSymmetry
CHECK_DEADLOCK FALSE
