SPECIFICATION Spec
CONSTANTS
    Runs = {r1}
    Tasks = {t1}
    Jobs <- AllJobs
    Paths = {src, log}
    Artifacts = {log}
    Answers = {"result", "blocked", "text"}
    HasServer = TRUE
    Ping = FALSE
INVARIANTS
    TypeOK
    NoStrayAgent
PROPERTIES
    ContractSpec
    CancelStops
CHECK_DEADLOCK FALSE
