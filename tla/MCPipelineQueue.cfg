SPECIFICATION FairSpec
CONSTANTS
    t1 = t1
    t2 = t2
    p1 = p1
    Tasks = {t1}
    Proposals = {p1}
    ProposalOf <- OneProposal
    NoProposal = NoProposal
    NoTask = NoTask
    NoRunId = NoRunId
    Deps <- NoDeps
    RunIds = {r1, r2}
    Users = {u1}
    MaxHL = 1
    MaxFR = 1
    MaxFI = 1
    UserRoles = {"fi"}
    UserModes = {"standalone"}
    UserOps = {"submit", "chat", "cancel", "unpause"}
    Outcomes = {"succeeded", "failed", "cancelled"}
    CanCrash = TRUE
INVARIANTS
    FiSerialized
    OneAutoRun
PROPERTY EveryRunEnds
