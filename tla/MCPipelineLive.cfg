SPECIFICATION AttendedSpec
CONSTANTS
    t1 = t1
    t2 = t2
    p1 = p1
    Tasks = {t1, t2}
    Proposals = {p1}
    ProposalOf <- OneOfItsOwn
    NoProposal = NoProposal
    NoTask = NoTask
    NoRunId = NoRunId
    Deps <- Chain
    RunIds = {r1, r2}
    Users = {u1}
    MaxHL = 1
    MaxFR = 1
    MaxFI = 1
    UserRoles = {}
    UserModes = {"manual"}
    UserOps = {"accept", "standalone"}
    Outcomes = {"succeeded"}
    CanCrash = FALSE
PROPERTIES
    
    ReadyIsPromoted
    EverythingDelivered
