SPECIFICATION Spec
CONSTANTS
    t1 = t1
    t2 = t2
    p1 = p1
    Tasks = {t1, t2}
    Proposals = {p1}
    ProposalOf <- OneProposal
    NoProposal = NoProposal
    NoTask = NoTask
    NoRunId = NoRunId
    Deps <- NoDeps
    RunIds = {r1, r2}
    Users = {u1}
    MaxHL = 1
    MaxFR = 2
    MaxFI = 1
    UserRoles = {"fr", "fi"}
    UserModes = {"manual"}
    UserOps = {"accept", "reject", "retry"}
    Outcomes = {"succeeded", "violation", "failed"}
    CanCrash = FALSE
INVARIANTS
    TypeOK
    OneAutoRun
    CapRespected
    ProposalFrozen
 
SYMMETRY FullSymmetry
