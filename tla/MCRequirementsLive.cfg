SPECIFICATION FairSpec
CONSTANTS
    Reqs = {q1, q2}
    Features = {f1}
    Plans <- FullPlan
    PropIds = {p1, p2}
    RunIds = {r1, r2}
    Users = {}
    Outcomes = {"features", "failed", "cancelled"}
    UserModes = {}
    MaxHL = 1
    CanCrash = FALSE
    Nobody = Nobody
INVARIANTS
    DriverCap
PROPERTY EveryRequirementSettles
