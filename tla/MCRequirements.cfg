SPECIFICATION Spec
CONSTANTS
    Reqs = {q1}
    Features = {f1, f2}
    Plans <- FullPlan
    PropIds = {p1, p2}
    RunIds = {r1, r2}
    Users = {u1, u2}
    Outcomes = {"features"}
    UserModes = {"manual"}
    MaxHL = 1
    CanCrash = TRUE
    Nobody = Nobody
INVARIANTS
    TypeOK
    ProcessedIsAnswered
    OneDriverRun
 
SYMMETRY RequirementSymmetry
