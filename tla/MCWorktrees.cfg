SPECIFICATION Spec
CONSTANTS
    t1 = t1  t2 = t2  n1 = n1  n2 = n2  f1 = f1  f2 = f2  x = x
    Tasks = {t1, t2}
    Names = {main, dev, n1, n2, f1, f2, x}
    Main = main
    Shared = {main, dev}
    NameOf <- Titles
    Fallback <- Ids
    NewNames <- Renames
    Commits = {main}
    Options = {{"local", "push"}}
    Users = {u1, u2}
    MaxWork = 1
    MaxTurns = 3
    NoName = NoName
INVARIANTS
    TypeOK
    WorkKept
    
    NothingHalfMerged
 
SYMMETRY Alike
CHECK_DEADLOCK FALSE
