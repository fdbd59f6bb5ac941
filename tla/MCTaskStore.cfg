SPECIFICATION StoreSpec
CONSTANTS
    k1 = k1
    k2 = k2
    c3 = c3
    Nothing = Nothing
    Tasks = {t1, t2}
    Callers = {c1, c2, c3}
    Connections = {k1, k2}
    ConnOf <- TwoProcesses
    OneCallPerTask = TRUE
INVARIANT StoreTypeOK
PROPERTIES
    
    LoneMoveKept
SYMMETRY StoreSymmetry
