SPECIFICATION Spec
CONSTANTS
    n1 = n1
    v1 = v1
    v2 = v2
    Name = {n1}
    Value = {v1, v2}
    Life = {0, 1}
    Source <- ThreeHosts
    MaxCookies = 2
    MaxTime = 2
SYMMETRY ValueSymmetry
INVARIANTS SideIndexAgrees SavedStaysHome RecoveryComplete MigratedStaysHome
CHECK_DEADLOCK FALSE
