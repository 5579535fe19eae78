SPECIFICATION Spec
CONSTANTS
    Counts = {0, 1, 23, 24, 25, 59, 60, 61, 365, 366, 8760, 8761, 525600, 525601}
    Launches = {0, 1}
    Offsets = {0, 1, 2, 3, 119, 120, 121, 7321, 172801}
    MaxAsked = 40000000
INVARIANTS AgeIsRight LifetimeIsKept
