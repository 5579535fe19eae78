SPECIFICATION ConvergenceSpec
CONSTANTS
    Regions = {r1, r2}
    Defaults = {r1}
    Nodes = {n1, n2}
    Editable = {n1}
    Workers = {w1}
    Ttls = {1}
    MaxClock = 1
    Day = 1
    Readings = {"pending", "unavailable"}
    None = None
    Never = Never
    Malformed = Malformed
PROPERTIES CalmSweepSettles Converges
