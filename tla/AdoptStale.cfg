SPECIFICATION Spec
CONSTANTS
    Regions = {r1, r2}
    Defaults = {r1}
    Nodes = {n1, n2}
    Editable = {}
    Workers = {w1}
    Ttls = {Never}
    MaxClock = 0
    Day = 1
    Readings = {"pending"}
    None = None
    Never = Never
    Malformed = Malformed
PROPERTIES AdoptsOnlyOverStale
