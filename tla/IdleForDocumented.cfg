SPECIFICATION Spec
CONSTANTS
    Regions = {r1}
    Defaults = {r1}
    Nodes = {n1}
    Editable = {}
    Workers = {w1}
    Ttls = {Never}
    MaxClock = 3
    Day = 2
    Readings = {"busy", "idle", "pending"}
    Amounts = {1, 3, 6}
    Floor = 2
    Threshold = 6
    Fresh = 1
    None = None
    Never = Never
    Malformed = Malformed
INVARIANTS IdleForSinceAboveZero
