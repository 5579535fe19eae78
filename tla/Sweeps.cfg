SPECIFICATION Spec
CONSTANTS
    Regions = {r1, r2}
    Defaults = {r1, r2}
    Nodes = {n1, n2}
    Editable = {n1, n2}
    Workers = {w1}
    Ttls = {Never, 1}
    MaxClock = 2
    Day = 1
    Readings = {"busy", "idle", "pending", "unavailable"}
    None = None
    Never = Never
    Malformed = Malformed
SYMMETRY Symmetry
INVARIANTS NoSilentDrift
PROPERTIES ClearedOnlyWhenGone SweepSparesTheNewest
