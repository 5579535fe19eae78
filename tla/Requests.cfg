SPECIFICATION Spec
CONSTANTS
    Regions = {r1, r2, r3}
    Defaults = {r1, r2, r3}
    Nodes = {n1, n2, n3}
    Editable = {}
    Workers = {w1, w2}
    Ttls = {Never, Malformed}
    MaxClock = 1
    Day = 1
    Readings = {"pending"}
    None = None
    Never = Never
    Malformed = Malformed
SYMMETRY Symmetry
INVARIANTS TypeOK OneNodePerRegion DownMeansGone ReportedNodeIsReachable
PROPERTIES NoLaunchOverTracked RequestKeepsLiveNodeTracked MintedLast SweepSparesTheNewest ImplementsFleet
