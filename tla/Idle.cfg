SPECIFICATION Spec
CONSTANTS
    Regions = {r1}
    Defaults = {r1}
    Nodes = {n1, n2}
    Editable = {n2}
    Workers = {w1}
    Ttls = {Never}
    MaxClock = 4
    Day = 2
    Readings = {"busy", "idle", "pending", "unavailable"}
    Amounts = {1, 3, 6}
    Floor = 2
    Threshold = 6
    Fresh = 1
    None = None
    Never = Never
    Malformed = Malformed
INVARIANTS TypeOK ForgottenNodeIsMailed IdleForIsTrue
PROPERTIES MailIsTrue OneMailADay
