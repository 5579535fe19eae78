SPECIFICATION Spec
CONSTANTS
    Nodes = {n1, n2, n3}
    Past = {n3}
INVARIANTS TypeOK SelectableIsVerified OnlineIsNeverAGuess ReadyIsReportedOnline
PROPERTIES FailedNodeLeaves
