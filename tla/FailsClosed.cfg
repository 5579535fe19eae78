SPECIFICATION Spec
CONSTANTS
    Nodes = {n1, n2}
    Past = {n2}
INVARIANTS FailsClosed
