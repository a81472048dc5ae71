SPECIFICATION Spec
CONSTANTS
    Node = {n1, n2, n3, n4}
    Root = Root
    None = None
    MaxCommands = 1
    DoneAction = {}
    MaxDone = 0
    Across = TRUE
SYMMETRY Nodes
INVARIANT Placed
\* The server stops where it has used a node that is gone.
CHECK_DEADLOCK FALSE
