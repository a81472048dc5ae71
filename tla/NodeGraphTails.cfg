SPECIFICATION Spec
CONSTANTS
    Node = {n1, n2, n3, n4, n5}
    Root = Root
    None = None
    MaxCommands = 1
    DoneAction = {}
    MaxDone = 0
    Across = FALSE
SYMMETRY Nodes
INVARIANT TailsCounted
\* The server stops where it has used a node that is gone.
CHECK_DEADLOCK FALSE
