SPECIFICATION Spec
CONSTANTS
    Node = {n1, n2, n3, n4}
    Root = Root
    None = None
    MaxCommands = 1
    DoneAction <- EveryAction
    MaxDone = 2
    Across = FALSE
SYMMETRY Nodes
INVARIANTS Placed QueueSound
PROPERTY OnlyContested
\* The server stops where it has used a node that is gone.
CHECK_DEADLOCK FALSE
