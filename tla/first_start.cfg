SPECIFICATION NodeSpec
CONSTANTS
    Vm = {v1, v2}
    Image = {i1}
    Snapshot = {s1}
    None = None
    Boots <- Sources
SYMMETRY Symmetry
INVARIANTS
    NodeTypeOK
    InitializedIsWhole
    ListedIsComplete
PROPERTIES
    KeepsAcknowledged
CHECK_DEADLOCK FALSE
