SPECIFICATION Spec
CONSTANTS
    x = x
    b = b
    c = c
    n1 = n1
    n2 = n2
    n3 = n3
    Vm = {x, b}
    Node = {n1, n2, n3}
    Home <- TwoVms
    Mobile = {x}
    Target = {n1}
    Stoppable = {x}
    Killable = {}
    Outages = 0
    MaxRevision = 5
    None = None
INVARIANTS
    MovedVmReachable
CHECK_DEADLOCK FALSE
