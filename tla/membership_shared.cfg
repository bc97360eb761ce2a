SPECIFICATION SharedSpec
CONSTANTS
    x = x
    b = b
    c = c
    n1 = n1
    n2 = n2
    n3 = n3
    Vm = {x, b, c}
    Node = {n1, n2}
    Home <- ThreeVms
    Mobile = {}
    Target = {}
    Stoppable = {x, b}
    Killable = {b}
    Outages = 0
    MaxRevision = 5
    None = None
INVARIANTS
    NoStaleRoute
    LocalRouteKept
CHECK_DEADLOCK FALSE
