SPECIFICATION FairSpec
CONSTANTS
    x = x
    b = b
    c = c
    n1 = n1
    n2 = n2
    n3 = n3
    Vm = {x, b}
    Node = {n1, n2, n3}
    Home <- TwoVms
    Mobile = {x}
    Target = {n3}
    Stoppable = {x}
    Killable = {}
    Outages = 1
    MaxRevision = 5
    None = None
INVARIANTS
    TypeOK
    CacheCoversRevision
    OtherNodesFollow
PROPERTIES
    WithdrawnStays
    WatchersCatchUp
CHECK_DEADLOCK FALSE
