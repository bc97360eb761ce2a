SPECIFICATION FairSpec
CONSTANTS
    Runtime = {a, b}
    Resident = {}
    Killable = {a}
    Inode = {i1, i2, i3}
    None = None
INVARIANTS
    TypeOK
    HeldUnlessRaced
    LastLeaveCleans
PROPERTIES
    OperationsFinish
