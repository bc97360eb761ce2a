SPECIFICATION Spec
CONSTANTS
    Runtime = {r, a, b}
    Resident = {r}
    Killable = {a, b}
    Inode = {i1, i2}
    None = None
SYMMETRY Symmetry
INVARIANTS
    NamespaceHeld
    UplinkHeld
    NoFailedOperation
    LockExclusive
