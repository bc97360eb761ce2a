SPECIFICATION Spec
CONSTANTS
    Reader = {r1, r2}
    Client = {c1, c2}
    Token = {t1}
    RingSize = 2
    Chunk = 2
    MaxOutput = 3
    None = None
INVARIANTS
    TypeOK
    RingIsTail
    ClientSeesSuffix
    OrderKept
PROPERTIES
    TokenOnce
    OutputIsRead
CHECK_DEADLOCK FALSE
