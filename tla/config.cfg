SPECIFICATION Spec
CONSTANTS
    Handler = {h1}
    Main = Main
    Operation = {"bandwidth", "publicip", "firewall", "reload", "resize", "rootfs", "start", "stop"}
    Fault = {"tc", "api", "truncate", "resize", "save", "metadata", "edit", "kill"}
    Editable = {"resources", "fw"}
    Shared = TRUE
    Resources = {c1}
    Rules = {r1, r2}
    Address = {a1, a2}
    Size <- Sizes
    Invalid = Invalid
    None = None
SYMMETRY Symmetry
INVARIANTS
    TypeOK
    AppliedIsSaved
    
    RefusedOnlyUnvalidated
PROPERTIES
    DiskNeverShrinks
