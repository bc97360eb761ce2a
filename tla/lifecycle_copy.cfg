SPECIFICATION Spec
CONSTANTS
    Handler = {h1}
    Main = Main
    Operation = {"start", "snapshot"}
    Together = {}
    Vmm = {v1, v2}
    Fault = {}
    None = None
INVARIANTS
    OfflineCopyQuiet
