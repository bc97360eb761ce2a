SPECIFICATION Spec
CONSTANTS
    Handler = {h1}
    Main = Main
    Operation = {"start"}
    Together = {}
    Vmm = {v1, v2}
    Fault = {"kill"}
    None = None
PROPERTIES
    RecoveryBoots
