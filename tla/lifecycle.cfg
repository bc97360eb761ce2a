SPECIFICATION Spec
CONSTANTS
    Handler = {h1, h2}
    Main = Main
    Operation = {"start", "stop", "reboot", "snapshot"}
    Together = {{"start"}, {"stop"}}
    Vmm = {v1, v2}
    Fault = {"network", "save", "console", "image", "resize", "copy", "api", "guest", "kill"}
    None = None
SYMMETRY Symmetry
INVARIANTS
    TypeOK
    
    OneProcess
    StoppedIsHalted
    SavedWhenQuiet
    NeverStuck
PROPERTIES
    
    WrittenBeforeActed
