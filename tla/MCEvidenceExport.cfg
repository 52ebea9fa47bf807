SPECIFICATION Spec
CONSTANTS
    Message = {1, 2}
    Token = {1, 2, 3, 4}
    Exporter = {x1, x2}
    BatchSize = 2
    MaxFaults = 2
    None = None
INVARIANTS
    NoFork
PROPERTIES
    EveryMessageExported
    ImplementsChain
