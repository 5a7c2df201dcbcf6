SPECIFICATION SyscallSpec
CONSTANTS
    Cells = {a, b}
    Tops = {a}
    Rights <- MCRights
    Asked <- MCAsked
    MaxObjects = 2
    Inline = 2
    PerPage = 1
    MaxPages = 0
    GenModulus = 3
    MaxGeneration = 2
    BUDGET_UNLIMITED = 2
CHECK_DEADLOCK FALSE
PROPERTY MeteringNotEscapable
