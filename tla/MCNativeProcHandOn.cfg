SPECIFICATION Spec
CONSTANTS
    MaxCells = 2
    MaxVcores = 2
    Boots <- HandOnBoots
    Codes = {0}
    Clients = {"CellSleep"}
    MaxNow = 2
    MaxBytes = 0
    MaxFrames = 0
INVARIANTS YieldIsAnswered
