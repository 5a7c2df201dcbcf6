SPECIFICATION Spec
CONSTANTS
    MaxCells = 1
    MaxVcores = 2
    Boots <- YieldBoots
    Codes = {0}
    Clients = {"CellSleep"}
    MaxNow = 2
    MaxBytes = 0
    MaxFrames = 0
INVARIANTS ResumedWithAnswer
