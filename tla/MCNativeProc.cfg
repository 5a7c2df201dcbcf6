SPECIFICATION Spec
CONSTANTS
    MaxCells = 3
    MaxVcores = 2
    Boots <- SafeBoots
    Codes = {0, 7}
    Clients = {"CellSleep"}
    MaxNow = 2
    MaxBytes = 1
    MaxFrames = 1
INVARIANTS TypeOK ResumedWithAnswer EntersRunnable ArmedForNearest NeverDeadlocks InTrapOnlyWhenAlone
PROPERTIES SleepsInFull ExitCodeIsDelivered
