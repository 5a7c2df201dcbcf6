CONSTANTS
    Tasks = {Root, A, B}
    Root = Root
    A = A
    B = B
    None = None
    MaxTokens = 9
    MaxOps = 2
    RING_DEPTH = 1
    Programs <- Sleepers
SPECIFICATION Spec
INVARIANTS SleepsAreKept
