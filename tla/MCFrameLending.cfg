SPECIFICATION LendingSpec
CONSTANTS
    Cpus = {0}
    Mappings = {1}
    Borrowers = {2}
    POOL_FRAMES = 1
    FRAME_POOL_BASE = 2
    SHARE_MAX = 2
    NodeRange <- NoNodes
    Issued = {"alloc", "free"}
INVARIANT NeverFreedTwice
