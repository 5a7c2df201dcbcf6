SPECIFICATION MCFairSpec
CONSTANTS
    Cpus = {0, 1}
    Mappings = {m1, m2}
    POOL_FRAMES = 1
    FRAME_POOL_BASE = 2
    SHARE_MAX = 2
    NodeRange <- NoNodes
    Issued = {"alloc", "free", "share", "cow", "contig"}
INVARIANT TypeOK
PROPERTIES CombiningIsAtomic CallsReturn SleepersRun WaitersRun
