SPECIFICATION Spec
CONSTANTS
    Cpus = {0, 1}
    Mappings = {1, 2, 3}
    POOL_FRAMES = 3
    FRAME_POOL_BASE = 2
    SHARE_MAX = 2
    NodeRange <- MCNodeRange
    Issued = {"alloc", "alloc_on", "free", "share", "cow", "contig"}
INVARIANTS TypeOK PoolConsistent RefsAreHolders WritableIsPrivate
