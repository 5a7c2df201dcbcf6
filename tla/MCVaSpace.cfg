CONSTANTS
    VA_FLOOR = 1
    USER_VA_TOP = 7
    GUARD_PAGES = 1
    MaxRecords = 3
    Lengths = {0, 1, 2}
    Aligns = {1, 4}
    Windows <- MCWindows
    Ceilings = {2, 8}
SPECIFICATION Spec
INVARIANTS TypeOK NoneForgotten NoOverlap
PROPERTIES GuardGaps ReleaseExact
