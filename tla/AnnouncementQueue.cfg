SPECIFICATION Spec
CONSTANTS
    a1 = a1
    a2 = a2
    a3 = a3
    motion = motion
    general = general
    Ann <- MCAnn
    Keys <- MCKeys
    Requests <- MCRequests
    MaxAge <- MCMaxAge
    DedupWindow = 2
    MaxTime = 4
SYMMETRY Symmetry
INVARIANTS TypeOK DedupSpacing NoDuplicateQueued
PROPERTIES SuppressedForCause RecentBounded UrgentFirst
\* the announcements and the clock of the model run out
CHECK_DEADLOCK FALSE
