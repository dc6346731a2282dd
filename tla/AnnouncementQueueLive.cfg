SPECIFICATION FairSpec
CONSTANTS
    a1 = a1
    a2 = a2
    a3 = a3
    motion = motion
    general = general
    Ann <- MCAnn2
    Keys <- MCKeys
    Requests <- MCRequests
    MaxAge <- MCMaxAge
    DedupWindow = 1
    MaxTime = 3
PROPERTIES EventuallyLeaves
\* the announcements and the clock of the model run out
CHECK_DEADLOCK FALSE
