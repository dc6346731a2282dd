SPECIFICATION FairSpec
CONSTANTS
    a1 = a1
    a2 = a2
    a3 = a3
    s1 = s1
    s2 = s2
    k1 = k1
    k2 = k2
    k3 = k3
    NoAnn = NoAnn
    Ann <- MCAnn2
    Keys <- MCKeys
    Requests <- MCRequests
    MaxAge <- MCMaxAge
    DedupWindow = 1
    MaxTime = 0
    Stops <- MCStops
    Clearing <- MCStops
    Chains <- MCChains
PROPERTIES EveryAcceptedEnds
\* the announcements, stop requests and the clock of the model run out
CHECK_DEADLOCK FALSE
