SPECIFICATION FairSpec
CONSTANTS
    o1 = o1
    o2 = o2
    Outages <- MCOutages
    MaxPushes = 2
PROPERTIES RetriesWhileDown
