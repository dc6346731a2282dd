SPECIFICATION FairSpec
CONSTANTS
    o1 = o1
    o2 = o2
    Outages <- MCOutages
    MaxPushes = 2
INVARIANTS TypeOK RetriedWhileNoticed
PROPERTIES RetriesEnd RecoveryAnnounced LateRecoveredCorrected
