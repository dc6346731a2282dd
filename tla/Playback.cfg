SPECIFICATION Spec
CONSTANTS
    k1 = k1
    k2 = k2
    None = None
    MaxAttempts = 2
    Keys <- MCKeys
    MaxEntries = 1
    Levels <- MCLevels
    Ducked = 1
    MaxEvents = 1
SYMMETRY Symmetry
INVARIANTS TypeOK  DiskMatchesIndex ServedFromDisk VolumeGivenBack FocusGivenBack
PROPERTIES FinishedWasHeard
\* the attempts of the model run out
CHECK_DEADLOCK FALSE
