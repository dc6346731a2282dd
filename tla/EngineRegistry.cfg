SPECIFICATION Spec
CONSTANTS
    piper = piper
    coqui = coqui
    device = device
    spaced = spaced
    c1 = c1
    c2 = c2
    Names <- MCNames
    Trim <- MCTrim
    Reserved = {device}
    Slips = {spaced}
    Device = device
    Configs = {c1}
    NoConfig = NoConfig
    MaxChain = 2
INVARIANTS TypeOK ChainsUsable EnginesSaved
