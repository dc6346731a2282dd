SPECIFICATION Spec
CONSTANTS
    t1 = t1 t2 = t2
    m1 = m1 m2 = m2
    clip1 = clip1 clip2 = clip2 bad = bad canned = canned
    NoMessage = NoMessage NoClip = NoClip NoKey = NoKey Truncated = Truncated Garbled = Garbled
    Calls <- MCCalls
    Messages <- MCMessages
    Clips <- MCClips
    Signatures <- MCSignatures
    Signature <- MCSignature
    Registered <- MCRegistered
    Answers <- MCAnswers
    Entries <- MCOneEntry
    Faults <- MCFaults
    MaxEvents = 3
INVARIANTS TypeOK    
 
SYMMETRY Symmetry
