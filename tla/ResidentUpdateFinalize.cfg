SPECIFICATION Spec
CONSTANTS
    MaxSequence = 1
    Broken = {}
    Once = FALSE
    MaxSigned = 1
    MaxRollbacks = 0
    MaxFaults = 1
    StartLimitBurst = 4
INVARIANT FinalizeRetries
