\* One repair, nothing fails and nobody edits: two power losses or process deaths.
CONSTANTS
    Ids = {r1}
    Original = Original
    Foreign = Foreign
    Partial = Partial
    NoFile = NoFile
    NoId = NoId
    MaxFaults = 0
    MaxStops = 2
    MaxEdits = 0
SPECIFICATION Spec
PROPERTY KillsRecoverable
CHECK_DEADLOCK FALSE
