SPECIFICATION FairSpec
CONSTANTS
    MaxSequence = 2
    Broken = {2}
    Once = FALSE
    MaxSigned = 2
    MaxRollbacks = 1
    MaxFaults = 2
    StartLimitBurst = 4
INVARIANTS StagedIntact DefaultProven TrialRecorded OutcomeTruthful
PROPERTIES FallbackKept NoDowngrade ActivationEnds
\* After a rollback the default entry may not come up: the machine stops there.
CHECK_DEADLOCK FALSE
