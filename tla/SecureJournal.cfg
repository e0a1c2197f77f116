\* A database that was put back may be refused for good: the system stops there.
CHECK_DEADLOCK FALSE
\* Identifiers, keys and entries share six fresh values; three faults, so that an
\* interrupted recovery is interrupted again.
SPECIFICATION FairSpec
CONSTANTS
    MaxEntries = 3
    MaxFresh = 6
    MaxFaults = 3
INVARIANT AcknowledgedKept
PROPERTIES
    AnchorOnlyGrows
    JournalOpens
