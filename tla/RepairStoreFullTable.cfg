\* Every slot taken by a resolved or reserved backup while a tombstone is retained.
SPECIFICATION Spec
CONSTANTS
    Ids = {1, 2, 3, 4}
    Drafts = {1, 2, 3, 4}
    Parents = {1}
    RollbackIds = {}
    MaxReservations = 2
    MaxReleaseTombstones = 3
    MaxRetained = 2
    TombstoneTTL = 7
    CompactionTrigger = 42
    MaxEvents = 44
    ClockBound = 12
    MaxBoots = 1
    MaxFaults = 0
INVARIANTS
    DueCompactionSucceeds
