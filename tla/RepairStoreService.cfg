\* One slot and one identifier, so that a tombstone always finds a slot, and no
\* retained tombstone: the smallest journal the assumptions allow.  One repair with
\* its rollback, both first resolved manually, fills it.
SPECIFICATION FairSpec
CONSTANTS
    Ids = {1}
    Drafts = {1}
    Parents = {1}
    RollbackIds = {1}
    MaxReservations = 1
    MaxReleaseTombstones = 1
    MaxRetained = 0
    TombstoneTTL = 3
    CompactionTrigger = 15
    MaxEvents = 17
    ClockBound = 26
    MaxBoots = 3
    MaxFaults = 2
INVARIANTS
    ReconciliationHasRoom
PROPERTIES
    InterruptedSettles
    StoreReopens
