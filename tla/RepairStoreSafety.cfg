\* Three identifiers and two drafts for two slots: slots, drafts and tombstones run
\* out, and a full table makes a compaction fail.  Two parents: an interrupted store
\* may wake up attached elsewhere.
SPECIFICATION Spec
CONSTANTS
    Ids = {1, 2, 3}
    Drafts = {1, 2}
    Parents = {1, 2}
    RollbackIds = {1}
    MaxReservations = 2
    MaxReleaseTombstones = 2
    MaxRetained = 1
    TombstoneTTL = 3
    CompactionTrigger = 34
    MaxEvents = 36
    ClockBound = 10
    MaxBoots = 2
    MaxFaults = 1
INVARIANTS
    NeverCorrupt
    FilesMatchJournal
    PowerLossAloneHarmless
    DraftReservedOnce
    CompactionDecided
PROPERTIES
    IntentDecides
    TombstonesKept
    StoreIsVault
