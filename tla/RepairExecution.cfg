\* Two repairs; two failing steps, two deaths or power losses and one edit by
\* somebody else.
CONSTANTS
    Ids = {r1, r2}
    Original = Original
    Foreign = Foreign
    Partial = Partial
    NoFile = NoFile
    NoId = NoId
    MaxFaults = 2
    MaxStops = 2
    MaxEdits = 1
SPECIFICATION Spec
INVARIANTS WriteAuthority OpenBlocks ReceiptTrue
PROPERTIES KeepsThirdState SettledOnDisk PendingSettles
\* A receipt stays on display until the service is restarted, and the bounds run out.
CHECK_DEADLOCK FALSE
