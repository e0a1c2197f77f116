\* A diagnosis and a repair, leases shorter than the orders, two faults.
CONSTANTS
    LastOrder = 2
    Repairs = {2}
    OrderExpiry = 5
    LeaseTicks = 3
    ClockSkew = 2
    Second = 2
    RetainedResponses = 1
    MaxClock = 7
    MaxClaims = 2
    MaxFaults = 2
SPECIFICATION Spec
INVARIANTS ExecutedUnderOneLease RecordedWasDone ClaimLeasesOnce
PROPERTIES CompletedRecorded ComesFree
\* The clock stops at its bound.
CHECK_DEADLOCK FALSE
