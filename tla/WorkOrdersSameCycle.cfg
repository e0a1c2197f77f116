\* One diagnosis, a long lease, nothing fails.
CONSTANTS
    LastOrder = 1
    Repairs = {}
    OrderExpiry = 8
    LeaseTicks = 6
    ClockSkew = 4
    Second = 2
    RetainedResponses = 1
    MaxClock = 8
    MaxClaims = 1
    MaxFaults = 0
SPECIFICATION Spec
INVARIANT ResultIngested
CHECK_DEADLOCK FALSE
