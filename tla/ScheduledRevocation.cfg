CONSTANTS
    Nobody = Nobody
    Home = "t1"
    Target <- MCTarget
    Retention = 0
    Delay = {0, 1}
    MaxLag = 0
    MaxSeq = 2
    MaxTime = 2
    MaxFaults = 1
    MaxWire = 1
    revocationStreamBatch = 1
    maxRevocationDelta = 1
SPECIFICATION Spec
INVARIANTS
    ScheduledRevocationKept
CHECK_DEADLOCK FALSE
