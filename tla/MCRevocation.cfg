CONSTANTS
    Nobody = Nobody
    Home = "t1"
    Target <- MCTarget
    Retention = 1
    Delay = {0}
    MaxLag = 1
    MaxSeq = 2
    MaxTime = 2
    MaxFaults = 1
    MaxWire = 1
    revocationStreamBatch = 1
    maxRevocationDelta = 1
SPECIFICATION FairSpec
INVARIANTS
    NothingSkipped
    CurrentEpochsMeanCurrentView
PROPERTIES
    EveryRevocationArrives
CHECK_DEADLOCK FALSE
