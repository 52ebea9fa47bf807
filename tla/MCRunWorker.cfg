SPECIFICATION Spec
CONSTANTS
    Run = {r1}
    Worker = {w1, w2}
    Call = {c1, c2}
    SignalKey = {k1}
    Tenant = Tenant
    Agent = Agent
    Revocable = {r1}
    Effective = {0, 2}
    LeaseDuration = 2
    Skew = 0
    MaxTime = 3
    MaxClaims = 2
    MaxInt64 = 4
    None = None
SYMMETRY WorkerSymmetry
INVARIANTS
    SoleOwner
    RevocationEndsLease
PROPERTIES
    TerminalIsFinal
    OwnershipIsFenced
CHECK_DEADLOCK FALSE
