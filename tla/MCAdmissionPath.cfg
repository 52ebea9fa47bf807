SPECIFICATION PathSpec
CONSTANTS
    Version = {v1, v2}
    Provisioned = {v1}
    DecisionId = {1}
    Wanted = {"SUSPENDED", "RETIRED", "APPROVED", "REVOKED"}
    MaxUpdates = 2
    NoRecord = NoRecord
    Attempt = {a1, a2}
    Request = {Unpinned, v1}
    Unpinned = Unpinned
    Lease = 1
    TTL = 2
    MaxTime = 2
    MaxTokens = 2
    Evaluation = {r1, r2}
    MaxAge = 1
    MaxTTL = 1
    MaxLoad = 1
    MaxLocalEntries = 2
    MaxClock = 3
    MaxGeneration = 2
    MaxShared = 1
SYMMETRY RequestSymmetry
INVARIANTS
    OneRunPerKey
    ReplayIsFaithful
    RevokedVersionsStayOut
    StaleAllowBounded
    HighRiskIsLive
    AcknowledgedIsEnforced
PROPERTIES
    RetiredIsFinal
CHECK_DEADLOCK FALSE
