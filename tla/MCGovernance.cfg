SPECIFICATION MCSpec
CONSTANTS
    x = x
    y = y
    Principal = {p1, p2}
    Nobody = Nobody
    Lifetime = 2
    MaxApprovals = 1
    MaxTime = 1
    Scope = {"POLICY_RECOVERY"}
    MaxValidity = 2
    MaxEvents = 3
    Digest = {"d1", "d2"}
    Provisioned = "d1"
    Uploaded = {"d2"}
    Artifact = {1}
    Proposed <- MCProposed
    Initial <- MCInitial
    ExternalRole <- MCExternalRole
    Key = {1, 2}
    MaxOps = 4
    Kid = {k1, k2}
    Call = {c1, c2}
    JWKSMinTTL = 1
    JWKSMaxTTL = 2
    JWKSStaleTTL = 2
    AdvisedTTL = {3}
    FetchTime = 1
    MaxInstant = 3
SYMMETRY MCSymmetry
INVARIANTS
    ReviewedStateIsReplaced
    RoleInForceAtCommit
    IndependentlyApproved
    ApprovalUsedOnce
    EndedGrantOnlyDrains
    RetiredKeyExpires
CHECK_DEADLOCK FALSE
