\* Four envelopes with two kinds of structural limits: chains, siblings and their mixtures.
CONSTANTS
    Envelope = {e1, e2, e3, e4}
    Dimension = {tokens}
    Source = {}
    ExtensionKey = {}
    SettlementKey = {k1}
    Reconcile = reconcile
    Limits <- MCTopologyLimits
    GrantValue = {0, 2}
    ReserveValue = {1}
    UsageValue = {1}
    ExtendValue = {0, 1}
    Operation = {"START"}
    MaxInt64 = 2
    None = none
SPECIFICATION Spec
SYMMETRY EnvelopeSymmetry
INVARIANTS DelegationNarrows TopologyWithinLimits CreditNeverRefused
CHECK_DEADLOCK FALSE
