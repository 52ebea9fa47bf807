\* Three envelopes, one dimension: a chain root, child, grandchild or two siblings.
CONSTANTS
    Envelope = {e1, e2, e3}
    Dimension = {tokens}
    Source = {s1}
    ExtensionKey = {x1}
    SettlementKey = {k1}
    Reconcile = reconcile
    Limits <- MCLimits
    GrantValue = {0, 2}
    ReserveValue = {0, 1, 2}
    UsageValue = {1}
    ExtendValue = {0, 1}
    Operation = {"START", "COMPLETE"}
    MaxInt64 = 3
    None = none
SPECIFICATION Spec
CHECK_DEADLOCK FALSE
INVARIANT TerminalChildSettles
