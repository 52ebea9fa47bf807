SPECIFICATION Spec
CONSTANTS
    k = k
    j = j
    Key = {k, j}
    Attempt = {a1, a2}
    Command <- MCCommand
    Move = {"COMPLETED"}
    Lease = 1
    TTL = 2
    MaxTime = 1
    MaxTokens = 2
    MaxVersion = 3
    MaxInt64 = 9
    NoRecord = NoRecord
    Retain = 2
    EventBatchSize = 2
    MaxEvents = 6
    MaxConnects = 3
    Message = {m1, m2}
    Publisher = {p1, p2}
    PublishBatchSize = 2
    MaxAttempts = 2
    MaxOutboxFaults = 2
    Trusted = TRUE
INVARIANTS
    PoolClosedLast
    CancelAnswerIsFinal
    SignalAnswerNamesItsEvent
    WithdrawalEndsStream
    
PROPERTIES
    NoSilentGap
    LiveClaimIsExclusive
    StopCompletes
CHECK_DEADLOCK FALSE
