\* One replica; the connection may drop after the server committed the
\* DELETE and before tx.Commit returns.
CONSTANTS
    NumENIs = 2
    WarmPool = 1
    MaxIPs = 1
    MaxFailures = 1
    MaxEnvSteps = 0
    AttachmentFK = TRUE
    DetachLeavesIPs = FALSE
    LostCommitAck = TRUE
    MissingInCloud = {}
    InitAttached = {}
    w1 = w1
    w2 = w2
    Workers <- MCOneWorker
SPECIFICATION Spec
INVARIANT LedgerCloudAgreement
CHECK_DEADLOCK FALSE
