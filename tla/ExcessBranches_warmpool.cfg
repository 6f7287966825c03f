\* One replica; a subnet one row above its warm pool, and an attacher that
\* may claim the newest unattached row while the DELETE is in flight.
CONSTANTS
    NumENIs = 3
    WarmPool = 1
    MaxIPs = 1
    MaxFailures = 0
    MaxEnvSteps = 1
    AttachmentFK = TRUE
    DetachLeavesIPs = FALSE
    LostCommitAck = FALSE
    MissingInCloud = {}
    InitAttached = {3}
    w1 = w1
    w2 = w2
    Workers <- MCOneWorker
SPECIFICATION Spec
PROPERTY NeverBelowWarmPool
CHECK_DEADLOCK FALSE
