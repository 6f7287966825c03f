\* One replica; a detach may leave its secondary addresses on the
\* interface, and nothing else fails.
CONSTANTS
    NumENIs = 3
    WarmPool = 1
    MaxIPs = 2
    MaxFailures = 0
    MaxEnvSteps = 3
    AttachmentFK = TRUE
    DetachLeavesIPs = TRUE
    LostCommitAck = FALSE
    MissingInCloud = {}
    InitAttached = {}
    w1 = w1
    w2 = w2
    Workers <- MCOneWorker
SPECIFICATION Spec
PROPERTY Converges
CHECK_DEADLOCK FALSE
