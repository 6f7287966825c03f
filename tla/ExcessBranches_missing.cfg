\* One replica; the interface of the first excess row was deleted from the
\* cloud out of band, so describing it returns InvalidNetworkInterfaceID.NotFound.
CONSTANTS
    NumENIs = 3
    WarmPool = 1
    MaxIPs = 1
    MaxFailures = 0
    MaxEnvSteps = 0
    AttachmentFK = TRUE
    DetachLeavesIPs = FALSE
    LostCommitAck = FALSE
    MissingInCloud = {2}
    InitAttached = {}
    w1 = w1
    w2 = w2
    Workers <- MCOneWorker
SPECIFICATION Spec
PROPERTY Converges
CHECK_DEADLOCK FALSE
